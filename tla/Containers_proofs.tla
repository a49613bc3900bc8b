--------------------------- MODULE Containers_proofs ---------------------------
(***************************************************************************)
(* Proofs about the containers for every number of items.  The first part  *)
(* is about the disjoint set forest: ranks grow along the parent pointers, *)
(* every look-up ends at a root, and the forest is a partition.  The       *)
(* second part is about static queues and stacks that share an array of    *)
(* links: they implement separate lists.  The third part is about hash     *)
(* tables and dictionaries: they implement a map from items to keys.       *)
(***************************************************************************)
EXTENDS Containers, FiniteSetTheorems, SequenceTheorems, WellFoundedInduction, TLAPS

\* The parent pointers respect the ranks: the part of the invariant that
\* everything about paths rests on.
Forest == TypeOK /\ RanksIncrease

\* The item set is finite.
LEMMA ItemsFinite == IsFiniteSet(Items) /\ IsFiniteSet(Live)
<1>1. IsFiniteSet(Items)
  BY ItemCount, FS_Interval DEF Items
<1> QED
  BY <1>1, FS_Subset DEF Live

\* The items that Find visits form a closed set of live items around v.
LEMMA PathIsClosed ==
  ASSUME Forest, NEW v \in Live
  PROVE  /\ Path(v) \subseteq Live
         /\ v \in Path(v)
         /\ Closed(Path(v))
         /\ \A S \in SUBSET Live : v \in S /\ Closed(S) => Path(v) \subseteq S
  BY DEF Path, Closed, Forest, RanksIncrease, Live

\* A non-empty closed set of items contains a root: otherwise the items of
\* greater rank than a given one would form a smaller closed set.
LEMMA ClosedSetHasRoot ==
  ASSUME Forest, NEW S \in SUBSET Live, S # {}, Closed(S)
  PROVE  \E r \in S : B[r] = r
<1> DEFINE Parts == {X \in SUBSET S : X # {} /\ Closed(X)}
<1>1. IsFiniteSet(S)
  BY ItemsFinite, FS_Subset
<1>2. IsWellFoundedOn(StrictSubsetOrdering(S), SUBSET S)
  BY <1>1, FS_StrictSubsetOrderingWellFounded, FS_FiniteSubsetsOfFinite
<1>3. Parts \subseteq SUBSET S /\ Parts # {}
  OBVIOUS
<1>4. PICK X \in Parts : \A Y \in Parts : ~ (<<Y, X>> \in StrictSubsetOrdering(S))
  <2> HIDE DEF Parts
  <2> QED BY <1>2, <1>3, WFMin
<1>5. PICK w \in X : TRUE
  OBVIOUS
<1>6. SUFFICES ASSUME B[w] # w PROVE FALSE
  BY <1>5
<1> DEFINE Y == {x \in X : rank[w] < rank[x]}
<1>7. /\ w \in Live /\ X \subseteq Live
      /\ \A x \in Live : rank[x] \in Nat
  BY DEF Forest, TypeOK, Live
<1>8. B[w] \in Y
  BY <1>6, <1>7 DEF Closed, Forest, RanksIncrease
<1>9. Closed(Y)
  <2> SUFFICES ASSUME NEW x \in Y PROVE B[x] \in Y
    BY DEF Closed
  <2>1. B[x] \in X /\ B[x] \in Live /\ x \in Live
    BY <1>7 DEF Closed
  <2>2. B[x] = x \/ rank[x] < rank[B[x]]
    BY <2>1 DEF Forest, RanksIncrease
  <2> QED BY <2>1, <2>2, <1>7
<1>10. w \notin Y
  BY <1>7
<1>11. Y \in Parts
  BY <1>8, <1>9
<1>12. <<Y, X>> \in StrictSubsetOrdering(S)
  BY <1>10, <1>5 DEF StrictSubsetOrdering
<1> QED
  BY <1>4, <1>11, <1>12

\* Find ends: from every live item the parent pointers lead to a root.
LEMMA RootExists ==
  ASSUME Forest, NEW v \in Live
  PROVE  Root(v) \in Roots /\ Root(v) \in Path(v)
<1>1. \E r \in Path(v) : B[r] = r
  BY PathIsClosed, ClosedSetHasRoot
<1>2. \E r \in Roots : r \in Path(v)
  BY <1>1, PathIsClosed DEF Roots
<1> QED
  BY <1>2 DEF Root

\* The root of an item is also the root of every item on its path.
LEMMA RootOfPath ==
  ASSUME Forest, NEW v \in Live, NEW w \in Path(v)
  PROVE  w \in Live /\ Root(v) \in Path(w)
<1> DEFINE r == Root(v)
           S == {x \in Path(v) : r \in Path(x)}
<1>1. /\ Path(v) \subseteq Live /\ v \in Path(v) /\ Closed(Path(v))
      /\ r \in Path(v) /\ B[r] = r
  BY PathIsClosed, RootExists DEF Roots
<1>2. ASSUME NEW x \in S PROVE B[x] \in S
  <2>1. x \in Live /\ B[x] \in Live /\ B[x] \in Path(v)
    BY <1>1 DEF Closed
  <2>2. CASE x = r
    BY <2>2, <1>1
  <2>3. CASE x # r
    <3> DEFINE Q == {x} \cup Path(B[x])
    <3>1. Q \in SUBSET Live /\ x \in Q /\ Closed(Q)
      BY <2>1, PathIsClosed DEF Closed
    <3>2. Path(x) \subseteq Q
      BY <3>1, <2>1, PathIsClosed
    <3> QED BY <3>2, <2>3, <2>1
  <2> QED BY <2>2, <2>3
<1>3. S \in SUBSET Live /\ v \in S /\ Closed(S)
  BY <1>1, <1>2 DEF Closed
<1>4. Path(v) \subseteq S
  BY <1>3, PathIsClosed
<1> QED
  BY <1>4, <1>1

\* An item of the path is the root or has a smaller rank than the root.
LEMMA RanksOnPath ==
  ASSUME Forest, NEW v \in Live, NEW w \in Path(v)
  PROVE  w = Root(v) \/ rank[w] < rank[Root(v)]
<1> DEFINE Up == {x \in Live : x = w \/ rank[w] < rank[x]}
<1>1. w \in Live /\ Root(v) \in Path(w)
  BY RootOfPath
<1>2. \A x \in Live : rank[x] \in Nat
  BY DEF Forest, TypeOK, Live
<1>3. Closed(Up)
  <2> SUFFICES ASSUME NEW x \in Up PROVE B[x] \in Up
    BY DEF Closed
  <2>1. B[x] \in Live /\ (B[x] = x \/ rank[x] < rank[B[x]])
    BY DEF Forest, RanksIncrease
  <2> QED BY <2>1, <1>1, <1>2
<1>4. Path(w) \subseteq Up
  BY <1>1, <1>3, PathIsClosed
<1> QED
  BY <1>1, <1>4

-----------------------------------------------------------------------------
\* Parent pointers C that could replace B: the same live items, and a parent
\* is the item itself or has a greater rank.
Fits(C) == /\ C \in [Items -> Items \cup {UNDEFINED}]
           /\ \A v \in Items : C[v] = UNDEFINED <=> v \notin Live
           /\ \A v \in Live : /\ C[v] \in Live
                              /\ C[v] = v \/ rank[v] < rank[C[v]]

\* Path compression hangs items below items of greater rank only, and keeps
\* the roots.
LEMMA CompressFits ==
  ASSUME Forest, NEW v \in Live
  PROVE  /\ Fits(Compress(v))
         /\ \A r \in Roots : Compress(v)[r] = r
<1>1. /\ Path(v) \subseteq Live /\ Closed(Path(v))
      /\ Root(v) \in Live /\ Root(v) \in Items /\ Root(v) # UNDEFINED
  BY PathIsClosed, RootExists, ItemCount DEF Roots, Live, Items, UNDEFINED
<1>2. Fits(B)
  BY DEF Forest, TypeOK, RanksIncrease, Fits, Live
<1>3. \A w \in Path(v) : w = Root(v) \/ rank[w] < rank[Root(v)]
  BY RanksOnPath
<1>4. \A r \in Roots : r \in Live /\ B[r] = r
  BY DEF Roots
<1>5. \A w \in Live : w \in Items /\ rank[w] \in Nat
  BY DEF Live, Forest, TypeOK
<1>6. \A r \in Roots \cap Path(v) : r = Root(v)
  <2> SUFFICES ASSUME NEW r \in Roots, r \in Path(v) PROVE r = Root(v)
    OBVIOUS
  <2> DEFINE Up == {x \in Live : x = r}
  <2>1. r \in Live /\ B[r] = r
    BY <1>4
  <2>2. Root(v) \in Path(r)
    BY <2>1, RootOfPath
  <2>3. Path(r) \subseteq Up
    BY <2>1, PathIsClosed DEF Closed
  <2> QED BY <2>2, <2>3
<1>7. CASE MethDSU = 1
  <2> DEFINE C == [w \in Items |-> IF w \in Path(v) THEN Root(v) ELSE B[w]]
  <2>1. Compress(v) = C
    BY <1>7 DEF Compress
  <2>2. C \in [Items -> Items \cup {UNDEFINED}]
    BY <1>1, <1>2 DEF Fits
  <2>3. \A w \in Items : C[w] = UNDEFINED <=> w \notin Live
    BY <1>1, <1>2 DEF Fits, Live
  <2>4. \A w \in Live : C[w] \in Live /\ (C[w] = w \/ rank[w] < rank[C[w]])
    BY <1>1, <1>2, <1>3, <1>5 DEF Fits
  <2>5. \A r \in Roots : C[r] = r
    BY <1>4, <1>5, <1>6
  <2> QED BY <2>1, <2>2, <2>3, <2>4, <2>5 DEF Fits
<1>8. CASE MethDSU # 1
  BY <1>2, <1>4, <1>8 DEF Compress
<1> QED
  BY <1>7, <1>8

\* Linking two roots keeps the order of the ranks, also on a tie, where the
\* surviving root gains a rank.
LEMMA LinkKeepsForest ==
  ASSUME Forest, NEW STATE C, Fits(C), NEW STATE r, NEW STATE s, r \in Live, s \in Live,
         C[r] = r, C[s] = s, Link(C, r, s), ret' \in Returned
  PROVE  Forest'
<1>1. \A w \in Live : w \in Items /\ rank[w] \in Nat /\ w # UNDEFINED
  BY ItemCount DEF Live, Forest, TypeOK, Items, UNDEFINED
<1>2. \A w \in Live : C[w] \in Live
  BY DEF Fits
<1>3. CASE rank[r] < rank[s] /\ B' = [C EXCEPT ![r] = s] /\ UNCHANGED rank
  <2>1. B' \in [Items -> Items \cup {UNDEFINED}] /\ rank' \in [Items -> Nat]
    BY <1>1, <1>3 DEF Fits, Forest, TypeOK
  <2>2. Live' = Live
    BY <1>1, <1>3 DEF Live, Fits
  <2>3. \A w \in Live : B'[w] \in Live /\ (B'[w] # w => rank'[w] < rank'[B'[w]])
    BY <1>1, <1>2, <1>3 DEF Fits
  <2> QED BY <2>1, <2>2, <2>3 DEF Forest, TypeOK, RanksIncrease, Returned
<1>4. CASE /\ rank[r] >= rank[s]
           /\ B' = [C EXCEPT ![s] = r]
           /\ rank' = IF rank[r] = rank[s] /\ r # s
                      THEN [rank EXCEPT ![r] = @ + 1] ELSE rank
  <2>1. B' \in [Items -> Items \cup {UNDEFINED}] /\ rank' \in [Items -> Nat]
    BY <1>1, <1>4 DEF Fits, Forest, TypeOK
  <2>2. Live' = Live
    BY <1>1, <1>4 DEF Live, Fits
  <2>3. \A w \in Live : B'[w] \in Live
    BY <1>1, <1>2, <1>4 DEF Fits
  <2>4. ASSUME NEW w \in Live, B'[w] # w PROVE rank'[w] < rank'[B'[w]]
    <3>0. /\ w \in Items /\ C[w] \in Live /\ B'[w] \in Items
          /\ rank \in [Items -> Nat] /\ C \in [Items -> Items \cup {UNDEFINED}]
      BY <1>1, <1>2, <2>3 DEF Fits, Forest, TypeOK
    <3>1. CASE w = s
      BY <3>0, <3>1, <2>4, <1>1, <1>4
    <3>2. CASE w # s
      <4>1. B'[w] = C[w] /\ C[w] # w /\ w # r
        BY <3>0, <3>2, <2>4, <1>4
      <4>2. rank[w] < rank[C[w]]
        BY <4>1 DEF Fits
      <4>3. rank'[w] = rank[w]
        BY <4>1, <3>0, <1>4
      <4>4. rank'[C[w]] \in {rank[C[w]], rank[C[w]] + 1}
        BY <3>0, <1>4, <1>1
      <4> QED BY <4>1, <4>2, <4>3, <4>4, <1>1, <3>0
    <3> QED BY <3>1, <3>2
  <2> QED BY <2>1, <2>2, <2>3, <2>4 DEF Forest, TypeOK, RanksIncrease, Returned
<1> QED
  BY <1>3, <1>4 DEF Link

\* Every operation, in every order and with every setting of methDSU and
\* logWarn, leaves a forest whose ranks increase towards the roots: look-ups
\* end, and all stored values have their types (Find returns an item or
\* throws).
LEMMA InitForest == Init => Forest
<1> SUFFICES ASSUME Init PROVE Forest
  OBVIOUS
<1>1. Live = {}
  BY DEF Init, Live
<1> QED
  BY <1>1 DEF Init, Forest, TypeOK, RanksIncrease, Returned

\* Every call keeps the forest.
LEMMA NextForest == Forest /\ [Next]_vars => Forest'
<1> SUFFICES ASSUME Forest, [Next]_vars PROVE Forest'
  OBVIOUS
<1> USE DEF Returned
<1>1. CASE Clear
  <2>1. Live' = {}
    BY <1>1 DEF Clear, Live
  <2> QED BY <1>1, <2>1 DEF Clear, Forest, TypeOK, RanksIncrease
<1>2. ASSUME NEW v \in Items, Bud(v) PROVE Forest'
  <2>1. v # UNDEFINED /\ v \notin Live
    BY <1>2, ItemCount DEF Bud, Items, UNDEFINED
  <2>2. Live' = Live \cup {v}
    BY <1>2, <2>1 DEF Bud, Live, Forest, TypeOK
  <2>3. B' \in [Items -> Items \cup {UNDEFINED}] /\ rank' \in [Items -> Nat]
    BY <1>2 DEF Bud, Forest, TypeOK
  <2>4. \A w \in Live : B'[w] = B[w] /\ rank'[w] = rank[w] /\ w # v
    BY <1>2, <2>1 DEF Bud, Live, Forest, TypeOK
  <2>5. B'[v] = v
    BY <1>2 DEF Bud, Forest, TypeOK
  <2> QED
    BY <1>2, <2>2, <2>3, <2>4, <2>5 DEF Bud, Forest, TypeOK, RanksIncrease
<1>3. ASSUME NEW v \in Items, Find(v) PROVE Forest'
  <2>1. v \in Live /\ Fits(B') /\ UNCHANGED rank /\ ret' = Root(v)
    BY <1>3, CompressFits DEF Find
  <2>2. Live' = Live
    BY <2>1 DEF Fits, Live
  <2>3. Root(v) \in Items
    BY <2>1, RootExists DEF Roots, Live
  <2> QED
    BY <2>1, <2>2, <2>3 DEF Fits, Forest, TypeOK, RanksIncrease
<1>4. ASSUME NEW u \in Items, NEW v \in Items, Merge(u, v) PROVE Forest'
  <2> DEFINE C == [w \in Items |-> IF Compress(u)[w] # B[w]
                                   THEN Compress(u)[w] ELSE Compress(v)[w]]
  <2>1. u \in Live /\ v \in Live /\ ret' \in Returned
    BY <1>4 DEF Merge
  <2>2. Link(C, Root(u), Root(v))
    BY <1>4 DEF Merge
  <2>3. /\ Fits(Compress(u)) /\ \A r \in Roots : Compress(u)[r] = r
        /\ Fits(Compress(v)) /\ \A r \in Roots : Compress(v)[r] = r
    BY <2>1, CompressFits
  <2>4. Fits(C)
    BY <2>3 DEF Fits, Live
  <2>5. Root(u) \in Roots /\ Root(v) \in Roots /\ Roots \subseteq Live /\ Live \subseteq Items
    BY <2>1, RootExists DEF Roots, Live
  <2>6. C[Root(u)] = Root(u) /\ C[Root(v)] = Root(v)
    BY <2>3, <2>5
  <2> HIDE DEF C
  <2> QED BY <2>1, <2>2, <2>4, <2>5, <2>6, LinkKeepsForest
<1>5. ASSUME NEW u \in Items, NEW v \in Items, FindUndefined(v) \/ MergeReject(u, v)
      PROVE  Forest'
  BY <1>5 DEF FindUndefined, MergeReject, Forest, TypeOK, RanksIncrease, Live
<1>6. CASE UNCHANGED vars
  BY <1>6 DEF vars, Forest, TypeOK, RanksIncrease, Live
<1> QED
  BY <1>1, <1>2, <1>3, <1>4, <1>5, <1>6 DEF Next

\* For every number of items, with and without path compression: the parent of an item that
\* is no root has a greater rank, so that Find() stops whatever calls Merge(), Bud() and
\* Find() have been made.
THEOREM RanksAlwaysIncrease == Spec => [](TypeOK /\ RanksIncrease)
<1>1. Spec => []Forest
  BY InitForest, NextForest, PTL DEF Spec
<1>2. Forest => TypeOK /\ RanksIncrease
  BY DEF Forest
<1> QED
  BY <1>1, <1>2, PTL

-----------------------------------------------------------------------------
(* The refinement.  A labelling that is constant along the parent pointers *)
(* and maps every root to itself is the map of the canonical elements:     *)
(* after a step, it is enough to give such a labelling.                    *)

\* L is constant along the parent pointers, and maps a root to itself.
Labelling(L) == /\ \A v \in Live : L[B[v]] = L[v]
                /\ \A r \in Roots : L[r] = r

\* The canonical element of every item.
Canon == [v \in Items |-> IF v \in Live THEN Root(v) ELSE UNDEFINED]

\* A labelling tells the root of every item.
LEMMA LabelIsRoot ==
  Forest => \A L : Labelling(L) => \A v \in Live : Root(v) = L[v]
<1> SUFFICES ASSUME Forest, NEW L, Labelling(L), NEW v \in Live
             PROVE  Root(v) = L[v]
  OBVIOUS
<1> DEFINE Same == {w \in Live : L[w] = L[v]}
<1>1. Closed(Same)
  BY DEF Closed, Labelling, Forest, RanksIncrease
<1>2. Path(v) \subseteq Same
  BY <1>1, PathIsClosed
<1> QED
  BY <1>2, RootExists DEF Labelling

\* The same after a step.
LEMMA LabelIsRootNext ==
  Forest' => (\A L : Labelling(L) => \A v \in Live : Root(v) = L[v])'
  BY LabelIsRoot, PTL

\* Find stops at a root.
LEMMA RootIsAlone ==
  ASSUME Forest, NEW r \in Roots
  PROVE  Path(r) \subseteq {r}
<1>1. r \in Live /\ B[r] = r
  BY DEF Roots
<1>2. Closed({r}) /\ {r} \in SUBSET Live
  BY <1>1 DEF Closed
<1> QED
  BY <1>1, <1>2, PathIsClosed

\* The canonical elements are such a labelling.
LEMMA CanonIsLabelling ==
  ASSUME Forest
  PROVE  /\ Labelling(Canon)
         /\ \A v \in Live : Canon[v] = Root(v) /\ Root(v) \in Roots
         /\ Canon \in [Items -> Items \cup {UNDEFINED}]
         /\ \A v \in Items : Canon[v] # UNDEFINED <=> v \in Live
<1>1. \A v \in Live : Root(v) \in Roots
  BY RootExists
<1>2. Roots \subseteq Live /\ Live \subseteq Items /\ UNDEFINED \notin Items
  BY ItemCount DEF Roots, Live, Items, UNDEFINED
<1>3. \A v \in Live : Canon[v] = Root(v)
  BY <1>2 DEF Canon
<1>4. \A r \in Roots : Root(r) = r
  BY <1>2, RootIsAlone, RootExists
<1>5. ASSUME NEW v \in Live PROVE Root(B[v]) = Root(v)
  <2>1. B[v] \in Live /\ B[v] \in Path(v) /\ Path(v) \subseteq Live
    BY PathIsClosed DEF Closed, Forest, RanksIncrease
  <2>2. Root(v) \in Path(B[v]) /\ Root(v) \in Roots
    BY <2>1, RootOfPath, RootExists
  <2>3. Root(B[v]) \in Path(Root(v))
    BY <2>1, <2>2, RootOfPath
  <2> QED
    BY <2>2, <2>3, RootIsAlone
<1>6. \A v \in Live : B[v] \in Live
  BY DEF Forest, RanksIncrease
<1> QED
  BY <1>1, <1>2, <1>3, <1>4, <1>5, <1>6 DEF Labelling, Canon

\* After a step, the canonical elements are given by any labelling.
LEMMA CanonNext ==
  ASSUME Forest', NEW L, L \in [Items -> Items \cup {UNDEFINED}],
         \A v \in Items : L[v] = UNDEFINED <=> v \notin Live',
         \A v \in Live' : L[B'[v]] = L[v],
         \A r \in Live' : B'[r] = r => L[r] = r
  PROVE  Canon' = L
<1>1. Labelling(L)'
  BY DEF Labelling, Roots
<1>2. \A v \in Live' : Root(v)' = L[v]
  BY <1>1, LabelIsRootNext
<1>3. \A v \in Items : Canon'[v] = L[v]
  BY <1>2 DEF Canon
<1> QED
  BY <1>3 DEF Canon

\* Path compression changes no canonical element.
LEMMA FindKeepsCanon ==
  ASSUME Forest, Forest', NEW v \in Items, Find(v)
  PROVE  Sets!Find(v)
<1>1. /\ v \in Live /\ B' = Compress(v) /\ ret' = Root(v)
      /\ Fits(B') /\ \A r \in Roots : B'[r] = r
  BY CompressFits DEF Find
<1>2. Live' = Live /\ Live \subseteq Items
  BY <1>1 DEF Fits, Live
<1>3. /\ Labelling(Canon) /\ Canon \in [Items -> Items \cup {UNDEFINED}]
      /\ \A w \in Live : Canon[w] = Root(w) /\ Root(w) \in Roots
      /\ \A w \in Items : Canon[w] # UNDEFINED <=> w \in Live
  BY CanonIsLabelling
<1>4. \A w \in Path(v) : Canon[w] = Root(v)
  <2> DEFINE Same == {w \in Live : Canon[w] = Canon[v]}
  <2>1. Closed(Same)
    BY <1>3 DEF Closed, Labelling, Forest, RanksIncrease
  <2> QED
    BY <1>1, <1>3, <2>1, PathIsClosed
<1>5. ASSUME NEW w \in Live
      PROVE  B'[w] = B[w] \/ (w \in Path(v) /\ B'[w] = Root(v))
  BY <1>1, <1>2 DEF Compress, Forest, TypeOK
<1>6. \A w \in Live' : Canon[B'[w]] = Canon[w]
  BY <1>1, <1>2, <1>3, <1>4, <1>5 DEF Labelling
<1>7. \A r \in Live' : B'[r] = r => Canon[r] = r
  BY <1>1, <1>2, <1>3, <1>4, <1>5 DEF Labelling, Roots
<1>8. Canon' = Canon
  BY <1>2, <1>3, <1>6, <1>7, CanonNext
<1> QED
  BY <1>1, <1>2, <1>3, <1>8 DEF Sets!Find, Sets!Live, Sets!Items, Sets!UNDEFINED, Canon, Items, UNDEFINED

\* UNDEFINED is told from the items.
LEMMA UndefinedIsNoItem == UNDEFINED \notin Items
  BY ItemCount DEF Items, UNDEFINED

\* Linking two roots unites their sets and no others.
LEMMA MergeUnites ==
  ASSUME Forest, Forest', NEW u \in Items, NEW v \in Items, Merge(u, v)
  PROVE  Sets!Merge(u, v)
<1> DEFINE C == [w \in Items |-> IF Compress(u)[w] # B[w]
                                 THEN Compress(u)[w] ELSE Compress(v)[w]]
           ru == Root(u)
           rv == Root(v)
           United == {w \in Live : Canon[w] = ru \/ Canon[w] = rv}
           L(c) == [w \in Items |-> IF w \in United THEN c ELSE Canon[w]]
<1>1. u \in Live /\ v \in Live /\ ret' = Void /\ Link(C, ru, rv)
  BY DEF Merge
<1>2. /\ Labelling(Canon) /\ Canon \in [Items -> Items \cup {UNDEFINED}]
      /\ \A w \in Live : Canon[w] = Root(w) /\ Root(w) \in Roots
      /\ \A w \in Items : Canon[w] # UNDEFINED <=> w \in Live
  BY CanonIsLabelling
<1>3. Live \subseteq Items /\ Roots \subseteq Live /\ ru \in Roots /\ rv \in Roots
  BY <1>1, <1>2 DEF Live, Roots
<1>4. ASSUME NEW x \in {u, v}, NEW w \in Path(x) PROVE Canon[w] = Root(x) /\ w \in Live
  <2> DEFINE Same == {y \in Live : Canon[y] = Canon[x]}
  <2>1. Closed(Same)
    BY <1>2 DEF Closed, Labelling, Forest, RanksIncrease
  <2> QED
    BY <1>1, <1>2, <2>1, PathIsClosed
<1>5. ASSUME NEW w \in Live
      PROVE  /\ Canon[C[w]] = Canon[w] /\ C[w] \in Live
             /\ C[w] = w => Canon[w] = w
  <2>1. \A x \in {u, v} : \/ Compress(x)[w] = B[w]
                          \/ w \in Path(x) /\ Compress(x)[w] = Root(x)
    BY <1>3 DEF Compress
  <2>2. C[w] = B[w] \/ \E x \in {u, v} : w \in Path(x) /\ C[w] = Root(x)
    BY <1>3, <2>1
  <2>3. CASE C[w] = B[w]
    BY <1>2, <2>3 DEF Labelling, Roots, Forest, RanksIncrease
  <2>4. CASE \E x \in {u, v} : w \in Path(x) /\ C[w] = Root(x)
    BY <1>1, <1>2, <1>3, <1>4, <2>4 DEF Labelling
  <2> QED
    BY <2>2, <2>3, <2>4
<1>6. C \in [Items -> Items \cup {UNDEFINED}] /\ \A w \in Items : C[w] = UNDEFINED <=> w \notin Live
  <2>1. Fits(Compress(u)) /\ Fits(Compress(v)) /\ Fits(B)
    BY <1>1, CompressFits DEF Forest, TypeOK, RanksIncrease, Fits, Live
  <2> QED
    BY <2>1 DEF Fits
<1>7. PICK c \in {ru, rv}, d \in {ru, rv} :
        /\ {c, d} = {ru, rv}
        /\ B' = [C EXCEPT ![d] = c]
  BY <1>1 DEF Link
<1> HIDE DEF C
<1>8. Live' = Live
  <2>1. c \in Items /\ d \in Items /\ d \in Live /\ c # UNDEFINED
    BY <1>3, UndefinedIsNoItem
  <2>2. \A w \in Items : B'[w] = UNDEFINED <=> w \notin Live
    BY <1>6, <1>7, <2>1
  <2> QED
    BY <1>3, <2>2 DEF Live
<1>9. \A w \in Live : L(c)[B'[w]] = L(c)[w]
  <2> SUFFICES ASSUME NEW w \in Live PROVE L(c)[B'[w]] = L(c)[w]
    OBVIOUS
  <2>1. CASE w = d
    BY <1>2, <1>3, <1>6, <1>7, <2>1 DEF Labelling
  <2>2. CASE w # d
    <3>1. B'[w] = C[w] /\ C[w] \in Live /\ Canon[C[w]] = Canon[w]
      BY <1>3, <1>5, <1>6, <1>7, <2>2
    <3> QED
      BY <1>3, <3>1
  <2> QED
    BY <2>1, <2>2
<1>10. \A w \in Live : B'[w] = w => L(c)[w] = w
  <2> SUFFICES ASSUME NEW w \in Live, B'[w] = w PROVE L(c)[w] = w
    OBVIOUS
  <2>1. CASE w = d
    BY <1>2, <1>3, <1>6, <1>7, <2>1 DEF Labelling
  <2>2. CASE w # d
    <3>1. Canon[w] = w
      BY <1>3, <1>5, <1>6, <1>7, <2>2
    <3> QED
      BY <1>3, <1>7, <2>2, <3>1
  <2> QED
    BY <2>1, <2>2
<1>11. L(c) \in [Items -> Items \cup {UNDEFINED}] /\ \A w \in Items : L(c)[w] = UNDEFINED <=> w \notin Live
  <2>1. c \in Items /\ c # UNDEFINED
    BY <1>3, UndefinedIsNoItem
  <2>2. \A w \in United : w \in Live
    OBVIOUS
  <2> QED
    BY <1>2, <2>1, <2>2
<1>12. Canon' = L(c)
  <2> DEFINE label == L(c)
  <2>1. /\ label \in [Items -> Items \cup {UNDEFINED}]
        /\ \A w \in Items : label[w] = UNDEFINED <=> w \notin Live'
    BY <1>8, <1>11
  <2>2. \A w \in Live' : label[B'[w]] = label[w] /\ (B'[w] = w => label[w] = w)
    BY <1>8, <1>9, <1>10
  <2> HIDE DEF label
  <2>3. Canon' = label
    BY <2>1, <2>2, CanonNext
  <2> QED
    BY <2>3 DEF label
<1>13. Canon[u] = ru /\ Canon[v] = rv
  BY <1>1, <1>2
<1> QED
  <2>0. Sets!Items = Items /\ Sets!UNDEFINED = UNDEFINED
    BY DEF Sets!Items, Sets!UNDEFINED, Items, UNDEFINED
  <2>1. Sets!Live = Live
    BY <1>2, <1>3, <2>0 DEF Sets!Live, Canon
  <2>2. Sets!SetOf(u) \cup Sets!SetOf(v) = United
    BY <1>13, <2>1 DEF Sets!SetOf, Canon
  <2> QED
    BY <1>1, <1>7, <1>12, <1>13, <2>0, <2>1, <2>2 DEF Sets!Merge, Sets!Void, Void, Canon

\* A new set has one element, and the other sets stay as they are.
LEMMA BudAddsSet ==
  ASSUME Forest, Forest', NEW v \in Items, Bud(v)
  PROVE  Sets!Bud(v)
<1> DEFINE L == [Canon EXCEPT ![v] = v]
<1>1. /\ Labelling(Canon) /\ Canon \in [Items -> Items \cup {UNDEFINED}]
      /\ \A w \in Live : Canon[w] = Root(w) /\ Root(w) \in Roots
      /\ \A w \in Items : Canon[w] # UNDEFINED <=> w \in Live
  BY CanonIsLabelling
<1>2. v \notin Live /\ v # UNDEFINED /\ Live \subseteq Items
  BY UndefinedIsNoItem DEF Bud, Live
<1>3. B' = [B EXCEPT ![v] = v] /\ B \in [Items -> Items \cup {UNDEFINED}]
  BY DEF Bud, Forest, TypeOK
<1>4. Live' = Live \cup {v}
  BY <1>2, <1>3 DEF Live
<1>5. L \in [Items -> Items \cup {UNDEFINED}] /\ \A w \in Items : L[w] = UNDEFINED <=> w \notin Live'
  BY <1>1, <1>2, <1>4
<1>6. \A w \in Live : B'[w] = B[w] /\ B[w] \in Live /\ L[w] = Canon[w] /\ L[B[w]] = Canon[B[w]]
  BY <1>1, <1>2, <1>3 DEF Forest, RanksIncrease
<1>7. B'[v] = v /\ L[v] = v
  BY <1>1, <1>3
<1>8. \A w \in Live' : L[B'[w]] = L[w]
  BY <1>1, <1>4, <1>6, <1>7 DEF Labelling
<1>9. \A w \in Live' : B'[w] = w => L[w] = w
  BY <1>1, <1>4, <1>6, <1>7 DEF Labelling, Roots
<1>10. Canon' = L
  BY <1>5, <1>8, <1>9, CanonNext
<1>11. Canon[v] = UNDEFINED /\ Sets!UNDEFINED = UNDEFINED
  BY <1>1, <1>2 DEF Sets!UNDEFINED, UNDEFINED
<1>12. v \notin Sets!Live
  BY <1>11 DEF Sets!Live, Canon
<1> QED
  BY <1>10, <1>12 DEF Sets!Bud, Sets!Void, Void, Bud, Canon

\* Every call of the forest is a call of the partition.
LEMMA StepRefines ==
  ASSUME LogWarn, Forest, Forest', [Next]_vars
  PROVE  [Sets!Next]_<<Canon, ret>>
<1> USE DEF Sets!Items, Items
<1>1. CASE Clear
  <2>1. Live' = {}
    BY <1>1 DEF Clear, Live
  <2>2. Canon' = [v \in Items |-> UNDEFINED]
    BY <2>1 DEF Canon
  <2> QED
    BY <1>1, <2>2 DEF Clear, Sets!Next, Sets!Clear, Sets!Void, Sets!UNDEFINED, Void, UNDEFINED, Canon
<1>2. ASSUME NEW v \in Items, Bud(v) \/ Find(v) PROVE Sets!Next
  BY <1>2, BudAddsSet, FindKeepsCanon DEF Sets!Next
<1>3. ASSUME NEW u \in Items, NEW v \in Items, Merge(u, v) PROVE Sets!Next
  BY <1>3, MergeUnites DEF Sets!Next
<1>4. ASSUME NEW u \in Items, NEW v \in Items, FindUndefined(v) \/ MergeReject(u, v)
      PROVE  Sets!Next
  <2>1. B' = B /\ rank' = rank /\ ret' = ERRange
    BY <1>4 DEF FindUndefined, MergeReject
  <2>2. Canon' = Canon
    BY <2>1 DEF Canon, Live, Root, Roots, Path, Closed
  <2> QED
    BY <2>1, <2>2 DEF Sets!Next, Sets!Reject, Sets!ERRange, ERRange, Canon
<1>5. CASE UNCHANGED vars
  BY <1>5 DEF vars, Canon, Live, Root, Roots, Path, Closed
<1> QED
  BY <1>1, <1>2, <1>3, <1>4, <1>5 DEF Next

\* For every number of items, with and without path compression, and if range
\* checks are on (logWarn): the forest implements the partition of the header's
\* comments.  A merge unites two sets, and no look-up changes a canonical
\* element although it moves items in the forest.
THEOREM ForestIsPartition == LogWarn => (Spec => ImplementsPartition)
<1> SUFFICES ASSUME LogWarn PROVE Spec => ImplementsPartition
  OBVIOUS
<1>1. Init => Sets!Init
  <2> SUFFICES ASSUME Init PROVE Sets!Init
    OBVIOUS
  <2>1. Live = {}
    BY DEF Init, Live
  <2> QED
    BY <2>1 DEF Init, Sets!Init, Sets!Items, Sets!UNDEFINED, Sets!Void, Items, UNDEFINED, Void
<1>2. Forest /\ Forest' /\ [Next]_vars => [Sets!Next]_Sets!vars
  BY StepRefines DEF Sets!vars, Canon
<1>3. Spec => []Forest
  BY InitForest, NextForest, PTL DEF Spec
<1> QED
  BY <1>1, <1>2, <1>3, PTL DEF Spec, ImplementsPartition, Sets!Spec

\* A client of the containers uses a family and lists as their specifications say, whatever
\* it does with the others.
LEMMA ClientsKeepToSpec == ContainerSpec => Spec /\ Lists!Spec
<1>1. Begin => Init /\ Lists!Init
  BY DEF Begin
<1>2. [Step]_<<subject, family, lists, table>> => [Next]_vars
  BY DEF Step, vars, family
<1>3. [Step]_<<subject, family, lists, table>> => [Lists!Next]_<<lifo, q, call>>
  BY DEF Step, lists
<1> QED
  BY <1>1, <1>2, <1>3, PTL DEF ContainerSpec, Spec, Lists!Spec, Lists!vars

\* The families that clients use keep their ranks in order, and are partitions.
THEOREM ClientsKeepPartition ==
  ContainerSpec => []RanksIncrease /\ (LogWarn => ImplementsPartition)
<1>1. LogWarn => (Spec => ImplementsPartition)
  BY ForestIsPartition
<1> QED
  BY <1>1, ClientsKeepToSpec, RanksAlwaysIncrease, PTL

-----------------------------------------------------------------------------
(***************************************************************************)
(* Static queues and stacks.  The record q represents lists L if the ends, *)
(* the links and the marks agree with them.  That such lists exist is the  *)
(* inductive invariant; every call then acts on L as it should.            *)
(***************************************************************************)

\* A set of natural numbers that holds zero and the successors of its members holds all.
LEMMA AllNumbers ==
  ASSUME NEW X \in SUBSET Nat, 0 \in X, \A k \in X : k + 1 \in X
  PROVE  X = Nat
<1> SUFFICES ASSUME Nat \ X # {} PROVE FALSE
  OBVIOUS
<1>1. PICK k \in Nat \ X : \A m \in Nat \ X : ~(<<m, k>> \in OpToRel(<, Nat))
  BY NatLessThanWellFounded, WFMin
<1>2. k # 0 /\ k - 1 \in Nat /\ k - 1 < k /\ (k - 1) + 1 = k
  OBVIOUS
<1>3. k - 1 \notin X
  BY <1>1, <1>2
<1> QED
  BY <1>1, <1>2, <1>3 DEF OpToRel

\* The lists, and the items they may have, of the instance that clients use.
Queues == Lists!Lists

Listables == Lists!Items

\* The values of the record that all lists share.
ListShape ==
  [link : [Listables -> 0 .. n], set : {Lists!NULL} \cup [Listables -> {Lists!Master, Lists!NoHandle}],
   open : SUBSET Queues, first : [Queues -> 0 .. n], last : [Queues -> 0 .. n],
   length : [Queues -> Nat]]

\* What the item at position k of a list links to.
Following(stacks, c, k) == IF k < Len(c) THEN c[k + 1] ELSE IF stacks THEN n ELSE c[k]

\* The ends and the number of items of a list are noted.
EndsFit(stacks, x, l, c) ==
  /\ x.length[l] = Len(c)
  /\ c = <<>> => x.first[l] = n /\ (stacks => x.last[l] = n)
  /\ c # <<>> => x.first[l] = c[1] /\ x.last[l] = c[Len(c)]

\* No item is listed twice.
Apart(L) ==
  \A l, m \in Queues : \A i \in 1 .. Len(L[l]), j \in 1 .. Len(L[m]) :
    L[l][i] = L[m][j] => l = m /\ i = j

\* w is on one of the lists L.
IsListed(L, w) == \E l \in Queues : \E k \in 1 .. Len(L[l]) : L[l][k] = w

\* The links follow the lists; items that are not listed link to nothing.
LinksFit(stacks, x, L) ==
  /\ \A l \in Queues : \A k \in 1 .. Len(L[l]) : x.link[L[l][k]] = Following(stacks, L[l], k)
  /\ \A w \in Listables : ~IsListed(L, w) => x.link[w] = n

\* The array set[] tells the items of the master from the others.
MarksFit(x, L) ==
  /\ x.set = Lists!NULL => x.open = {Lists!Master} \/ Listables = {}
  /\ \A l \in Queues : \A k \in 1 .. Len(L[l]) :
       IF x.set = Lists!NULL THEN l = Lists!Master ELSE x.set[L[l][k]] = Lists!Handle(l)

\* The record represents the lists L.
Represents(stacks, x, L) ==
  /\ x \in ListShape /\ stacks \in BOOLEAN
  /\ L \in [Queues -> Seq(Listables)]
  /\ \A l \in Queues : EndsFit(stacks, x, l, L[l])
  /\ Apart(L) /\ LinksFit(stacks, x, L) /\ MarksFit(x, L)
  /\ Lists!Master \in x.open
  /\ \A l \in Queues \ x.open : L[l] = <<>>

\* The inductive invariant.
ListInv == \E L : Represents(lifo, q, L)

\* The function by which the chain of a list is computed.
IsWalkBack(x, g) ==
  g = [i \in 0 .. n |-> IF i = n THEN <<>> ELSE IF x.link[i] = i THEN <<i>> ELSE <<i>> \o g[x.link[i]]]

\* Chain() is read off that function at the first item.
LEMMA ChainIsWalk ==
  ASSUME NEW x, NEW l
  PROVE  Lists!Chain(x, l) = (CHOOSE g : IsWalkBack(x, g))[x.first[l]]
BY Zenon DEF Lists!Chain, IsWalkBack

\* The rest of a list from some position on.
LEMMA RestOfList ==
  ASSUME NEW c \in Seq(Listables), NEW k \in 1 .. Len(c)
  PROVE  /\ SubSeq(c, k, Len(c)) = <<c[k]>> \o SubSeq(c, k + 1, Len(c))
         /\ k = Len(c) => SubSeq(c, k, Len(c)) = <<c[k]>>
         /\ k = 1 => SubSeq(c, k, Len(c)) = c
<1>1. SubSeq(c, k, Len(c)) = <<c[k]>> \o SubSeq(c, k + 1, Len(c))
  BY SubSeqRecursiveFirst
<1>2. k = Len(c) => SubSeq(c, k + 1, Len(c)) = <<>>
  BY SubSeqEmpty
<1>3. <<c[k]>> \o <<>> = <<c[k]>>
  BY ConcatEmptySeq
<1>4. k = 1 => SubSeq(c, k, Len(c)) = c
  BY SubSeqFull
<1> QED
  BY <1>1, <1>2, <1>3, <1>4

\* The function exists when the record represents lists: it finds the rest of the list from
\* where an item is.
LEMMA WalkExists ==
  ASSUME NEW st, NEW x, NEW L, Represents(st, x, L)
  PROVE  \E g : IsWalkBack(x, g)
<1> DEFINE Place(i, l, k) == l \in Queues /\ k \in 1 .. Len(L[l]) /\ L[l][k] = i
           row(i) == CHOOSE l : \E k : Place(i, l, k)
           pos(i) == CHOOSE k : Place(i, row(i), k)
           h == [i \in 0 .. n |-> IF i = n THEN <<>>
                                  ELSE IF IsListed(L, i) THEN SubSeq(L[row(i)], pos(i), Len(L[row(i)]))
                                  ELSE <<i>>]
<1>1. /\ x.link \in [Listables -> 0 .. n] /\ L \in [Queues -> Seq(Listables)]
      /\ Apart(L) /\ LinksFit(st, x, L)
  BY DEF Represents, ListShape
<1>2. /\ n \in Nat /\ Listables = 0 .. n - 1
  BY ListSize DEF Listables, Lists!Items
<1>3. \A i : IsListed(L, i) => Place(i, row(i), pos(i))
  <2>1. \A i : IsListed(L, i) => \E l, k : Place(i, l, k)
    BY DEF IsListed
  <2> HIDE DEF Place
  <2> QED
    BY <2>1
<1>4. ASSUME NEW l \in Queues, NEW k \in 1 .. Len(L[l])
      PROVE  /\ L[l][k] \in Listables /\ L[l][k] # n /\ L[l][k] \in 0 .. n
             /\ IsListed(L, L[l][k]) /\ row(L[l][k]) = l /\ pos(L[l][k]) = k
  <2>1. L[l][k] \in Listables
    BY <1>1
  <2>2. IsListed(L, L[l][k])
    BY DEF IsListed
  <2>3. Place(L[l][k], row(L[l][k]), pos(L[l][k]))
    BY <1>3, <2>2
  <2> HIDE DEF row, pos
  <2>4. row(L[l][k]) = l /\ pos(L[l][k]) = k
    BY <1>1, <2>3 DEF Apart
  <2> QED
    BY <1>2, <2>1, <2>2, <2>4
<1> HIDE DEF Place, row, pos
<1>5. ASSUME NEW i \in 0 .. n
      PROVE  h[i] = IF i = n THEN <<>> ELSE IF x.link[i] = i THEN <<i>> ELSE <<i>> \o h[x.link[i]]
  <2>1. CASE i = n
    BY <2>1
  <2>2. CASE i # n /\ ~IsListed(L, i)
    <3>1. i \in Listables /\ x.link[i] = n /\ n \in 0 .. n
      BY <1>1, <1>2, <2>2 DEF LinksFit
    <3>2. h[n] = <<>> /\ h[i] = <<i>>
      BY <2>2, <3>1
    <3>3. <<i>> \o <<>> = <<i>>
      BY ConcatEmptySeq
    <3> QED
      BY <2>2, <3>1, <3>2, <3>3
  <2>3. CASE i # n /\ IsListed(L, i)
    <3>1. PICK l, k : l = row(i) /\ k = pos(i)
      OBVIOUS
    <3>2. l \in Queues /\ k \in 1 .. Len(L[l]) /\ L[l][k] = i
      BY <1>3, <2>3, <3>1 DEF Place
    <3>3. PICK c : c = L[l]
      OBVIOUS
    <3>4. c \in Seq(Listables) /\ Len(c) \in Nat /\ k \in 1 .. Len(c) /\ c[k] = i
      BY <1>1, <3>2, <3>3
    <3>5. h[i] = SubSeq(c, k, Len(c))
      BY <2>3, <3>1, <3>3
    <3>6. x.link[i] = Following(st, c, k)
      BY <1>1, <3>2, <3>3 DEF LinksFit
    <3>7. /\ SubSeq(c, k, Len(c)) = <<i>> \o SubSeq(c, k + 1, Len(c))
          /\ k = Len(c) => SubSeq(c, k, Len(c)) = <<i>>
      BY <3>4, RestOfList
    <3>8. CASE k < Len(c)
      <4>1. k + 1 \in 1 .. Len(c) /\ x.link[i] = c[k + 1]
        BY <3>4, <3>6, <3>8 DEF Following
      <4>2. c[k + 1] # i
        BY <1>1, <3>2, <3>3, <3>4, <4>1 DEF Apart
      <4>3. h[c[k + 1]] = SubSeq(c, k + 1, Len(c))
        BY <1>4, <3>2, <3>3, <4>1
      <4> HIDE DEF h
      <4> QED
        BY <2>3, <3>5, <3>7, <4>1, <4>2, <4>3
    <3>9. CASE k = Len(c)
      <4>1. x.link[i] = (IF st THEN n ELSE i)
        BY <3>4, <3>6, <3>9 DEF Following
      <4>2. h[i] = <<i>>
        <5> HIDE DEF h
        <5> QED
          BY <3>5, <3>7, <3>9
      <4>3. h[n] = <<>>
        <5>1. n \in 0 .. n
          BY <1>2
        <5> QED
          BY <5>1
      <4>4. <<i>> \o <<>> = <<i>>
        BY ConcatEmptySeq
      <4> HIDE DEF h
      <4> QED
        BY <2>3, <4>1, <4>2, <4>3, <4>4
    <3> QED
      BY <3>4, <3>8, <3>9
  <2> QED
    BY <2>1, <2>2, <2>3
<1>6. h = [i \in 0 .. n |-> h[i]]
  OBVIOUS
<1> HIDE DEF h
<1>7. [i \in 0 .. n |-> h[i]]
        = [i \in 0 .. n |-> IF i = n THEN <<>> ELSE IF x.link[i] = i THEN <<i>> ELSE <<i>> \o h[x.link[i]]]
  BY <1>5
<1> QED
  BY <1>6, <1>7, Zenon DEF IsWalkBack

\* The chain of a list is the list.
LEMMA ChainIs ==
  ASSUME NEW st, NEW x, NEW L, Represents(st, x, L), NEW l \in Queues
  PROVE  Lists!Chain(x, l) = L[l]
<1> DEFINE g == CHOOSE h : IsWalkBack(x, h)
<1>1. IsWalkBack(x, g)
  BY WalkExists, Zenon
<1>2. Lists!Chain(x, l) = g[x.first[l]]
  BY ChainIsWalk
<1> HIDE DEF g
<1>3. PICK c : c = L[l]
  OBVIOUS
<1>4. /\ c \in Seq(Listables) /\ Len(c) \in Nat /\ n \in Nat /\ Listables = 0 .. n - 1
      /\ EndsFit(st, x, l, c)
      /\ \A k \in 1 .. Len(c) : x.link[c[k]] = Following(st, c, k)
      /\ \A j, k \in 1 .. Len(c) : c[j] = c[k] => j = k
  <2>1. n \in Nat /\ Listables = 0 .. n - 1
    BY ListSize DEF Listables, Lists!Items
  <2> QED
    BY <1>3, <2>1 DEF Represents, LinksFit, Apart
<1>5. \A i \in 0 .. n :
        g[i] = IF i = n THEN <<>> ELSE IF x.link[i] = i THEN <<i>> ELSE <<i>> \o g[x.link[i]]
  BY <1>1 DEF IsWalkBack
<1>6. \A k \in 1 .. Len(c) : c[k] \in 0 .. n /\ c[k] # n
  BY <1>4
<1>12. g[n] = <<>>
  <2>1. n \in 0 .. n
    BY <1>4
  <2> QED
    BY <1>5, <2>1
<1> DEFINE X == {j \in Nat : j < Len(c) => g[c[Len(c) - j]] = SubSeq(c, Len(c) - j, Len(c))}
<1>7. 0 \in X
  <2> SUFFICES ASSUME 0 < Len(c) PROVE g[c[Len(c)]] = SubSeq(c, Len(c), Len(c))
    BY <1>4
  <2>1. Len(c) \in 1 .. Len(c)
    BY <1>4
  <2>2. PICK i : i = c[Len(c)]
    OBVIOUS
  <2>3. i \in 0 .. n /\ i # n /\ x.link[i] = (IF st THEN n ELSE i)
    BY <1>4, <1>6, <2>1, <2>2 DEF Following
  <2>5. <<i>> \o <<>> = <<i>>
    BY ConcatEmptySeq
  <2>6. g[i] = <<i>>
    <3>1. CASE x.link[i] = i
      BY <1>5, <2>3, <3>1
    <3>2. CASE x.link[i] = n
      <4>1. g[i] = <<i>> \o g[n]
        BY <1>5, <2>3, <3>2
      <4> QED
        BY <1>12, <2>5, <4>1
    <3> QED
      BY <2>3, <3>1, <3>2
  <2> QED
    BY <1>4, <2>1, <2>2, <2>6, RestOfList
<1>8. ASSUME NEW j \in X PROVE j + 1 \in X
  <2>1. j \in Nat
    OBVIOUS
  <2> SUFFICES ASSUME j + 1 < Len(c) PROVE g[c[Len(c) - (j + 1)]] = SubSeq(c, Len(c) - (j + 1), Len(c))
    BY <2>1
  <2>2. PICK k : k = Len(c) - (j + 1)
    OBVIOUS
  <2>3. k \in 1 .. Len(c) /\ k + 1 \in 1 .. Len(c) /\ k + 1 = Len(c) - j /\ k < Len(c) /\ k # k + 1
    BY <1>4, <2>1, <2>2
  <2>4. g[c[k + 1]] = SubSeq(c, k + 1, Len(c))
    <3>1. j < Len(c)
      BY <1>4, <2>1
    <3>2. g[c[Len(c) - j]] = SubSeq(c, Len(c) - j, Len(c))
      BY <3>1
    <3> QED
      BY ONLY <2>3, <3>2
  <2>5. PICK i : i = c[k]
    OBVIOUS
  <2>6. i \in 0 .. n /\ i # n /\ x.link[i] = c[k + 1] /\ c[k + 1] # i
    BY <1>4, <1>6, <2>3, <2>5 DEF Following
  <2>7. g[i] = <<i>> \o SubSeq(c, k + 1, Len(c))
    <3>1. g[i] = <<i>> \o g[x.link[i]]
      BY <1>5, <2>6
    <3> QED
      BY ONLY <2>4, <2>6, <3>1
  <2>8. SubSeq(c, k, Len(c)) = <<i>> \o SubSeq(c, k + 1, Len(c))
    BY <1>4, <2>3, <2>5, RestOfList
  <2> QED
    BY <2>2, <2>5, <2>7, <2>8
<1>9. X = Nat
  <2>1. X \in SUBSET Nat
    OBVIOUS
  <2> HIDE DEF X
  <2> QED
    BY <1>7, <1>8, <2>1, AllNumbers
<1>10. CASE c = <<>>
  <2>1. x.first[l] = n
    BY <1>4, <1>10 DEF EndsFit
  <2> QED
    BY <1>2, <1>3, <1>10, <1>12, <2>1
<1>11. CASE c # <<>>
  <2>1. Len(c) - 1 \in Nat /\ Len(c) - 1 < Len(c) /\ Len(c) - (Len(c) - 1) = 1 /\ 1 \in 1 .. Len(c)
    BY <1>4, <1>11, EmptySeq
  <2>2. Len(c) - 1 \in X
    BY <1>9, <2>1
  <2>3. g[c[1]] = SubSeq(c, 1, Len(c))
    BY <2>1, <2>2
  <2>4. SubSeq(c, 1, Len(c)) = c
    BY <1>4, SubSeqFull
  <2>5. x.first[l] = c[1]
    BY <1>4, <1>11 DEF EndsFit
  <2> QED
    BY <1>2, <1>3, <2>3, <2>4, <2>5
<1> QED
  BY <1>10, <1>11

\* A list l whose first j items have been deleted.
Shortened(x, c, l, j) ==
  [link |-> [w \in Listables |-> IF \E k \in 1 .. j : c[k] = w THEN n ELSE x.link[w]],
   set |-> x.set, open |-> x.open,
   first |-> [x.first EXCEPT ![l] = IF j < Len(c) THEN c[j + 1] ELSE n],
   last |-> [x.last EXCEPT ![l] = IF lifo /\ j = Len(c) THEN n ELSE @],
   length |-> [x.length EXCEPT ![l] = Len(c) - j]]

\* Nothing has been deleted at first.
LEMMA ShortenedByNothing ==
  ASSUME NEW x, NEW L, Represents(lifo, x, L), NEW l \in Queues
  PROVE  Shortened(x, L[l], l, 0) = x
<1>1. PICK c : c = L[l]
  OBVIOUS
<1>2. x \in ListShape /\ EndsFit(lifo, x, l, c) /\ c \in Seq(Listables) /\ Len(c) \in Nat
  BY <1>1 DEF Represents
<1>3. /\ x.link \in [Listables -> 0 .. n] /\ x.first \in [Queues -> 0 .. n]
      /\ x.last \in [Queues -> 0 .. n] /\ x.length \in [Queues -> Nat]
      /\ x = [link |-> x.link, set |-> x.set, open |-> x.open, first |-> x.first,
              last |-> x.last, length |-> x.length]
  BY <1>2 DEF ListShape
<1>4. Len(c) = 0 <=> c = <<>>
  BY <1>2, EmptySeq
<1>5. [w \in Listables |-> IF \E k \in 1 .. 0 : c[k] = w THEN n ELSE x.link[w]] = x.link
  BY <1>3
<1>6. [x.first EXCEPT ![l] = IF 0 < Len(c) THEN c[0 + 1] ELSE n] = x.first
  BY <1>2, <1>3, <1>4 DEF EndsFit
<1>7. [x.last EXCEPT ![l] = IF lifo /\ 0 = Len(c) THEN n ELSE @] = x.last
  BY <1>2, <1>3, <1>4 DEF EndsFit
<1>8. [x.length EXCEPT ![l] = Len(c) - 0] = x.length
  BY <1>2, <1>3 DEF EndsFit
<1> QED
  BY <1>1, <1>3, <1>5, <1>6, <1>7, <1>8 DEF Shortened

\* To delete the first item takes one more.
LEMMA DeletedOneMore ==
  ASSUME NEW x, NEW L, Represents(lifo, x, L), NEW l \in Queues,
         NEW j \in Nat, j < Len(L[l])
  PROVE  Lists!Removed(Shortened(x, L[l], l, j), l) = Shortened(x, L[l], l, j + 1)
<1>1. PICK c : c = L[l]
  OBVIOUS
<1>2. PICK y : y = Shortened(x, c, l, j)
  OBVIOUS
<1>3. PICK m \in Nat : m = Len(c)
  BY <1>1 DEF Represents
<1>4. /\ x \in ListShape /\ c \in Seq(Listables) /\ n \in Nat /\ Listables = 0 .. n - 1
      /\ lifo \in BOOLEAN
      /\ \A k \in 1 .. Len(c) : x.link[c[k]] = Following(lifo, c, k)
      /\ \A i, k \in 1 .. Len(c) : c[i] = c[k] => i = k
  <2>1. n \in Nat /\ Listables = 0 .. n - 1
    BY ListSize DEF Listables, Lists!Items
  <2> QED
    BY <1>1, <2>1 DEF Represents, LinksFit, Apart
<1>5. /\ x.link \in [Listables -> 0 .. n] /\ x.first \in [Queues -> 0 .. n]
      /\ x.last \in [Queues -> 0 .. n] /\ x.length \in [Queues -> Nat]
  BY <1>4 DEF ListShape
<1>6. PICK w : w = c[j + 1]
  OBVIOUS
<1>7. /\ j + 1 \in 1 .. Len(c) /\ w \in Listables /\ w # n
      /\ x.link[w] = Following(lifo, c, j + 1)
  BY <1>1, <1>3, <1>4, <1>6
<1>8. /\ y.first[l] = w /\ y.length[l] = Len(c) - j
      /\ y.link = [v \in Listables |-> IF \E k \in 1 .. j : c[k] = v THEN n ELSE x.link[v]]
      /\ y.first = [x.first EXCEPT ![l] = w] /\ y.set = x.set /\ y.open = x.open
      /\ y.last = x.last /\ y.length = [x.length EXCEPT ![l] = Len(c) - j]
      /\ y = [link |-> y.link, set |-> y.set, open |-> y.open, first |-> y.first,
              last |-> y.last, length |-> y.length]
  <2>1. j < Len(c) /\ j # Len(c)
    BY <1>1, <1>3
  <2>2. [x.last EXCEPT ![l] = x.last[l]] = x.last
    BY <1>5
  <2> QED
    BY <1>2, <1>5, <1>6, <2>1, <2>2 DEF Shortened
<1>9. y.link[w] = x.link[w]
  <2>1. \A k \in 1 .. j : c[k] # w
    <3>1. \A k \in 1 .. j : k \in 1 .. Len(c) /\ k # j + 1
      BY <1>1, <1>3
    <3> QED
      BY <1>4, <1>6, <1>7, <3>1
  <2> QED
    BY <1>7, <1>8, <2>1
<1>10. PICK after : after = IF y.link[w] = w THEN n ELSE y.link[w]
  OBVIOUS
<1>11. after = IF j + 1 < Len(c) THEN c[(j + 1) + 1] ELSE n
  <2>1. CASE j + 1 < Len(c)
    <3>1. (j + 1) + 1 \in 1 .. Len(c) /\ (j + 1) + 1 # j + 1
      BY <1>3, <2>1
    <3>2. c[(j + 1) + 1] # w
      BY <1>4, <1>6, <1>7, <3>1
    <3> QED
      BY <1>7, <1>9, <1>10, <2>1, <3>2 DEF Following
  <2>2. CASE ~(j + 1 < Len(c))
    <3>1. x.link[w] = IF lifo THEN n ELSE w
      BY <1>6, <1>7, <2>2 DEF Following
    <3> QED
      BY <1>4, <1>9, <1>10, <2>2, <3>1
  <2> QED
    BY <2>1, <2>2
<1>12. Lists!Removed(y, l)
         = [y EXCEPT !.first[l] = after, !.link[w] = n, !.length[l] = @ - 1,
                     !.last[l] = IF lifo /\ y.length[l] = 1 THEN n ELSE @]
  BY <1>8, <1>10 DEF Lists!Removed
<1>13. Lists!Removed(y, l)
         = [link |-> [y.link EXCEPT ![w] = n], set |-> y.set, open |-> y.open,
            first |-> [y.first EXCEPT ![l] = after],
            last |-> [y.last EXCEPT ![l] = IF lifo /\ y.length[l] = 1 THEN n ELSE @],
            length |-> [y.length EXCEPT ![l] = @ - 1]]
  BY <1>8, <1>12
<1>14. [y.link EXCEPT ![w] = n]
         = [v \in Listables |-> IF \E k \in 1 .. j + 1 : c[k] = v THEN n ELSE x.link[v]]
  <2>1. ASSUME NEW v \in Listables
        PROVE  [y.link EXCEPT ![w] = n][v] = IF \E k \in 1 .. j + 1 : c[k] = v THEN n ELSE x.link[v]
    <3>1. (\E k \in 1 .. j + 1 : c[k] = v) <=> (\E k \in 1 .. j : c[k] = v) \/ v = w
      <4>1. \A k : k \in 1 .. j + 1 <=> k \in 1 .. j \/ k = j + 1
        OBVIOUS
      <4> QED
        BY <1>6, <4>1
    <3> QED
      BY <1>8, <3>1
  <2> QED
    BY <1>8, <2>1
<1>15. [y.first EXCEPT ![l] = after]
         = [x.first EXCEPT ![l] = IF j + 1 < Len(c) THEN c[(j + 1) + 1] ELSE n]
  BY <1>5, <1>8, <1>11
<1>16. [y.last EXCEPT ![l] = IF lifo /\ y.length[l] = 1 THEN n ELSE @]
         = [x.last EXCEPT ![l] = IF lifo /\ j + 1 = Len(c) THEN n ELSE @]
  <2>1. y.length[l] = 1 <=> j + 1 = Len(c)
    BY <1>3, <1>8
  <2> QED
    BY <1>8, <2>1
<1>17. [y.length EXCEPT ![l] = @ - 1] = [x.length EXCEPT ![l] = Len(c) - (j + 1)]
  BY <1>3, <1>5, <1>8
<1>18. Lists!Removed(y, l) = Shortened(x, c, l, j + 1)
  <2>1. y.set = x.set /\ y.open = x.open
    BY <1>8
  <2> QED
    BY ONLY <1>13, <1>14, <1>15, <1>16, <1>17, <2>1 DEF Shortened
<1> QED
  BY <1>1, <1>2, <1>18

\* Without its first items.
Without(L, l, j) == [L EXCEPT ![l] = SubSeq(@, j + 1, Len(@))]

\* What Without() leaves on each list.
LEMMA WithoutItems ==
  ASSUME NEW L \in [Queues -> Seq(Listables)], NEW l \in Queues, NEW j \in 0 .. Len(L[l])
  PROVE  /\ Without(L, l, j) \in [Queues -> Seq(Listables)]
         /\ Len(Without(L, l, j)[l]) = Len(L[l]) - j
         /\ \A k \in 1 .. Len(L[l]) - j : Without(L, l, j)[l][k] = L[l][k + j]
         /\ \A m \in Queues \ {l} : Without(L, l, j)[m] = L[m]
<1>1. PICK c : c = L[l]
  OBVIOUS
<1>2. c \in Seq(Listables) /\ Len(c) \in Nat /\ j \in Nat /\ j <= Len(c)
  BY <1>1
<1>3. PICK e : e = SubSeq(c, j + 1, Len(c))
  OBVIOUS
<1>4. /\ e \in Seq(Listables)
      /\ Len(e) = IF j + 1 <= Len(c) THEN Len(c) - (j + 1) + 1 ELSE 0
      /\ \A k \in 1 .. Len(c) - (j + 1) + 1 : e[k] = c[j + 1 + k - 1]
  <2>1. \A k \in j + 1 .. Len(c) : c[k] \in Listables
    BY <1>2
  <2>2. j + 1 \in Int /\ Len(c) \in Int
    BY <1>2
  <2> QED
    BY <1>3, <2>1, <2>2, SubSeqProperties
<1>5. Len(e) = Len(c) - j /\ \A k \in 1 .. Len(c) - j : e[k] = c[k + j]
  <2>1. Len(e) = Len(c) - j /\ Len(c) - (j + 1) + 1 = Len(c) - j
    BY <1>2, <1>4
  <2>2. \A k \in 1 .. Len(c) - j : j + 1 + k - 1 = k + j
    BY <1>2
  <2> QED
    BY <1>4, <2>1, <2>2
<1>6. Without(L, l, j) = [L EXCEPT ![l] = e]
  BY <1>1, <1>3 DEF Without
<1> QED
  BY <1>1, <1>4, <1>5, <1>6

\* What is left is what the record represents.
LEMMA ShortenedRepresents ==
  ASSUME NEW x, NEW L, Represents(lifo, x, L), NEW l \in Queues, NEW j \in 0 .. Len(L[l])
  PROVE  Represents(lifo, Shortened(x, L[l], l, j), Without(L, l, j))
<1>1. PICK c : c = L[l]
  OBVIOUS
<1>2. PICK y : y = Shortened(x, c, l, j)
  OBVIOUS
<1>3. PICK M : M = Without(L, l, j)
  OBVIOUS
<1>4. /\ x \in ListShape /\ c \in Seq(Listables) /\ n \in Nat /\ Listables = 0 .. n - 1
      /\ lifo \in BOOLEAN /\ L \in [Queues -> Seq(Listables)]
      /\ \A m \in Queues : EndsFit(lifo, x, m, L[m])
      /\ Apart(L) /\ LinksFit(lifo, x, L) /\ MarksFit(x, L)
  <2>1. n \in Nat /\ Listables = 0 .. n - 1
    BY ListSize DEF Listables, Lists!Items
  <2> QED
    BY <1>1, <2>1 DEF Represents
<1>5. /\ x.link \in [Listables -> 0 .. n] /\ x.first \in [Queues -> 0 .. n]
      /\ x.last \in [Queues -> 0 .. n] /\ x.length \in [Queues -> Nat]
      /\ x.set \in {Lists!NULL} \cup [Listables -> {Lists!Master, Lists!NoHandle}]
      /\ x.open \in SUBSET Queues
  BY <1>4 DEF ListShape
<1>6. PICK e \in Nat : e = Len(c)
  BY <1>4
<1>7. j \in Nat /\ j <= e /\ j \in 0 .. Len(c)
  BY <1>1, <1>6
<1>8. /\ M \in [Queues -> Seq(Listables)] /\ Len(M[l]) = e - j
      /\ \A k \in 1 .. e - j : M[l][k] = c[k + j]
      /\ \A m \in Queues \ {l} : M[m] = L[m]
  <2>1. L \in [Queues -> Seq(Listables)]
    BY <1>4
  <2>2. /\ Without(L, l, j) \in [Queues -> Seq(Listables)]
        /\ Len(Without(L, l, j)[l]) = Len(L[l]) - j
        /\ \A k \in 1 .. Len(L[l]) - j : Without(L, l, j)[l][k] = L[l][k + j]
        /\ \A m \in Queues \ {l} : Without(L, l, j)[m] = L[m]
    BY ONLY <2>1, l \in Queues, j \in 0 .. Len(L[l]), WithoutItems
  <2> QED
    BY ONLY <1>1, <1>3, <1>6, <2>2
<1>9. \A k \in 1 .. e : c[k] \in Listables /\ c[k] \in 0 .. n
  BY <1>4, <1>6
<1>10. /\ y.link = [w \in Listables |-> IF \E k \in 1 .. j : c[k] = w THEN n ELSE x.link[w]]
       /\ y.set = x.set /\ y.open = x.open
       /\ y.first = [x.first EXCEPT ![l] = IF j < e THEN c[j + 1] ELSE n]
       /\ y.last = [x.last EXCEPT ![l] = IF lifo /\ j = e THEN n ELSE @]
       /\ y.length = [x.length EXCEPT ![l] = e - j]
  BY <1>2, <1>6 DEF Shortened
<1>11. y \in ListShape
  <2>1. n \in 0 .. n
    BY <1>4
  <2>2. y.link \in [Listables -> 0 .. n]
    BY <1>5, <1>10, <2>1
  <2>3. j < e => j + 1 \in 1 .. e
    BY <1>7
  <2>4. y.first \in [Queues -> 0 .. n]
    BY <1>5, <1>9, <1>10, <2>1, <2>3
  <2>5. y.last \in [Queues -> 0 .. n]
    BY <1>5, <1>10, <2>1
  <2>6. e - j \in Nat
    BY <1>7
  <2>7. y.length \in [Queues -> Nat]
    BY <1>5, <1>10, <2>6
  <2>8. y = [link |-> y.link, set |-> y.set, open |-> y.open, first |-> y.first,
             last |-> y.last, length |-> y.length]
    BY <1>2 DEF Shortened
  <2> QED
    BY <1>5, <1>10, <2>2, <2>4, <2>5, <2>7, <2>8 DEF ListShape
<1>12. ASSUME NEW m \in Queues PROVE EndsFit(lifo, y, m, M[m])
  <2>1. CASE m # l
    <3>1. M[m] = L[m] /\ EndsFit(lifo, x, m, L[m])
      BY <1>4, <1>8, <2>1
    <3>2. y.first[m] = x.first[m] /\ y.last[m] = x.last[m] /\ y.length[m] = x.length[m]
      BY <1>5, <1>10, <2>1
    <3> QED
      BY <3>1, <3>2 DEF EndsFit
  <2>2. CASE m = l
    <3>1. PICK d : d = M[l]
      OBVIOUS
    <3>2. d \in Seq(Listables) /\ Len(d) = e - j
      BY <1>8, <3>1
    <3>3. y.length[l] = Len(d)
      BY <1>5, <1>10, <3>2
    <3>4. ASSUME d = <<>> PROVE y.first[l] = n /\ (lifo => y.last[l] = n)
      <4>1. j = e /\ ~(j < e)
        BY <1>7, <3>2, <3>4, EmptySeq
      <4> QED
        BY <1>5, <1>10, <4>1
    <3>5. ASSUME d # <<>> PROVE y.first[l] = d[1] /\ y.last[l] = d[Len(d)]
      <4>1. j < e /\ 1 \in 1 .. e - j /\ e - j \in 1 .. e - j /\ 1 + j = j + 1 /\ (e - j) + j = e
            /\ j # e /\ e # 0
        BY <1>7, <3>2, <3>5, EmptySeq
      <4>2. y.first[l] = c[j + 1] /\ y.last[l] = x.last[l]
        BY <1>5, <1>10, <4>1
      <4>3. d[1] = c[j + 1] /\ d[e - j] = c[e]
        BY <1>8, <3>1, <4>1
      <4>4. c # <<>>
        BY <1>6, <4>1, EmptySeq
      <4>5. x.last[l] = c[e]
        BY <1>1, <1>4, <1>6, <4>4 DEF EndsFit
      <4> QED
        BY <3>2, <4>2, <4>3, <4>5
    <3> QED
      BY <2>2, <3>1, <3>3, <3>4, <3>5 DEF EndsFit
  <2> QED
    BY <2>1, <2>2
\* The items of the shorter lists are those of the lists, further on.
<1>13. ASSUME NEW m \in Queues, NEW k \in 1 .. Len(M[m])
       PROVE  /\ k \in Nat
              /\ m # l => k \in 1 .. Len(L[m]) /\ M[m][k] = L[m][k]
              /\ m = l => k + j \in 1 .. Len(L[m]) /\ M[m][k] = L[m][k + j]
  <2>1. CASE m # l
    BY <1>8, <2>1
  <2>2. CASE m = l
    <3>1. k \in 1 .. e - j /\ k + j \in 1 .. e
      BY <1>7, <1>8, <2>2
    <3> QED
      BY <1>1, <1>6, <1>8, <2>2, <3>1
  <2> QED
    BY <2>1, <2>2
<1>14. Apart(M)
  <2> SUFFICES ASSUME NEW i \in Queues, NEW m \in Queues, NEW a \in 1 .. Len(M[i]), NEW b \in 1 .. Len(M[m]),
                      M[i][a] = M[m][b]
               PROVE  i = m /\ a = b
    BY DEF Apart
  <2>1. PICK a2 \in 1 .. Len(L[i]), b2 \in 1 .. Len(L[m]) :
          /\ a2 = (IF i = l THEN a + j ELSE a) /\ b2 = (IF m = l THEN b + j ELSE b)
          /\ L[i][a2] = M[i][a] /\ L[m][b2] = M[m][b]
    <3>1. /\ i # l => a \in 1 .. Len(L[i]) /\ M[i][a] = L[i][a]
          /\ i = l => a + j \in 1 .. Len(L[i]) /\ M[i][a] = L[i][a + j]
      BY <1>13
    <3>2. /\ m # l => b \in 1 .. Len(L[m]) /\ M[m][b] = L[m][b]
          /\ m = l => b + j \in 1 .. Len(L[m]) /\ M[m][b] = L[m][b + j]
      BY <1>13
    <3> QED
      BY <3>1, <3>2
  <2>2. i = m /\ a2 = b2
    BY <1>4, <2>1 DEF Apart
  <2>3. a \in Nat /\ b \in Nat
    BY <1>13
  <2> QED
    BY <1>7, <2>1, <2>2, <2>3
<1>15. LinksFit(lifo, y, M)
  <2>1. ASSUME NEW m \in Queues, NEW k \in 1 .. Len(M[m])
        PROVE  y.link[M[m][k]] = Following(lifo, M[m], k)
    <3>1. PICK w : w = M[m][k]
      OBVIOUS
    <3>2. w \in Listables
      BY <1>8, <3>1
    <3>3. \A i \in 1 .. j : c[i] # w
      <4>1. ASSUME NEW i \in 1 .. j, c[i] = w PROVE FALSE
        <5>1. i \in 1 .. Len(L[l]) /\ L[l][i] = w
          BY <1>1, <1>6, <1>7, <4>1
        <5>2. CASE m # l
          BY <1>4, <1>13, <3>1, <5>1, <5>2 DEF Apart
        <5>3. CASE m = l
          <6>1. k + j \in 1 .. Len(L[l]) /\ L[l][k + j] = w /\ k \in Nat
            BY <1>13, <3>1, <5>3
          <6>2. k + j = i
            BY <1>4, <5>1, <6>1 DEF Apart
          <6>3. k >= 1 /\ i <= j
            OBVIOUS
          <6> QED
            BY <1>7, <6>1, <6>2, <6>3
        <5> QED
          BY <5>2, <5>3
      <4> QED
        BY <4>1
    <3>4. y.link[w] = x.link[w]
      BY <1>10, <3>2, <3>3
    <3>5. CASE m # l
      <4>1. M[m] = L[m] /\ k \in 1 .. Len(L[m])
        BY <1>8, <3>5
      <4> QED
        BY <1>4, <3>1, <3>4, <4>1 DEF LinksFit
    <3>6. CASE m = l
      <4>1. k + j \in 1 .. e /\ w = c[k + j] /\ k \in 1 .. e - j /\ k \in Nat
        BY <1>1, <1>6, <1>8, <1>13, <3>1, <3>6
      <4>2. x.link[w] = Following(lifo, c, k + j)
        BY <1>1, <1>4, <1>6, <4>1 DEF LinksFit
      <4>3. k < e - j <=> k + j < e
        BY <1>7, <4>1
      <4>4. k < e - j => M[l][k + 1] = c[(k + j) + 1]
        <5> SUFFICES ASSUME k < e - j PROVE M[l][k + 1] = c[(k + j) + 1]
          OBVIOUS
        <5>1. k + 1 \in 1 .. e - j /\ (k + 1) + j = (k + j) + 1
          BY <1>7, <4>1
        <5> QED
          BY <1>8, <5>1
      <4>5. M[l][k] = c[k + j]
        BY <1>8, <4>1
      <4> QED
        BY <1>6, <1>8, <3>1, <3>4, <3>6, <4>2, <4>3, <4>4, <4>5 DEF Following
    <3> QED
      BY <3>5, <3>6
  <2>2. ASSUME NEW w \in Listables, ~IsListed(M, w) PROVE y.link[w] = n
    <3>1. CASE \E i \in 1 .. j : c[i] = w
      BY <1>10, <3>1
    <3>2. CASE ~\E i \in 1 .. j : c[i] = w
      <4>1. ~IsListed(L, w)
        <5> SUFFICES ASSUME NEW m \in Queues, NEW k \in 1 .. Len(L[m]), L[m][k] = w PROVE FALSE
          BY DEF IsListed
        <5>1. m = l
          BY <1>8, <2>2 DEF IsListed
        <5>2. k \in 1 .. e /\ c[k] = w /\ k \notin 1 .. j
          BY <1>1, <1>6, <3>2, <5>1
        <5>3. k - j \in 1 .. e - j /\ (k - j) + j = k
          BY <1>7, <5>2
        <5>4. M[l][k - j] = w
          BY <1>8, <5>2, <5>3
        <5> QED
          BY <1>8, <2>2, <5>3, <5>4 DEF IsListed
      <4>2. x.link[w] = n
        BY <1>4, <4>1 DEF LinksFit
      <4> QED
        BY <1>10, <3>2, <4>2
    <3> QED
      BY <3>1, <3>2
  <2> QED
    BY <2>1, <2>2 DEF LinksFit
<1>16. MarksFit(y, M)
  <2>1. ASSUME NEW m \in Queues, NEW k \in 1 .. Len(M[m])
        PROVE  \E i \in 1 .. Len(L[m]) : M[m][k] = L[m][i]
    BY <1>13
  <2>2. /\ y.set = x.set /\ y.open = x.open
        /\ y.set = Lists!NULL => y.open = {Lists!Master} \/ Listables = {}
    BY <1>4, <1>10 DEF MarksFit
  <2>3. ASSUME NEW m \in Queues, NEW k \in 1 .. Len(M[m])
        PROVE  IF y.set = Lists!NULL THEN m = Lists!Master ELSE y.set[M[m][k]] = Lists!Handle(m)
    <3>1. PICK i \in 1 .. Len(L[m]) : M[m][k] = L[m][i]
      BY <2>1
    <3>2. IF x.set = Lists!NULL THEN m = Lists!Master ELSE x.set[L[m][i]] = Lists!Handle(m)
      BY <1>4, <3>1 DEF MarksFit
    <3> QED
      BY <2>2, <3>1, <3>2
  <2> QED
    BY <2>2, <2>3 DEF MarksFit
<1>17. Lists!Master \in y.open /\ \A m \in Queues \ y.open : M[m] = <<>>
  <2>1. Lists!Master \in x.open /\ \A m \in Queues \ x.open : L[m] = <<>>
    BY DEF Represents
  <2>2. ASSUME l \notin x.open PROVE M[l] = <<>>
    <3>1. c = <<>>
      BY <1>1, <2>1, <2>2
    <3>2. e = 0 /\ e - j = 0
      BY <1>6, <1>7, <3>1
    <3> QED
      BY <1>8, <3>2, EmptySeq
  <2> QED
    BY <1>8, <1>10, <2>1, <2>2
<1>18. Represents(lifo, y, M)
  BY <1>4, <1>8, <1>11, <1>12, <1>14, <1>15, <1>16, <1>17 DEF Represents
<1> QED
  BY <1>1, <1>2, <1>3, <1>18

\* The fold over the chain of a list, by which it is emptied.
IsEmptying(x, l, c, g) ==
  g = [S \in SUBSET DOMAIN c |-> IF S = {} THEN x ELSE Lists!Removed(g[S \ {Lists!Max(S)}], l)]

\* The loop of the clearing is a recursion on the positions that are left.
LEMMA EmptiedIsFold ==
  ASSUME NEW x, NEW l
  PROVE  Lists!Emptied(x, l)
           = (CHOOSE g : IsEmptying(x, l, Lists!Chain(x, l), g))[DOMAIN Lists!Chain(x, l)]
BY Zenon DEF Lists!Emptied, Lists!FoldLeft, Lists!MapThenFoldSet, IsEmptying

\* The greatest element of a set of positions.
LEMMA GreatestPosition ==
  ASSUME NEW m \in Nat, NEW S \in SUBSET (1 .. m), S # {}
  PROVE  Lists!Max(S) \in S /\ \A i \in S : i <= Lists!Max(S)
<1> DEFINE X == {m - i : i \in S}
<1>1. X \in SUBSET Nat /\ X # {}
  <2>1. \A i \in S : m - i \in Nat
    OBVIOUS
  <2> QED
    BY <2>1
<1>2. PICK k \in X : \A i \in X : ~(<<i, k>> \in OpToRel(<, Nat))
  <2> HIDE DEF X
  <2> QED
    BY <1>1, NatLessThanWellFounded, WFMin
<1>3. PICK j \in S : k = m - j
  OBVIOUS
<1>4. ASSUME NEW i \in S PROVE j >= i
  <2>1. m - i \in X /\ m - i \in Nat /\ m - j \in Nat
    BY <1>1
  <2>2. ~(m - i < m - j)
    BY <1>2, <1>3, <2>1 DEF OpToRel
  <2>3. i \in Nat /\ j \in Nat
    OBVIOUS
  <2> QED
    BY <2>2, <2>3
<1> HIDE DEF X
<1>5. Lists!Max(S) \in S /\ \A i \in S : Lists!Max(S) >= i
  BY <1>4 DEF Lists!Max
<1>6. ASSUME NEW i \in S PROVE i <= Lists!Max(S)
  <2>1. \A a \in S : a \in Nat
    OBVIOUS
  <2>2. PICK a \in Nat : a = Lists!Max(S) /\ a >= i
    BY <1>5, <2>1
  <2> QED
    BY <2>1, <2>2
<1> QED
  BY <1>5, <1>6

\* Sets of positions are finite and not greater than the list.
LEMMA PositionCount ==
  ASSUME NEW m \in Nat, NEW S \in SUBSET (1 .. m)
  PROVE  IsFiniteSet(S) /\ Cardinality(S) \in 0 .. m /\ (Cardinality(S) = 0 <=> S = {})
<1>1. IsFiniteSet(1 .. m) /\ Cardinality(1 .. m) = m
  <2>1. 1 \in Int /\ m \in Int
    OBVIOUS
  <2>2. IsFiniteSet(1 .. m) /\ Cardinality(1 .. m) = IF 1 > m THEN 0 ELSE m - 1 + 1
    BY ONLY <2>1, FS_Interval
  <2> QED
    BY <2>2
<1>2. IsFiniteSet(S) /\ Cardinality(S) <= Cardinality(1 .. m)
  BY <1>1, FS_Subset
<1>3. Cardinality(S) \in Nat /\ (Cardinality(S) = 0 <=> S = {})
  BY <1>2, FS_CardinalityType, FS_EmptySet
<1> QED
  BY <1>1, <1>2, <1>3

\* To clear a list deletes all its items.
LEMMA EmptiedIs ==
  ASSUME NEW x, NEW L, Represents(lifo, x, L), NEW l \in Queues
  PROVE  Lists!Emptied(x, l) = Shortened(x, L[l], l, Len(L[l]))
<1>1. PICK c : c = L[l]
  OBVIOUS
<1>2. PICK m \in Nat : m = Len(c)
  BY <1>1 DEF Represents
<1>3. Lists!Chain(x, l) = c /\ DOMAIN c = 1 .. m
  <2>1. c \in Seq(Listables)
    BY <1>1 DEF Represents
  <2> QED
    BY <1>1, <1>2, <2>1, ChainIs
<1> DEFINE h == [S \in SUBSET (1 .. m) |-> Shortened(x, c, l, Cardinality(S))]
<1>4. ASSUME NEW S \in SUBSET (1 .. m)
      PROVE  h[S] = IF S = {} THEN x ELSE Lists!Removed(h[S \ {Lists!Max(S)}], l)
  <2>1. CASE S = {}
    <3>1. Cardinality(S) = 0
      BY <2>1, PositionCount
    <3>2. Shortened(x, c, l, 0) = x
      BY <1>1, ShortenedByNothing
    <3> QED
      BY <2>1, <3>1, <3>2
  <2>2. CASE S # {}
    <3>1. PICK i : i = Lists!Max(S)
      OBVIOUS
    <3>2. i \in S
      BY <2>2, <3>1, GreatestPosition
    <3>3. PICK R : R = S \ {i}
      OBVIOUS
    <3>4. IsFiniteSet(S) /\ Cardinality(S) \in 0 .. m
      BY PositionCount
    <3>5. R \in SUBSET (1 .. m)
      BY <3>3
    <3>6. Cardinality(R) \in 0 .. m
      BY <3>5, PositionCount
    <3>7. Cardinality(R) = Cardinality(S) - 1
      BY <3>2, <3>3, <3>4, FS_RemoveElement
    <3>8. PICK j : j = Cardinality(R)
      OBVIOUS
    <3>9. j \in Nat /\ j < m /\ Cardinality(S) = j + 1
      BY <3>4, <3>6, <3>7, <3>8
    <3>10. Lists!Removed(Shortened(x, c, l, j), l) = Shortened(x, c, l, j + 1)
      BY <1>1, <1>2, <3>9, DeletedOneMore
    <3>11. h[R] = Shortened(x, c, l, j) /\ h[S] = Shortened(x, c, l, j + 1)
      BY <3>5, <3>8, <3>9
    <3> HIDE DEF h
    <3> QED
      BY <2>2, <3>1, <3>3, <3>10, <3>11
  <2> QED
    BY <2>1, <2>2
<1>5. h = [S \in SUBSET (1 .. m) |-> h[S]]
  OBVIOUS
<1> HIDE DEF h
<1>6. h = [S \in SUBSET (1 .. m) |-> IF S = {} THEN x ELSE Lists!Removed(h[S \ {Lists!Max(S)}], l)]
  BY <1>4, <1>5
<1>7. IsEmptying(x, l, c, h)
  BY <1>3, <1>6 DEF IsEmptying
<1>8. PICK g : g = CHOOSE f : IsEmptying(x, l, c, f)
  OBVIOUS
<1>9. IsEmptying(x, l, c, g)
  BY <1>7, <1>8, Zenon
<1>10. Lists!Emptied(x, l) = g[1 .. m]
  <2>1. Lists!Emptied(x, l) = (CHOOSE f : IsEmptying(x, l, c, f))[DOMAIN c]
    BY <1>3, EmptiedIsFold
  <2> QED
    BY <1>3, <1>8, <2>1
<1>11. \A S \in SUBSET (1 .. m) : g[S] = IF S = {} THEN x ELSE Lists!Removed(g[S \ {Lists!Max(S)}], l)
  BY <1>3, <1>9 DEF IsEmptying
<1> DEFINE X == {k \in Nat : k <= m => g[1 .. k] = Shortened(x, c, l, k)}
<1>12. 0 \in X
  <2>1. 1 .. 0 = {} /\ {} \in SUBSET (1 .. m)
    OBVIOUS
  <2>2. g[{}] = x
    BY <1>11, <2>1
  <2>3. Shortened(x, c, l, 0) = x
    BY <1>1, ShortenedByNothing
  <2> QED
    BY <2>1, <2>2, <2>3
<1>13. ASSUME NEW k \in X PROVE k + 1 \in X
  <2>1. k \in Nat
    OBVIOUS
  <2> SUFFICES ASSUME k + 1 <= m PROVE g[1 .. k + 1] = Shortened(x, c, l, k + 1)
    BY <2>1
  <2>2. g[1 .. k] = Shortened(x, c, l, k) /\ k < m
    BY <2>1
  <2>3. PICK S : S = 1 .. k + 1
    OBVIOUS
  <2>4. S \in SUBSET (1 .. m) /\ S # {} /\ k + 1 \in S /\ \A i \in S : i \in Nat /\ i <= k + 1
    <3>1. k + 1 \in S
      BY <2>1, <2>3
    <3>2. \A i \in S : i \in Nat /\ 1 <= i /\ i <= k + 1 /\ i <= m
      BY <2>1, <2>3
    <3> QED
      BY <3>1, <3>2
  <2>5. Lists!Max(S) = k + 1
    <3>1. Lists!Max(S) \in S /\ \A i \in S : i <= Lists!Max(S)
      BY <2>4, GreatestPosition
    <3>2. PICK a \in Nat : a = Lists!Max(S) /\ a <= k + 1 /\ k + 1 <= a
      BY <2>4, <3>1
    <3> QED
      BY <2>1, <3>2
  <2>6. S \ {k + 1} = 1 .. k
    BY <2>1, <2>3
  <2>7. g[S] = Lists!Removed(g[S \ {Lists!Max(S)}], l)
    BY <1>11, <2>4
  <2>8. Lists!Removed(Shortened(x, c, l, k), l) = Shortened(x, c, l, k + 1)
    BY <1>1, <1>2, <2>1, <2>2, DeletedOneMore
  <2> QED
    BY ONLY <2>2, <2>3, <2>5, <2>6, <2>7, <2>8
<1>14. X = Nat
  <2>1. X \in SUBSET Nat
    OBVIOUS
  <2> HIDE DEF X
  <2> QED
    BY <1>12, <1>13, <2>1, AllNumbers
<1>15. m \in X
  BY <1>14
<1> QED
  BY <1>1, <1>2, <1>10, <1>15

-----------------------------------------------------------------------------
(* Insertions. *)

\* The lists with a new item: on top of a stack, or at the end of a queue.
Added(stacks, L, l, w) == [L EXCEPT ![l] = IF stacks THEN <<w>> \o @ ELSE Append(@, w)]

\* How far this moves the other items.
Shift(stacks) == IF stacks THEN 1 ELSE 0

\* Where the new item is.
Position(stacks, c) == IF stacks THEN 1 ELSE Len(c) + 1

\* M is L with w in front of list l, or behind it, and nothing else.
IsAdded(st, L, l, w, M) ==
  /\ st \in BOOLEAN /\ l \in Queues /\ w \in Listables
  /\ L \in [Queues -> Seq(Listables)] /\ M \in [Queues -> Seq(Listables)]
  /\ Len(M[l]) = Len(L[l]) + 1
  /\ M[l][Position(st, L[l])] = w
  /\ \A k \in 1 .. Len(L[l]) : M[l][k + Shift(st)] = L[l][k]
  /\ \A m \in Queues \ {l} : M[m] = L[m]

\* Added() does so.
LEMMA AddedItem ==
  ASSUME NEW st \in BOOLEAN, NEW L \in [Queues -> Seq(Listables)], NEW l \in Queues, NEW w \in Listables
  PROVE  IsAdded(st, L, l, w, Added(st, L, l, w))
<1>1. PICK c \in Seq(Listables) : c = L[l]
  OBVIOUS
<1>2. PICK e : e = IF st THEN <<w>> \o c ELSE Append(c, w)
  OBVIOUS
<1>3. Added(st, L, l, w) = [L EXCEPT ![l] = e]
  BY <1>1, <1>2 DEF Added
<1>4. /\ e \in Seq(Listables) /\ Len(e) = Len(c) + 1 /\ e[Position(st, c)] = w
      /\ \A k \in 1 .. Len(c) : e[k + Shift(st)] = c[k]
  <2>1. CASE st
    <3>1. <<w>> \in Seq(Listables) /\ Len(<<w>>) = 1 /\ <<w>>[1] = w
      OBVIOUS
    <3>2. /\ <<w>> \o c \in Seq(Listables) /\ Len(<<w>> \o c) = 1 + Len(c)
          /\ \A i \in 1 .. 1 + Len(c) : (<<w>> \o c)[i] = IF i <= 1 THEN <<w>>[i] ELSE c[i - 1]
      BY <3>1, ConcatProperties
    <3>3. \A k \in 1 .. Len(c) : k + 1 \in 1 .. 1 + Len(c) /\ ~(k + 1 <= 1) /\ (k + 1) - 1 = k
      OBVIOUS
    <3>4. 1 \in 1 .. 1 + Len(c)
      OBVIOUS
    <3> QED
      BY <1>2, <2>1, <3>1, <3>2, <3>3, <3>4 DEF Position, Shift
  <2>2. CASE ~st
    <3>1. /\ Append(c, w) \in Seq(Listables) /\ Len(Append(c, w)) = Len(c) + 1
          /\ \A i \in 1 .. Len(c) : Append(c, w)[i] = c[i]
          /\ Append(c, w)[Len(c) + 1] = w
      BY AppendProperties
    <3>2. \A k \in 1 .. Len(c) : k + 0 = k
      OBVIOUS
    <3> QED
      BY <1>2, <2>2, <3>1, <3>2 DEF Position, Shift
  <2> QED
    BY <2>1, <2>2
<1> QED
  BY <1>1, <1>3, <1>4 DEF IsAdded

\* Every item of the new lists is the new one or one of the old lists.
ComesFrom(st, L, l, w, M, m, k) ==
  /\ m # l => k \in 1 .. Len(L[m]) /\ M[m][k] = L[m][k]
  /\ m = l => \/ k = Position(st, L[l]) /\ M[m][k] = w
              \/ k - Shift(st) \in 1 .. Len(L[m]) /\ M[m][k] = L[m][k - Shift(st)]

\* Every item of the longer lists is the new one or one of the old ones.
LEMMA AddedPlaces ==
  ASSUME NEW st, NEW L, NEW l, NEW w, NEW M, IsAdded(st, L, l, w, M)
  PROVE  \A m \in Queues : \A k \in 1 .. Len(M[m]) : ComesFrom(st, L, l, w, M, m, k)
<1> SUFFICES ASSUME NEW m \in Queues, NEW k \in 1 .. Len(M[m])
             PROVE  ComesFrom(st, L, l, w, M, m, k)
  OBVIOUS
<1>1. CASE m # l
  <2>1. M[m] = L[m]
    BY <1>1 DEF IsAdded
  <2> QED
    BY <1>1, <2>1 DEF ComesFrom
<1>2. CASE m = l
  <2>1. PICK d \in Nat : d = Len(L[l])
    BY DEF IsAdded
  <2>2. Len(M[l]) = d + 1 /\ M[l][Position(st, L[l])] = w
    BY <2>1 DEF IsAdded
  <2>3. \A i \in 1 .. d : M[l][i + Shift(st)] = L[l][i]
    BY <2>1 DEF IsAdded
  <2>4. k \in 1 .. d + 1
    BY <1>2, <2>2
  <2>5. CASE k = Position(st, L[l])
    BY <1>2, <2>2, <2>5 DEF ComesFrom
  <2>6. CASE k # Position(st, L[l])
    <3>1. k - Shift(st) \in 1 .. d /\ (k - Shift(st)) + Shift(st) = k
      BY <2>1, <2>4, <2>6 DEF Position, Shift, IsAdded
    <3>2. M[l][k] = L[l][k - Shift(st)]
      BY <2>3, <3>1
    <3> QED
      BY <1>2, <2>1, <3>1, <3>2 DEF ComesFrom
  <2> QED
    BY <2>5, <2>6
<1> QED
  BY <1>1, <1>2

\* No item is listed twice.
LEMMA AddedApart ==
  ASSUME NEW st, NEW L, NEW l, NEW w, NEW M, IsAdded(st, L, l, w, M), Apart(L), ~IsListed(L, w)
  PROVE  /\ Apart(M)
         /\ \A v : IsListed(M, v) <=> v = w \/ IsListed(L, v)
<1>1. /\ M \in [Queues -> Seq(Listables)] /\ L \in [Queues -> Seq(Listables)]
      /\ st \in BOOLEAN /\ l \in Queues
      /\ Len(M[l]) = Len(L[l]) + 1
      /\ M[l][Position(st, L[l])] = w
      /\ \A k \in 1 .. Len(L[l]) : M[l][k + Shift(st)] = L[l][k]
      /\ \A m \in Queues \ {l} : M[m] = L[m]
  BY DEF IsAdded
<1>2. Apart(M)
  <2> SUFFICES ASSUME NEW i \in Queues, NEW m \in Queues, NEW a \in 1 .. Len(M[i]), NEW b \in 1 .. Len(M[m]),
                      M[i][a] = M[m][b]
               PROVE  i = m /\ a = b
    BY DEF Apart
  <2>1. /\ i # l => a \in 1 .. Len(L[i]) /\ M[i][a] = L[i][a]
        /\ i = l => \/ a = Position(st, L[l]) /\ M[i][a] = w
                    \/ a - Shift(st) \in 1 .. Len(L[i]) /\ M[i][a] = L[i][a - Shift(st)]
    BY AddedPlaces DEF ComesFrom
  <2>2. /\ m # l => b \in 1 .. Len(L[m]) /\ M[m][b] = L[m][b]
        /\ m = l => \/ b = Position(st, L[l]) /\ M[m][b] = w
                    \/ b - Shift(st) \in 1 .. Len(L[m]) /\ M[m][b] = L[m][b - Shift(st)]
    BY AddedPlaces DEF ComesFrom
  <2>3. CASE M[i][a] = w
    <3>1. i = l /\ a = Position(st, L[l])
      BY <2>1, <2>3 DEF IsListed
    <3>2. m = l /\ b = Position(st, L[l])
      BY <2>2, <2>3 DEF IsListed
    <3> QED
      BY <3>1, <3>2
  <2>4. CASE M[i][a] # w
    <3>1. PICK a2 \in 1 .. Len(L[i]) : M[i][a] = L[i][a2] /\ a2 = a - (IF i = l THEN Shift(st) ELSE 0)
      BY <2>1, <2>4
    <3>2. PICK b2 \in 1 .. Len(L[m]) : M[m][b] = L[m][b2] /\ b2 = b - (IF m = l THEN Shift(st) ELSE 0)
      BY <2>2, <2>4
    <3>3. i = m /\ a2 = b2
      <4>1. L[i][a2] = L[m][b2]
        BY <3>1, <3>2
      <4> QED
        BY ONLY <4>1, Apart(L), i \in Queues, m \in Queues, a2 \in 1 .. Len(L[i]), b2 \in 1 .. Len(L[m])
           DEF Apart
    <3>4. Len(M[i]) \in Nat /\ Len(M[m]) \in Nat
      BY <1>1
    <3> QED
      BY <3>1, <3>2, <3>3, <3>4 DEF Shift
  <2> QED
    BY <2>3, <2>4
<1>3. ASSUME NEW v, IsListed(M, v) PROVE v = w \/ IsListed(L, v)
  <2>4. PICK m \in Queues : \E k \in 1 .. Len(M[m]) : M[m][k] = v
    BY <1>3 DEF IsListed
  <2>1. PICK k \in 1 .. Len(M[m]) : M[m][k] = v
    BY <2>4
  <2>2. /\ m # l => k \in 1 .. Len(L[m]) /\ M[m][k] = L[m][k]
        /\ m = l => \/ k = Position(st, L[l]) /\ M[m][k] = w
                    \/ k - Shift(st) \in 1 .. Len(L[m]) /\ M[m][k] = L[m][k - Shift(st)]
    BY AddedPlaces DEF ComesFrom
  <2> QED
    BY <2>1, <2>2 DEF IsListed
<1>4. IsListed(M, w)
  <2>1. Position(st, L[l]) \in 1 .. Len(M[l])
    BY <1>1 DEF Position
  <2> QED
    BY <1>1, <2>1 DEF IsListed
<1>5. ASSUME NEW v, IsListed(L, v) PROVE IsListed(M, v)
  <2>4. PICK m \in Queues : \E k \in 1 .. Len(L[m]) : L[m][k] = v
    BY <1>5 DEF IsListed
  <2>1. PICK k \in 1 .. Len(L[m]) : L[m][k] = v
    BY <2>4
  <2>2. CASE m # l
    BY <1>1, <2>1, <2>2 DEF IsListed
  <2>3. CASE m = l
    <3>1. k + Shift(st) \in 1 .. Len(M[l])
      BY <1>1, <2>3 DEF Shift
    <3>2. M[l][k + Shift(st)] = v
      BY <1>1, <2>1, <2>3
    <3> QED
      BY <1>1, <3>1, <3>2 DEF IsListed
  <2> QED
    BY <2>2, <2>3
<1> QED
  BY <1>2, <1>3, <1>4, <1>5

\* The record after the insertion of w, which is on no list, into the list l with the items c.
Inserted(x, c, l, w) ==
  [link |-> [v \in Listables |->
               IF v = w THEN IF ~lifo THEN w ELSE IF c = <<>> THEN n ELSE c[1]
               ELSE IF ~lifo /\ c # <<>> /\ v = c[Len(c)] THEN w ELSE x.link[v]],
   set |-> IF x.set = Lists!NULL THEN x.set ELSE [x.set EXCEPT ![w] = Lists!Handle(l)],
   open |-> x.open,
   first |-> [x.first EXCEPT ![l] = IF lifo \/ c = <<>> THEN w ELSE @],
   last |-> [x.last EXCEPT ![l] = IF ~lifo \/ c = <<>> THEN w ELSE @],
   length |-> [x.length EXCEPT ![l] = Len(c) + 1]]

\* Push and Enqueue.
LEMMA InsertedIs ==
  ASSUME NEW L, Represents(lifo, q, L), NEW l \in Queues, NEW w \in Listables, ~IsListed(L, w)
  PROVE  Lists!Marked(IF lifo THEN Lists!Pushed(l, w) ELSE Lists!Enqueued(l, w), l, w)
           = Inserted(q, L[l], l, w)
<1>1. PICK c : c = L[l]
  OBVIOUS
<1>2. /\ q \in ListShape /\ c \in Seq(Listables) /\ n \in Nat /\ Listables = 0 .. n - 1
      /\ lifo \in BOOLEAN /\ EndsFit(lifo, q, l, c)
  <2>1. n \in Nat /\ Listables = 0 .. n - 1
    BY ListSize DEF Listables, Lists!Items
  <2> QED
    BY <1>1, <2>1 DEF Represents
<1>3. /\ q.link \in [Listables -> 0 .. n] /\ q.first \in [Queues -> 0 .. n]
      /\ q.last \in [Queues -> 0 .. n] /\ q.length \in [Queues -> Nat]
      /\ q = [link |-> q.link, set |-> q.set, open |-> q.open, first |-> q.first,
              last |-> q.last, length |-> q.length]
  BY <1>2 DEF ListShape
<1>4. q.length[l] = Len(c) /\ (Len(c) = 0 <=> c = <<>>)
  BY <1>2, EmptySeq DEF EndsFit
<1>5. c # <<>> => Len(c) \in 1 .. Len(c) /\ 1 \in 1 .. Len(c) /\ c[1] \in Listables /\ c[Len(c)] \in Listables
  <2> SUFFICES ASSUME c # <<>>
               PROVE  /\ Len(c) \in 1 .. Len(c) /\ 1 \in 1 .. Len(c)
                      /\ c[1] \in Listables /\ c[Len(c)] \in Listables
    OBVIOUS
  <2>1. Len(c) \in 1 .. Len(c) /\ 1 \in 1 .. Len(c)
    BY <1>2, <1>4
  <2> QED
    BY <1>2, <2>1
<1>6. Lists!Empty(l) <=> c = <<>>
  <2>1. c = <<>> => q.first[l] = n
    BY <1>2 DEF EndsFit
  <2>2. c # <<>> => q.first[l] = c[1] /\ c[1] # n
    BY <1>2, <1>5 DEF EndsFit
  <2> QED
    BY <2>1, <2>2 DEF Lists!Empty
<1>7. PICK y : y = IF lifo THEN Lists!Pushed(l, w) ELSE Lists!Enqueued(l, w)
  OBVIOUS
<1>8. PICK z : z = Inserted(q, c, l, w)
  OBVIOUS
<1>9. y = [link |-> z.link, set |-> q.set, open |-> q.open, first |-> z.first,
           last |-> z.last, length |-> z.length]
  <2>1. CASE lifo
    <3>1. y = [link |-> [q.link EXCEPT ![w] = q.first[l]], set |-> q.set, open |-> q.open,
               first |-> [q.first EXCEPT ![l] = w],
               last |-> [q.last EXCEPT ![l] = IF q.length[l] = 0 THEN w ELSE @],
               length |-> [q.length EXCEPT ![l] = @ + 1]]
      BY <1>3, <1>7, <2>1 DEF Lists!Pushed
    <3>2. [q.link EXCEPT ![w] = q.first[l]] = z.link
      <4>1. q.first[l] = IF c = <<>> THEN n ELSE c[1]
        BY <1>2 DEF EndsFit
      <4> QED
        BY <1>3, <1>8, <2>1, <4>1 DEF Inserted
    <3>3. [q.first EXCEPT ![l] = w] = z.first
      BY <1>8, <2>1 DEF Inserted
    <3>4. [q.last EXCEPT ![l] = IF q.length[l] = 0 THEN w ELSE @] = z.last
      BY <1>4, <1>8, <2>1 DEF Inserted
    <3>5. [q.length EXCEPT ![l] = @ + 1] = z.length
      BY <1>4, <1>8 DEF Inserted
    <3> QED
      BY <3>1, <3>2, <3>3, <3>4, <3>5
  <2>2. CASE ~lifo
    <3>1. PICK e : e = IF c = <<>> THEN q.link ELSE [q.link EXCEPT ![q.last[l]] = w]
      OBVIOUS
    <3>2. y = [link |-> [e EXCEPT ![w] = w], set |-> q.set, open |-> q.open,
               first |-> [q.first EXCEPT ![l] = IF c = <<>> THEN w ELSE @],
               last |-> [q.last EXCEPT ![l] = w],
               length |-> [q.length EXCEPT ![l] = @ + 1]]
      BY <1>3, <1>6, <1>7, <2>2, <3>1 DEF Lists!Enqueued
    <3>3. [e EXCEPT ![w] = w] = z.link
      <4>1. c # <<>> => q.last[l] = c[Len(c)]
        BY <1>2 DEF EndsFit
      <4> QED
        BY <1>3, <1>5, <1>8, <2>2, <3>1, <4>1 DEF Inserted
    <3>4. [q.first EXCEPT ![l] = IF c = <<>> THEN w ELSE @] = z.first
      BY <1>8, <2>2 DEF Inserted
    <3>5. [q.last EXCEPT ![l] = w] = z.last
      BY <1>8, <2>2 DEF Inserted
    <3>6. [q.length EXCEPT ![l] = @ + 1] = z.length
      BY <1>4, <1>8 DEF Inserted
    <3> QED
      BY <3>2, <3>3, <3>4, <3>5, <3>6
  <2> QED
    BY <1>2, <2>1, <2>2
<1>10. Lists!Marked(y, l, w) = z
  <2>1. z = [link |-> z.link, set |-> z.set, open |-> q.open, first |-> z.first,
             last |-> z.last, length |-> z.length]
    BY <1>8 DEF Inserted
  <2>2. z.set = IF q.set = Lists!NULL THEN q.set ELSE [q.set EXCEPT ![w] = Lists!Handle(l)]
    BY <1>8 DEF Inserted
  <2>3. Lists!Marked(y, l, w)
          = [link |-> z.link, set |-> z.set, open |-> q.open, first |-> z.first,
             last |-> z.last, length |-> z.length]
    BY <1>9, <2>2 DEF Lists!Marked
  <2> QED
    BY <2>1, <2>3
<1> QED
  BY <1>1, <1>7, <1>8, <1>10

\* It represents the lists with the new item.
LEMMA InsertedRepresents ==
  ASSUME NEW x, NEW L, Represents(lifo, x, L), NEW l, NEW w, NEW M, IsAdded(lifo, L, l, w, M),
         ~IsListed(L, w), l \in x.open
  PROVE  Represents(lifo, Inserted(x, L[l], l, w), M)
<1>1. PICK c : c = L[l]
  OBVIOUS
<1>2. PICK y : y = Inserted(x, c, l, w)
  OBVIOUS
<1>3. /\ l \in Queues /\ w \in Listables /\ L \in [Queues -> Seq(Listables)]
      /\ M \in [Queues -> Seq(Listables)] /\ lifo \in BOOLEAN
  BY DEF IsAdded
<1>4. /\ x \in ListShape /\ c \in Seq(Listables) /\ n \in Nat /\ Listables = 0 .. n - 1
      /\ \A m \in Queues : EndsFit(lifo, x, m, L[m])
      /\ Apart(L) /\ LinksFit(lifo, x, L) /\ MarksFit(x, L)
  <2>1. n \in Nat /\ Listables = 0 .. n - 1
    BY ListSize DEF Listables, Lists!Items
  <2> QED
    BY <1>1, <1>3, <2>1 DEF Represents
<1>5. /\ x.link \in [Listables -> 0 .. n] /\ x.first \in [Queues -> 0 .. n]
      /\ x.last \in [Queues -> 0 .. n] /\ x.length \in [Queues -> Nat]
      /\ x.set \in {Lists!NULL} \cup [Listables -> {Lists!Master, Lists!NoHandle}]
      /\ x.open \in SUBSET Queues
  BY <1>4 DEF ListShape
<1>6. PICK e \in Nat : e = Len(c)
  BY <1>4
<1>7. /\ Len(M[l]) = e + 1 /\ M[l][IF lifo THEN 1 ELSE e + 1] = w
      /\ \A k \in 1 .. e : M[l][k + Shift(lifo)] = c[k]
      /\ \A m \in Queues \ {l} : M[m] = L[m]
  BY <1>1, <1>6 DEF IsAdded, Position
<1>8. e = 0 <=> c = <<>>
  BY <1>4, <1>6, EmptySeq
<1>9. \A k \in 1 .. e : c[k] \in Listables /\ c[k] \in 0 .. n
  BY <1>4, <1>6
<1>10. c # <<>> => 1 \in 1 .. e /\ e \in 1 .. e
  BY <1>8
<1>11. /\ \A v \in Listables :
            y.link[v] = IF v = w THEN IF ~lifo THEN w ELSE IF c = <<>> THEN n ELSE c[1]
                        ELSE IF ~lifo /\ c # <<>> /\ v = c[e] THEN w ELSE x.link[v]
       /\ y.set = (IF x.set = Lists!NULL THEN x.set ELSE [x.set EXCEPT ![w] = Lists!Handle(l)])
       /\ y.open = x.open
       /\ y.first = [x.first EXCEPT ![l] = IF lifo \/ c = <<>> THEN w ELSE @]
       /\ y.last = [x.last EXCEPT ![l] = IF ~lifo \/ c = <<>> THEN w ELSE @]
       /\ y.length = [x.length EXCEPT ![l] = e + 1]
       /\ y.link = [v \in Listables |-> y.link[v]]
       /\ y = [link |-> y.link, set |-> y.set, open |-> y.open, first |-> y.first,
               last |-> y.last, length |-> y.length]
  BY <1>2, <1>6 DEF Inserted
<1>12. y \in ListShape
  <2>1. n \in 0 .. n /\ w \in 0 .. n
    BY <1>3, <1>4
  <2>2. \A v \in Listables : y.link[v] \in 0 .. n
    <3> SUFFICES ASSUME NEW v \in Listables PROVE y.link[v] \in 0 .. n
      OBVIOUS
    <3>1. x.link[v] \in 0 .. n
      BY <1>5
    <3>2. c # <<>> => c[1] \in 0 .. n
      BY <1>9, <1>10
    <3> QED
      BY <1>11, <2>1, <3>1, <3>2
  <2>3. y.link \in [Listables -> 0 .. n]
    BY <1>11, <2>2
  <2>4. y.first \in [Queues -> 0 .. n] /\ y.last \in [Queues -> 0 .. n]
    BY <1>5, <1>11, <2>1
  <2>5. y.length \in [Queues -> Nat]
    BY <1>5, <1>11
  <2>6. y.set \in {Lists!NULL} \cup [Listables -> {Lists!Master, Lists!NoHandle}]
    <3>1. Lists!Handle(l) \in {Lists!Master, Lists!NoHandle}
      BY DEF Lists!Handle
    <3>2. CASE x.set = Lists!NULL
      BY <1>11, <3>2
    <3>3. CASE x.set # Lists!NULL
      <4>1. x.set \in [Listables -> {Lists!Master, Lists!NoHandle}]
        BY <1>5, <3>3
      <4>2. y.set = [x.set EXCEPT ![w] = Lists!Handle(l)]
        BY <1>11, <3>3
      <4> QED
        BY <3>1, <4>1, <4>2
    <3> QED
      BY <3>2, <3>3
  <2> QED
    BY <1>5, <1>11, <2>3, <2>4, <2>5, <2>6 DEF ListShape
<1>13. ASSUME NEW m \in Queues PROVE EndsFit(lifo, y, m, M[m])
  <2>1. CASE m # l
    <3>1. M[m] = L[m] /\ EndsFit(lifo, x, m, L[m])
      BY <1>4, <1>7, <2>1
    <3>2. y.first[m] = x.first[m] /\ y.last[m] = x.last[m] /\ y.length[m] = x.length[m]
      BY <1>5, <1>11, <2>1
    <3> QED
      BY <3>1, <3>2 DEF EndsFit
  <2>2. CASE m = l
    <3>1. M[l] # <<>> /\ y.length[l] = Len(M[l])
      <4>1. M[l] \in Seq(Listables) /\ e + 1 # 0
        BY <1>3
      <4> QED
        BY <1>3, <1>5, <1>7, <1>11, <4>1, EmptySeq
    <3>2. EndsFit(lifo, x, l, c)
      BY <1>1, <1>3, <1>4
    <3>3. y.first[l] = M[l][1]
      <4>1. CASE lifo
        BY <1>3, <1>5, <1>7, <1>11, <4>1
      <4>2. CASE ~lifo /\ c = <<>>
        BY <1>3, <1>5, <1>7, <1>8, <1>11, <4>2
      <4>3. CASE ~lifo /\ c # <<>>
        <5>1. M[l][1] = c[1]
          <6>1. M[l][1 + Shift(lifo)] = c[1] /\ 1 + Shift(lifo) = 1
            BY <1>7, <1>10, <4>3 DEF Shift
          <6> QED
            BY <6>1
        <5>2. x.first[l] = c[1]
          BY <3>2, <4>3 DEF EndsFit
        <5> QED
          BY <1>3, <1>5, <1>11, <4>3, <5>1, <5>2
      <4> QED
        BY <4>1, <4>2, <4>3
    <3>4. y.last[l] = M[l][e + 1]
      <4>1. CASE ~lifo
        BY <1>3, <1>5, <1>7, <1>11, <4>1
      <4>2. CASE lifo /\ c = <<>>
        BY <1>3, <1>5, <1>7, <1>8, <1>11, <4>2
      <4>3. CASE lifo /\ c # <<>>
        <5>1. M[l][e + 1] = c[e]
          BY <1>7, <1>10, <4>3 DEF Shift
        <5>2. x.last[l] = c[e]
          BY <1>6, <3>2, <4>3 DEF EndsFit
        <5> QED
          BY <1>3, <1>5, <1>11, <4>3, <5>1, <5>2
      <4> QED
        BY <4>1, <4>2, <4>3
    <3> QED
      BY <1>7, <2>2, <3>1, <3>3, <3>4 DEF EndsFit
  <2> QED
    BY <2>1, <2>2
<1>14. Apart(M) /\ \A v : IsListed(M, v) <=> v = w \/ IsListed(L, v)
  BY <1>4, AddedApart
<1>15. \A m \in Queues : \A k \in 1 .. Len(L[m]) : L[m][k] # w
  BY DEF IsListed
<1>16. LinksFit(lifo, y, M)
  <2>1. ASSUME NEW m \in Queues, NEW k \in 1 .. Len(M[m])
        PROVE  y.link[M[m][k]] = Following(lifo, M[m], k)
    <3>1. ComesFrom(lifo, L, l, w, M, m, k)
      BY AddedPlaces
    <3>2. CASE m # l
      <4>1. M[m] = L[m] /\ k \in 1 .. Len(L[m])
        BY <1>7, <3>2
      <4>2. L[m][k] # w /\ (c # <<>> => L[m][k] # c[e]) /\ L[m][k] \in Listables
        <5>1. c # <<>> => L[m][k] # c[e]
          BY <1>1, <1>3, <1>4, <1>6, <1>10, <3>2, <4>1 DEF Apart
        <5> QED
          BY <1>3, <1>15, <4>1, <5>1
      <4>3. y.link[L[m][k]] = x.link[L[m][k]]
        BY <1>11, <4>2
      <4> QED
        BY <1>4, <4>1, <4>3 DEF LinksFit
    <3>3. CASE m = l /\ k = Position(lifo, L[l]) /\ M[m][k] = w
      <4>1. CASE lifo
        <5>1. k = 1 /\ y.link[w] = IF c = <<>> THEN n ELSE c[1]
          BY <1>3, <1>11, <3>3, <4>1 DEF Position
        <5>2. c # <<>> => M[l][1 + 1] = c[1]
          BY <1>7, <1>10, <4>1 DEF Shift
        <5>3. 1 < e + 1 <=> c # <<>>
          BY <1>8
        <5>4. Following(lifo, M[l], k) = IF c # <<>> THEN M[l][1 + 1] ELSE n
          BY <1>7, <4>1, <5>1, <5>3 DEF Following
        <5> QED
          BY <3>3, <5>1, <5>2, <5>4
      <4>2. CASE ~lifo
        <5>1. k = e + 1 /\ y.link[w] = w
          BY <1>1, <1>3, <1>6, <1>11, <3>3, <4>2 DEF Position
        <5> QED
          BY <1>7, <3>3, <4>2, <5>1 DEF Following
      <4> QED
        BY <4>1, <4>2
    <3>4. CASE m = l /\ k - Shift(lifo) \in 1 .. Len(L[m]) /\ M[m][k] = L[m][k - Shift(lifo)]
      <4>1. PICK i \in 1 .. e : i = k - Shift(lifo) /\ M[l][k] = c[i] /\ k = i + Shift(lifo)
        <5>1. k \in Nat /\ Shift(lifo) \in Nat
          BY <1>3 DEF Shift
        <5> QED
          BY <1>1, <1>6, <3>4, <5>1
      <4>2. x.link[c[i]] = Following(lifo, c, i)
        BY <1>1, <1>3, <1>4, <1>6, <4>1 DEF LinksFit
      <4>3. c[i] # w /\ c[i] \in Listables
        BY <1>1, <1>3, <1>6, <1>9, <1>15, <4>1
      <4>4. i < e => M[l][k + 1] = c[i + 1] /\ k < e + 1
        <5> SUFFICES ASSUME i < e PROVE M[l][k + 1] = c[i + 1] /\ k < e + 1
          OBVIOUS
        <5>1. i + 1 \in 1 .. e /\ (i + 1) + Shift(lifo) = k + 1 /\ k < e + 1
          BY <4>1 DEF Shift
        <5>2. M[l][(i + 1) + Shift(lifo)] = c[i + 1]
          BY <1>7, <5>1
        <5> QED
          BY <5>1, <5>2
      <4>5. c[i] = c[e] => i = e
        <5>1. e \in 1 .. Len(L[l]) /\ i \in 1 .. Len(L[l])
          BY <1>1, <1>6, <4>1
        <5> QED
          BY <1>1, <1>3, <1>4, <5>1 DEF Apart
      <4>6. c # <<>>
        BY <1>8, <4>1
      <4>7. CASE lifo
        <5>1. y.link[c[i]] = x.link[c[i]] /\ k = i + 1
          BY <1>11, <4>1, <4>3, <4>7 DEF Shift
        <5>2. k < e + 1 <=> i < e
          BY <5>1
        <5> QED
          BY <1>6, <1>7, <3>4, <4>1, <4>2, <4>4, <4>7, <5>1, <5>2 DEF Following
      <4>8. CASE ~lifo /\ i < e
        <5>1. c[i] # c[e]
          BY <4>5, <4>8
        <5>2. y.link[c[i]] = x.link[c[i]]
          BY <1>11, <4>3, <5>1
        <5> QED
          BY <1>6, <1>7, <3>4, <4>1, <4>2, <4>4, <4>8, <5>2 DEF Following
      <4>9. CASE ~lifo /\ ~(i < e)
        <5>1. i = e /\ k = e /\ e < e + 1
          BY <4>1, <4>9 DEF Shift
        <5>2. y.link[c[i]] = w
          BY <1>11, <4>3, <4>6, <4>9, <5>1
        <5>3. Following(lifo, M[l], k) = w
          BY <1>7, <4>9, <5>1 DEF Following
        <5> QED
          BY <3>4, <4>1, <5>2, <5>3
      <4> QED
        BY <4>7, <4>8, <4>9
    <3> QED
      BY <3>1, <3>2, <3>3, <3>4 DEF ComesFrom
  <2>2. ASSUME NEW v \in Listables, ~IsListed(M, v) PROVE y.link[v] = n
    <3>1. v # w /\ ~IsListed(L, v)
      BY <1>14, <2>2
    <3>2. x.link[v] = n
      BY <1>4, <3>1 DEF LinksFit
    <3>3. c # <<>> => v # c[e]
      BY <1>1, <1>3, <1>6, <1>10, <3>1 DEF IsListed
    <3> QED
      BY <1>11, <3>1, <3>2, <3>3
  <2> QED
    BY <2>1, <2>2 DEF LinksFit
<1>17. MarksFit(y, M)
  <2>1. x.set = Lists!NULL => x.open = {Lists!Master}
    BY <1>3, <1>4 DEF MarksFit
  <2>2. y.set = Lists!NULL => x.set = Lists!NULL
    <3> SUFFICES ASSUME x.set # Lists!NULL PROVE y.set # Lists!NULL
      OBVIOUS
    <3>1. y.set = [x.set EXCEPT ![w] = Lists!Handle(l)]
      BY <1>11
    <3>2. DOMAIN y.set = Listables
      BY <1>5, <3>1
    <3>3. DOMAIN Lists!NULL = {}
      BY DEF Lists!NULL
    <3> QED
      BY <1>3, <3>2, <3>3
  <2>3. ASSUME NEW m \in Queues, NEW k \in 1 .. Len(M[m])
        PROVE  IF y.set = Lists!NULL THEN m = Lists!Master ELSE y.set[M[m][k]] = Lists!Handle(m)
    <3>1. \/ m = l /\ M[m][k] = w
          \/ \E i \in 1 .. Len(L[m]) : M[m][k] = L[m][i]
      BY AddedPlaces DEF ComesFrom
    <3>2. CASE m = l /\ M[m][k] = w
      <4>1. CASE y.set = Lists!NULL
        BY <2>1, <2>2, <3>2, <4>1
      <4>2. CASE y.set # Lists!NULL
        <5>1. x.set # Lists!NULL
          BY <1>11, <4>2
        <5>2. y.set = [x.set EXCEPT ![w] = Lists!Handle(l)] /\ x.set \in [Listables -> {Lists!Master, Lists!NoHandle}]
          BY <1>5, <1>11, <5>1
        <5> QED
          BY <1>3, <3>2, <4>2, <5>2
      <4> QED
        BY <4>1, <4>2
    <3>3. ASSUME NEW i \in 1 .. Len(L[m]), M[m][k] = L[m][i]
          PROVE  IF y.set = Lists!NULL THEN m = Lists!Master ELSE y.set[M[m][k]] = Lists!Handle(m)
      <4>1. IF x.set = Lists!NULL THEN m = Lists!Master ELSE x.set[L[m][i]] = Lists!Handle(m)
        BY <1>4 DEF MarksFit
      <4>2. CASE y.set = Lists!NULL
        BY <2>2, <4>1, <4>2
      <4>3. CASE y.set # Lists!NULL
        <5>1. x.set # Lists!NULL
          BY <1>11, <4>3
        <5>2. y.set = [x.set EXCEPT ![w] = Lists!Handle(l)] /\ x.set \in [Listables -> {Lists!Master, Lists!NoHandle}]
          BY <1>5, <1>11, <5>1
        <5>3. L[m][i] # w /\ L[m][i] \in Listables
          BY <1>3, <1>15
        <5> QED
          BY <3>3, <4>1, <4>3, <5>1, <5>2, <5>3
      <4> QED
        BY <4>2, <4>3
    <3> QED
      BY <3>1, <3>2, <3>3
  <2>4. y.set = Lists!NULL => y.open = {Lists!Master} \/ Listables = {}
    BY <1>11, <2>1, <2>2
  <2> QED
    BY <2>3, <2>4 DEF MarksFit
<1>18. Lists!Master \in y.open /\ \A m \in Queues \ y.open : M[m] = <<>>
  <2>1. Lists!Master \in x.open /\ \A m \in Queues \ x.open : L[m] = <<>>
    BY DEF Represents
  <2> QED
    BY <1>7, <1>11, <2>1
<1>19. Represents(lifo, y, M)
  BY <1>3, <1>12, <1>13, <1>14, <1>16, <1>17, <1>18 DEF Represents
<1> QED
  BY <1>1, <1>2, <1>19

-----------------------------------------------------------------------------
(* The lists implement the abstract ones. *)

\* An item is linked to, or is the bottom of a stack, if and only if it is listed.
LinksShow(stacks, x, L, w) ==
  /\ x.link[w] # n => IsListed(L, w)
  /\ \A l \in Queues : stacks /\ x.last[l] = w => \E k \in 1 .. Len(L[l]) : L[l][k] = w
  /\ \A l \in Queues : \A k \in 1 .. Len(L[l]) :
       L[l][k] = w => x.link[w] # n \/ (stacks /\ x.last[l] = w)

\* The test that Insert() makes, on links and ends, finds the items of the lists.
LEMMA ListedItems ==
  ASSUME NEW st, NEW x, NEW L, Represents(st, x, L), NEW w \in Listables
  PROVE  LinksShow(st, x, L, w)
<1>1. /\ n \in Nat /\ Listables = 0 .. n - 1 /\ st \in BOOLEAN /\ w # n
      /\ L \in [Queues -> Seq(Listables)]
      /\ \A l \in Queues : EndsFit(st, x, l, L[l])
      /\ LinksFit(st, x, L)
  <2>1. n \in Nat /\ Listables = 0 .. n - 1
    BY ListSize DEF Listables, Lists!Items
  <2> QED
    BY <2>1 DEF Represents
<1>2. x.link[w] # n => IsListed(L, w)
  BY <1>1 DEF LinksFit
<1>3. ASSUME NEW l \in Queues, st, x.last[l] = w PROVE \E k \in 1 .. Len(L[l]) : L[l][k] = w
  <2>1. PICK c \in Seq(Listables) : c = L[l] /\ EndsFit(st, x, l, c)
    BY <1>1
  <2>2. c # <<>> /\ c[Len(c)] = w
    BY <1>1, <1>3, <2>1 DEF EndsFit
  <2>3. Len(c) \in 1 .. Len(c)
    <3>1. Len(c) \in Nat /\ Len(c) # 0
      BY <2>1, <2>2, EmptySeq
    <3> QED
      BY <3>1
  <2> QED
    BY <2>1, <2>2, <2>3
<1>4. ASSUME NEW l \in Queues, NEW k \in 1 .. Len(L[l]), L[l][k] = w
      PROVE  x.link[w] # n \/ (st /\ x.last[l] = w)
  <2>1. PICK c \in Seq(Listables) : c = L[l] /\ EndsFit(st, x, l, c)
    BY <1>1
  <2>2. k \in 1 .. Len(c) /\ c[k] = w /\ c # <<>> /\ Len(c) \in Nat
    BY <1>4, <2>1, EmptySeq
  <2>3. x.link[w] = Following(st, c, k)
    BY <1>1, <1>4, <2>1 DEF LinksFit
  <2>4. CASE k < Len(c)
    <3>1. k + 1 \in 1 .. Len(c)
      BY <2>2, <2>4
    <3>2. c[k + 1] \in Listables
      BY <2>1, <3>1
    <3>3. c[k + 1] # n
      BY <1>1, <3>2
    <3> QED
      BY <2>3, <2>4, <3>3 DEF Following
  <2>5. CASE ~(k < Len(c))
    <3>1. k = Len(c)
      BY <2>2, <2>5
    <3>2. x.last[l] = w
      BY <2>1, <2>2, <3>1 DEF EndsFit
    <3>3. x.link[w] = IF st THEN n ELSE w
      BY <2>2, <2>3, <2>5 DEF Following
    <3> QED
      BY <1>1, <3>2, <3>3
  <2> QED
    BY <2>4, <2>5
<1> QED
  BY <1>2, <1>3, <1>4 DEF LinksShow

\* The lists that the links describe.
LEMMA ListedIs ==
  ASSUME NEW L, Represents(lifo, q, L)
  PROVE  Lists!Listed = L
<1>1. L \in [Queues -> Seq(Listables)] /\ \A l \in Queues \ q.open : L[l] = <<>>
  BY DEF Represents
<1>2. ASSUME NEW l \in Queues PROVE L[l] = IF l \in q.open THEN Lists!Chain(q, l) ELSE <<>>
  <2>1. Lists!Chain(q, l) = L[l]
    BY ChainIs
  <2> QED
    BY <1>1, <2>1
<1> QED
  BY <1>1, <1>2 DEF Lists!Listed, Queues

\* The same after a step.
LEMMA ListedNext ==
  ASSUME NEW L, Represents(lifo', q', L)
  PROVE  Lists!Listed' = L
<1>1. L \in [Queues -> Seq(Listables)] /\ \A l \in Queues \ q'.open : L[l] = <<>>
  BY DEF Represents
<1>2. ASSUME NEW l \in Queues PROVE L[l] = IF l \in q'.open THEN Lists!Chain(q', l) ELSE <<>>
  <2>1. Lists!Chain(q', l) = L[l]
    BY ChainIs
  <2> QED
    BY <1>1, <2>1
<1> QED
  BY <1>1, <1>2 DEF Lists!Listed, Queues

\* IsMember() and Cardinality() of all lists fit them, if a derived list is not asked for
\* the items of another one.
LEMMA AnswersFit ==
  ASSUME ListInv, Cautious
  PROVE  Lists!Abstract!AnswersFit
<1>1. PICK L : Represents(lifo, q, L)
  BY DEF ListInv
<1>2. Lists!Listed = L
  BY <1>1, ListedIs
<1>3. /\ L \in [Queues -> Seq(Listables)] /\ q \in ListShape /\ MarksFit(q, L) /\ Apart(L)
      /\ \A l \in Queues : q.length[l] = Len(L[l])
      /\ \A l \in Queues \ q.open : L[l] = <<>>
  BY <1>1 DEF Represents, EndsFit
<1>4. q.length = [l \in Queues |-> Len(L[l])]
  BY <1>3 DEF ListShape
<1>5. \A l \in Queues : Lists!Abstract!ToSet(L[l]) = {L[l][k] : k \in 1 .. Len(L[l])}
  <2>1. \A l \in Queues : DOMAIN L[l] = 1 .. Len(L[l])
    BY <1>3
  <2> QED
    BY <2>1 DEF Lists!Abstract!ToSet
<1>6. \A l \in Queues : Lists!ToSet(L[l]) = {L[l][k] : k \in 1 .. Len(L[l])}
  <2>1. \A l \in Queues : DOMAIN L[l] = 1 .. Len(L[l])
    BY <1>3
  <2> QED
    BY <2>1 DEF Lists!ToSet
<1>10. ASSUME NEW w \in Listables PROVE LinksShow(lifo, q, L, w)
  BY <1>1, ListedItems
<1>7. ASSUME NEW l \in Queues, NEW w \in Listables
      PROVE  w \in Lists!Asked(l) /\ l \in q.open /\ Lists!IsMember(l, w)
               <=> \E k \in 1 .. Len(L[l]) : L[l][k] = w
  <2>1. Lists!Asked(l) = IF l = Lists!Master THEN Listables
                         ELSE Listables \ UNION {Lists!ToSet(L[k]) : k \in Queues \ {Lists!Master, l}}
    BY <1>2 DEF Lists!Asked, Listables, Queues
  <2>2. w \in Lists!Asked(l) <=>
          (l # Lists!Master => \A m \in Queues \ {Lists!Master, l} : \A k \in 1 .. Len(L[m]) : L[m][k] # w)
    <3>1. \A m \in Queues : w \in Lists!ToSet(L[m]) <=> \E k \in 1 .. Len(L[m]) : L[m][k] = w
      BY <1>6
    <3>2. w \in UNION {Lists!ToSet(L[k]) : k \in Queues \ {Lists!Master, l}}
            <=> \E m \in Queues \ {Lists!Master, l} : w \in Lists!ToSet(L[m])
      OBVIOUS
    <3> QED
      BY <2>1, <3>1, <3>2
  <2>3. ASSUME w \in Lists!Asked(l), l \in q.open, Lists!IsMember(l, w)
        PROVE  \E k \in 1 .. Len(L[l]) : L[l][k] = w
    <3>1. CASE lifo /\ w = q.last[l]
      BY <1>10, <3>1 DEF LinksShow
    <3>2. CASE q.link[w] # n /\ (q.set # Lists!NULL => q.set[w] = Lists!Handle(l))
      <4>1. IsListed(L, w)
        BY <1>10, <3>2 DEF LinksShow
      <4>2. PICK m \in Queues : \E k \in 1 .. Len(L[m]) : L[m][k] = w
        BY <4>1 DEF IsListed
      <4>3. PICK k \in 1 .. Len(L[m]) : L[m][k] = w
        BY <4>2
      <4>4. IF q.set = Lists!NULL THEN m = Lists!Master ELSE q.set[w] = Lists!Handle(m)
        BY <1>3, <4>3 DEF MarksFit
      <4>5. ASSUME m # l PROVE FALSE
        <5>1. l # Lists!Master => m = Lists!Master
          BY <2>2, <2>3, <4>3, <4>5
        <5>2. CASE q.set = Lists!NULL
          <6>1. q.open = {Lists!Master}
            BY <1>3, <5>2 DEF MarksFit
          <6> QED
            BY <2>3, <4>4, <4>5, <5>2, <6>1
        <5>3. CASE q.set # Lists!NULL
          <6>1. Lists!Handle(m) = Lists!Handle(l)
            BY <3>2, <4>4, <5>3
          <6>2. Lists!Handle(m) # Lists!Handle(l)
            BY <4>5, <5>1 DEF Lists!Handle, Lists!Master, Lists!NoHandle
          <6> QED
            BY <6>1, <6>2
        <5> QED
          BY <5>2, <5>3
      <4> QED
        BY <4>3, <4>5
    <3> QED
      BY <2>3, <3>1, <3>2 DEF Lists!IsMember
  <2>4. ASSUME NEW k \in 1 .. Len(L[l]), L[l][k] = w
        PROVE  w \in Lists!Asked(l) /\ l \in q.open /\ Lists!IsMember(l, w)
    <3>1. l \in q.open
      BY <1>3, <2>4, EmptySeq
    <3>2. w \in Lists!Asked(l)
      <4>1. ASSUME NEW m \in Queues, NEW i \in 1 .. Len(L[m]), L[m][i] = w PROVE m = l
        <5>1. L[m][i] = L[l][k]
          BY <2>4, <4>1
        <5> QED
          BY <1>3, <5>1 DEF Apart
      <4> QED
        BY <2>2, <4>1
    <3>3. q.link[w] # n \/ (lifo /\ q.last[l] = w)
      BY <1>10, <2>4 DEF LinksShow
    <3>4. q.set # Lists!NULL => q.set[w] = Lists!Handle(l)
      BY <1>3, <2>4 DEF MarksFit
    <3> QED
      BY <3>1, <3>2, <3>3, <3>4 DEF Lists!IsMember
  <2> QED
    BY <2>3, <2>4
<1>8. ASSUME NEW l \in Queues
      PROVE  {w \in Lists!Asked(l) : l \in q.open /\ Lists!IsMember(l, w)} = Lists!Abstract!ToSet(L[l])
  <2>1. Lists!Asked(l) \subseteq Listables
    BY DEF Lists!Asked, Listables
  <2>2. \A k \in 1 .. Len(L[l]) : L[l][k] \in Listables
    BY <1>3
  <2>3. \A w \in Lists!Asked(l) : l \in q.open /\ Lists!IsMember(l, w) => \E k \in 1 .. Len(L[l]) : L[l][k] = w
    BY <1>7, <2>1
  <2>4. \A k \in 1 .. Len(L[l]) : L[l][k] \in Lists!Asked(l) /\ l \in q.open /\ Lists!IsMember(l, L[l][k])
    BY <1>7, <2>2
  <2>5. Lists!Abstract!ToSet(L[l]) = {L[l][k] : k \in 1 .. Len(L[l])}
    BY <1>5
  <2> QED
    BY <2>3, <2>4, <2>5
<1>9. [l \in Queues |-> {w \in IF Cautious THEN Lists!Asked(l) ELSE Listables :
                           l \in q.open /\ Lists!IsMember(l, w)}]
        = [l \in Queues |-> Lists!Abstract!ToSet(L[l])]
  BY <1>8
<1> QED
  BY <1>2, <1>4, <1>9 DEF Lists!Abstract!AnswersFit, Queues, Listables

\* The actions of the abstract lists.
AbstractStep ==
  \E l \in Queues : \/ Lists!Abstract!Take(l) \/ Lists!Abstract!Clear(l)
                    \/ \E w \in Listables : Lists!Abstract!Put(l, w) \/ Lists!Abstract!Refuse(w)

\* A step with its effect on the lists.
LEMMA StepShown ==
  ASSUME NEW L, Represents(lifo, q, L), NEW M, Represents(lifo, q', M), lifo' = lifo
  PROVE  ListInv' /\ Lists!Listed = L /\ Lists!Listed' = M
<1>1. Represents(lifo', q', M)
  BY Zenon
<1> QED
  BY <1>1, ListedIs, ListedNext DEF ListInv

\* All lists are empty at first.
LEMMA ListsAtFirst ==
  ASSUME Lists!Init
  PROVE  ListInv /\ Lists!Listed = [l \in Queues |-> <<>>]
<1>1. PICK L : L = [l \in Queues |-> <<>>]
  OBVIOUS
<1>2. /\ lifo \in BOOLEAN
      /\ q = [link |-> [i \in Listables |-> n], set |-> Lists!NULL, open |-> {Lists!Master},
              first |-> [l \in Queues |-> n], last |-> [l \in Queues |-> n],
              length |-> [l \in Queues |-> 0]]
  BY DEF Lists!Init, Listables, Queues
<1>3. n \in 0 .. n /\ Lists!Master \in Queues
  BY ListSize DEF Queues, Lists!Lists
<1>4. q \in ListShape
  BY <1>2, <1>3 DEF ListShape
<1>5. /\ L \in [Queues -> Seq(Listables)]
      /\ \A l \in Queues : L[l] = <<>> /\ Len(L[l]) = 0 /\ 1 .. Len(L[l]) = {}
  BY <1>1, EmptySeq
<1>6. \A l \in Queues : EndsFit(lifo, q, l, L[l])
  BY <1>2, <1>5 DEF EndsFit
<1>7. Apart(L) /\ LinksFit(lifo, q, L) /\ MarksFit(q, L)
  BY <1>2, <1>5 DEF Apart, LinksFit, MarksFit
<1>8. Represents(lifo, q, L)
  BY <1>2, <1>4, <1>5, <1>6, <1>7 DEF Represents
<1> QED
  BY <1>1, <1>8, ListedIs DEF ListInv

\* The copy constructor changes no list.
LEMMA DeriveStep ==
  ASSUME NEW L, Represents(lifo, q, L), NEW l \in Queues, Lists!Derive(l), lifo' = lifo
  PROVE  ListInv' /\ AbstractStep
<1>1. /\ q \in ListShape /\ lifo \in BOOLEAN /\ L \in [Queues -> Seq(Listables)]
      /\ \A m \in Queues : EndsFit(lifo, q, m, L[m])
      /\ Apart(L) /\ LinksFit(lifo, q, L) /\ MarksFit(q, L)
      /\ Lists!Master \in q.open /\ \A m \in Queues \ q.open : L[m] = <<>>
  BY DEF Represents
<1>2. /\ q.link \in [Listables -> 0 .. n] /\ q.first \in [Queues -> 0 .. n]
      /\ q.last \in [Queues -> 0 .. n] /\ q.length \in [Queues -> Nat]
      /\ q.set \in {Lists!NULL} \cup [Listables -> {Lists!Master, Lists!NoHandle}]
      /\ q.open \in SUBSET Queues
      /\ q = [link |-> q.link, set |-> q.set, open |-> q.open, first |-> q.first,
              last |-> q.last, length |-> q.length]
  BY <1>1 DEF ListShape
<1>3. l \notin q.open /\ L[l] = <<>> /\ call' = <<"clear">>
  BY <1>1 DEF Lists!Derive
<1>4. PICK marks : marks = [i \in Listables |-> IF Lists!OnSomeList(Lists!Master, i) THEN Lists!Master
                                                ELSE Lists!NoHandle]
  OBVIOUS
<1>5. /\ q'.link = q.link /\ q'.open = q.open \cup {l}
      /\ q'.set = (IF q.set # Lists!NULL THEN q.set ELSE marks)
      /\ q'.first = [q.first EXCEPT ![l] = n] /\ q'.last = [q.last EXCEPT ![l] = n]
      /\ q'.length = [q.length EXCEPT ![l] = 0]
      /\ q' = [link |-> q'.link, set |-> q'.set, open |-> q'.open, first |-> q'.first,
               last |-> q'.last, length |-> q'.length]
  BY <1>2, <1>4 DEF Lists!Derive, Lists!Handle, Listables
<1>6. q' \in ListShape
  <2>1. n \in 0 .. n
    BY ListSize
  <2>2. marks \in [Listables -> {Lists!Master, Lists!NoHandle}]
    BY <1>4
  <2>3. q'.first \in [Queues -> 0 .. n] /\ q'.last \in [Queues -> 0 .. n]
    BY <1>2, <1>5, <2>1
  <2>4. q'.length \in [Queues -> Nat]
    BY <1>2, <1>5
  <2>5. q'.set \in {Lists!NULL} \cup [Listables -> {Lists!Master, Lists!NoHandle}]
    BY <1>2, <1>5, <2>2
  <2>6. q'.open \in SUBSET Queues /\ q'.link \in [Listables -> 0 .. n]
    BY <1>2, <1>5
  <2> QED
    BY <1>5, <2>3, <2>4, <2>5, <2>6 DEF ListShape
<1>7. ASSUME NEW m \in Queues PROVE EndsFit(lifo, q', m, L[m])
  <2>1. CASE m = l
    BY <1>2, <1>3, <1>5, <2>1, EmptySeq DEF EndsFit
  <2>2. CASE m # l
    <3>1. q'.first[m] = q.first[m] /\ q'.last[m] = q.last[m] /\ q'.length[m] = q.length[m]
      BY <1>2, <1>5, <2>2
    <3> QED
      BY <1>1, <3>1 DEF EndsFit
  <2> QED
    BY <2>1, <2>2
<1>8. LinksFit(lifo, q', L)
  BY <1>1, <1>5 DEF LinksFit
<1>9. MarksFit(q', L)
  <2>1. CASE q.set # Lists!NULL
    BY <1>1, <1>5, <2>1 DEF MarksFit
  <2>2. CASE q.set = Lists!NULL
    <3>1. q'.set = marks /\ DOMAIN marks = Listables /\ DOMAIN Lists!NULL = {}
      BY <1>4, <1>5, <2>2 DEF Lists!NULL
    <3>2. q'.set = Lists!NULL => Listables = {}
      BY <3>1
    <3>3. ASSUME NEW m \in Queues, NEW k \in 1 .. Len(L[m])
          PROVE  q'.set # Lists!NULL /\ q'.set[L[m][k]] = Lists!Handle(m)
      <4>1. m = Lists!Master
        BY <1>1, <2>2 DEF MarksFit
      <4>2. PICK w \in Listables : w = L[m][k]
        BY <1>1
      <4>3. LinksShow(lifo, q, L, w)
        BY ListedItems
      <4>4. Lists!OnSomeList(m, w)
        BY <4>2, <4>3 DEF LinksShow, Lists!OnSomeList
      <4>5. marks[w] = Lists!Master
        BY <1>4, <4>1, <4>4
      <4> QED
        BY <3>1, <3>2, <4>1, <4>2, <4>5 DEF Lists!Handle
    <3> QED
      BY <3>2, <3>3 DEF MarksFit
  <2> QED
    BY <2>1, <2>2
<1>10. Represents(lifo, q', L)
  BY <1>1, <1>5, <1>6, <1>7, <1>8, <1>9 DEF Represents
<1>11. ListInv' /\ Lists!Listed = L /\ Lists!Listed' = L
  BY <1>10, StepShown
<1>12. L = [L EXCEPT ![l] = <<>>]
  BY <1>1, <1>3
<1>13. Lists!Abstract!Clear(l)
  BY <1>3, <1>11, <1>12 DEF Lists!Abstract!Clear
<1> QED
  BY <1>11, <1>13 DEF AbstractStep

\* An item that is on a list is not inserted, another one is.
LEMMA InsertStep ==
  ASSUME NEW L, Represents(lifo, q, L), NEW l \in Queues, NEW w \in Listables, Lists!Insert(l, w),
         lifo' = lifo, Cautious
  PROVE  ListInv' /\ AbstractStep
<1>1. /\ L \in [Queues -> Seq(Listables)] /\ lifo \in BOOLEAN
      /\ \A m \in Queues \ q.open : L[m] = <<>>
  BY DEF Represents
<1>2. LinksShow(lifo, q, L, w)
  BY ListedItems
<1>3. Lists!Listed = L
  BY ListedIs
<1>4. w \in Lists!Abstract!Held <=> IsListed(L, w)
  <2>1. \A m \in Queues : Lists!Abstract!ToSet(L[m]) = {L[m][k] : k \in 1 .. Len(L[m])}
    <3>1. \A m \in Queues : DOMAIN L[m] = 1 .. Len(L[m])
      BY <1>1
    <3> QED
      BY <3>1 DEF Lists!Abstract!ToSet
  <2>2. Lists!Abstract!Held = UNION {Lists!Abstract!ToSet(L[m]) : m \in Queues}
    BY <1>3 DEF Lists!Abstract!Held, Queues
  <2>3. w \in Lists!Abstract!Held <=> \E m \in Queues : w \in Lists!Abstract!ToSet(L[m])
    BY <2>2
  <2> QED
    BY <2>1, <2>3 DEF IsListed
<1>5. CASE Lists!OnSomeList(l, w)
  <2>1. call' = <<"twice", w>> /\ q' = q
    BY <1>5 DEF Lists!Insert
  <2>2. Represents(lifo, q', L)
    BY <2>1
  <2>3. ListInv' /\ Lists!Listed' = L
    BY <2>2, StepShown
  <2>4. IsListed(L, w)
    BY <1>2, <1>5 DEF LinksShow, Lists!OnSomeList, IsListed
  <2>5. Lists!Abstract!Refuse(w)
    BY <1>3, <1>4, <2>1, <2>3, <2>4 DEF Lists!Abstract!Refuse
  <2> QED
    BY <2>3, <2>5 DEF AbstractStep
<1>6. CASE ~Lists!OnSomeList(l, w)
  <2>1. /\ l \in q.open /\ call' = <<"put">>
        /\ \A k \in q.open \ {l} : ~lifo \/ q.last[k] # w
        /\ q' = Lists!Marked(IF lifo THEN Lists!Pushed(l, w) ELSE Lists!Enqueued(l, w), l, w)
    BY <1>6 DEF Lists!Insert
  <2>2. ~IsListed(L, w)
    <3> SUFFICES ASSUME NEW m \in Queues, NEW k \in 1 .. Len(L[m]), L[m][k] = w PROVE FALSE
      BY DEF IsListed
    <3>1. q.link[w] = n /\ ~(lifo /\ q.last[l] = w)
      BY <1>6 DEF Lists!OnSomeList
    <3>2. lifo /\ q.last[m] = w
      BY <1>2, <3>1 DEF LinksShow
    <3>3. m \in q.open
      BY <1>1, EmptySeq
    <3> QED
      BY <2>1, <3>1, <3>2, <3>3
  <2>3. PICK M : M = Added(lifo, L, l, w)
    OBVIOUS
  <2>4. IsAdded(lifo, L, l, w, M)
    BY <1>1, <2>3, AddedItem
  <2>5. Represents(lifo, Inserted(q, L[l], l, w), M)
    BY <2>1, <2>2, <2>4, InsertedRepresents
  <2>6. q' = Inserted(q, L[l], l, w)
    BY <2>1, <2>2, InsertedIs
  <2>7. ListInv' /\ Lists!Listed' = M
    BY <2>5, <2>6, StepShown
  <2>8. Lists!Abstract!Put(l, w)
    BY <1>3, <1>4, <2>1, <2>2, <2>3, <2>7 DEF Lists!Abstract!Put, Added
  <2> QED
    BY <2>7, <2>8 DEF AbstractStep
<1> QED
  BY <1>5, <1>6

\* The first item leaves a list.
LEMMA DeleteStep ==
  ASSUME NEW L, Represents(lifo, q, L), NEW l \in Queues, Lists!Delete(l), lifo' = lifo
  PROVE  ListInv' /\ AbstractStep
<1>1. PICK c \in Seq(Listables) : c = L[l] /\ EndsFit(lifo, q, l, c)
  BY DEF Represents
<1>2. L \in [Queues -> Seq(Listables)] /\ Lists!Listed = L
  BY ListedIs DEF Represents
<1>3. c # <<>> /\ Len(c) \in Nat /\ Len(c) # 0 /\ q.first[l] = c[1]
  BY <1>1, EmptySeq DEF Lists!Delete, Lists!Empty, EndsFit
<1>4. q' = Lists!Removed(q, l) /\ call' = <<"item", c[1]>>
  BY <1>3 DEF Lists!Delete
<1>5. q' = Shortened(q, L[l], l, 1)
  <2>1. Shortened(q, L[l], l, 0) = q
    BY ShortenedByNothing
  <2>2. 0 \in Nat /\ 0 < Len(L[l]) /\ 0 + 1 = 1
    BY <1>1, <1>3
  <2>3. Lists!Removed(Shortened(q, L[l], l, 0), l) = Shortened(q, L[l], l, 0 + 1)
    BY <2>2, DeletedOneMore
  <2> QED
    BY <1>4, <2>1, <2>2, <2>3
<1>6. PICK M : M = Without(L, l, 1)
  OBVIOUS
<1>7. Represents(lifo, q', M)
  <2>1. 1 \in 0 .. Len(L[l])
    BY <1>1, <1>3
  <2> QED
    BY <1>5, <1>6, <2>1, ShortenedRepresents
<1>8. ListInv' /\ Lists!Listed' = M
  BY <1>7, StepShown
<1>9. M = [L EXCEPT ![l] = Tail(c)] /\ Head(c) = c[1]
  <2>1. Tail(c) = SubSeq(c, 2, Len(c))
    BY <1>3, TailIsSubSeq
  <2>2. 1 + 1 = 2
    OBVIOUS
  <2>3. M = [L EXCEPT ![l] = SubSeq(c, 2, Len(c))]
    BY <1>1, <1>6, <2>2 DEF Without
  <2>4. Head(c) = c[1]
    OBVIOUS
  <2> QED
    BY <2>1, <2>3, <2>4
<1>10. Lists!Abstract!Take(l)
  BY <1>1, <1>2, <1>3, <1>4, <1>8, <1>9 DEF Lists!Abstract!Take
<1> QED
  BY <1>8, <1>10 DEF AbstractStep

\* What is left of a list that is cleared.
LEMMA NothingLeft ==
  ASSUME NEW L, Represents(lifo, q, L), NEW l \in Queues
  PROVE  Represents(lifo, Lists!Emptied(q, l), [L EXCEPT ![l] = <<>>])
<1>1. PICK c \in Seq(Listables) : c = L[l]
  BY DEF Represents
<1>2. Lists!Emptied(q, l) = Shortened(q, L[l], l, Len(L[l]))
  BY EmptiedIs
<1>3. Len(L[l]) \in 0 .. Len(L[l])
  BY <1>1
<1>4. Represents(lifo, Shortened(q, L[l], l, Len(L[l])), Without(L, l, Len(L[l])))
  BY <1>3, ShortenedRepresents
<1>5. SubSeq(c, Len(c) + 1, Len(c)) = <<>>
  <2>1. Len(c) \in Int /\ Len(c) + 1 \in Int /\ Len(c) < Len(c) + 1
    OBVIOUS
  <2> QED
    BY <2>1, SubSeqEmpty
<1>6. Without(L, l, Len(L[l])) = [L EXCEPT ![l] = <<>>]
  BY <1>1, <1>5 DEF Without
<1> QED
  BY <1>2, <1>4, <1>6

\* A list is cleared, and no other one.
LEMMA ClearStep ==
  ASSUME NEW L, Represents(lifo, q, L), NEW l \in Queues, Lists!Clear(l), lifo' = lifo
  PROVE  ListInv' /\ AbstractStep
<1>1. q' = Lists!Emptied(q, l) /\ call' = <<"clear">>
  BY DEF Lists!Clear
<1>2. Represents(lifo, q', [L EXCEPT ![l] = <<>>])
  BY <1>1, NothingLeft
<1>3. ListInv' /\ Lists!Listed = L /\ Lists!Listed' = [L EXCEPT ![l] = <<>>]
  BY <1>2, StepShown
<1>4. Lists!Abstract!Clear(l)
  BY <1>1, <1>3 DEF Lists!Abstract!Clear
<1> QED
  BY <1>3, <1>4 DEF AbstractStep

\* A list that is destroyed is empty.
LEMMA DestroyStep ==
  ASSUME NEW L, Represents(lifo, q, L), NEW l \in Queues, Lists!Destroy(l), lifo' = lifo
  PROVE  ListInv' /\ AbstractStep
<1>1. PICK y : y = Lists!Emptied(q, l)
  OBVIOUS
<1>2. PICK M : M = [L EXCEPT ![l] = <<>>]
  OBVIOUS
<1>3. Represents(lifo, y, M)
  BY <1>1, <1>2, NothingLeft
<1>4. l # Lists!Master /\ call' = <<"clear">> /\ q' = [y EXCEPT !.open = @ \ {l}]
  BY <1>1 DEF Lists!Destroy
<1>5. /\ y \in ListShape /\ lifo \in BOOLEAN /\ M \in [Queues -> Seq(Listables)]
      /\ \A m \in Queues : EndsFit(lifo, y, m, M[m])
      /\ Apart(M) /\ LinksFit(lifo, y, M) /\ MarksFit(y, M)
      /\ Lists!Master \in y.open /\ \A m \in Queues \ y.open : M[m] = <<>>
  BY <1>3 DEF Represents
<1>6. /\ q'.link = y.link /\ q'.set = y.set /\ q'.open = y.open \ {l} /\ q'.first = y.first
      /\ q'.last = y.last /\ q'.length = y.length
      /\ q' \in ListShape
  BY <1>4, <1>5 DEF ListShape
<1>7. \A m \in Queues : EndsFit(lifo, q', m, M[m])
  BY <1>5, <1>6 DEF EndsFit
<1>8. LinksFit(lifo, q', M) /\ MarksFit(q', M)
  <2>1. LinksFit(lifo, q', M)
    BY <1>5, <1>6 DEF LinksFit
  <2>2. y.open = {Lists!Master} => q'.open = {Lists!Master}
    BY <1>4, <1>6
  <2> QED
    BY <1>5, <1>6, <2>1, <2>2 DEF MarksFit
<1>9. Lists!Master \in q'.open
  BY <1>4, <1>5, <1>6
<1>10. \A m \in Queues \ q'.open : M[m] = <<>>
  <2>1. M[l] = <<>>
    <3>1. L \in [Queues -> Seq(Listables)]
      BY DEF Represents
    <3> QED
      BY <1>2, <3>1
  <2> QED
    BY <1>5, <1>6, <2>1
<1>11. Represents(lifo, q', M)
  BY <1>5, <1>6, <1>7, <1>8, <1>9, <1>10 DEF Represents
<1>12. ListInv' /\ Lists!Listed = L /\ Lists!Listed' = M
  BY <1>11, StepShown
<1>13. Lists!Abstract!Clear(l)
  BY <1>2, <1>4, <1>12 DEF Lists!Abstract!Clear
<1> QED
  BY <1>12, <1>13 DEF AbstractStep

\* Every step of the lists is a step of the abstract ones.
LEMMA ListsStep ==
  ASSUME ListInv, Lists!Next, Cautious
  PROVE  ListInv' /\ lifo' = lifo /\ AbstractStep
<1>1. PICK L : Represents(lifo, q, L)
  BY DEF ListInv
<1>2. lifo' = lifo
  BY DEF Lists!Next
<1>3. PICK l \in Queues : \/ Lists!Derive(l) \/ Lists!Destroy(l) \/ Lists!Delete(l) \/ Lists!Clear(l)
                          \/ \E w \in Listables : Lists!Insert(l, w)
  BY DEF Lists!Next, Queues, Listables
<1> QED
  BY <1>1, <1>2, <1>3, DeriveStep, DestroyStep, DeleteStep, ClearStep, InsertStep

\* Steps of the other containers do not touch the lists.
LEMMA ListsStutter ==
  ASSUME ListInv, UNCHANGED <<lifo, q, call>>
  PROVE  ListInv' /\ UNCHANGED Lists!Listed
<1>1. PICK L : Represents(lifo, q, L)
  BY DEF ListInv
<1>2. Represents(lifo, q', L) /\ lifo' = lifo
  BY <1>1
<1> QED
  BY <1>1, <1>2, StepShown

\* Static queues, and static stacks, that share an array of links behave like separate ones,
\* if callers keep away from what goes wrong: to insert, delete, clear or destroy one of them
\* leaves all others as they are.
THEOREM ListsAreSeparate == Cautious => (ContainerSpec => ImplementsLists)
<1> SUFFICES ASSUME Cautious PROVE ContainerSpec => ImplementsLists
  OBVIOUS
<1>1. Begin => ListInv /\ Lists!Abstract!Init
  <2> SUFFICES ASSUME Lists!Init PROVE ListInv /\ Lists!Abstract!Init
    BY DEF Begin
  <2>1. ListInv /\ Lists!Listed = [l \in Queues |-> <<>>]
    BY ListsAtFirst
  <2>2. Lists!Abstract!AnswersFit
    BY <2>1, AnswersFit
  <2>3. lifo \in BOOLEAN /\ call = <<>>
    BY DEF Lists!Init
  <2> QED
    BY <2>1, <2>2, <2>3 DEF Lists!Abstract!Init, Queues
<1>2. ASSUME ListInv, [Step]_<<subject, family, lists, table>>
      PROVE  /\ ListInv'
             /\ lifo' = lifo
             /\ AbstractStep \/ UNCHANGED <<q, Lists!Listed, call>>
  <2>1. CASE Lists!Next
    BY <1>2, <2>1, ListsStep
  <2>2. CASE UNCHANGED <<lifo, q, call>>
    BY <1>2, <2>2, ListsStutter
  <2> QED
    BY <1>2, <2>1, <2>2 DEF Step, lists
<1>3. ListInv => Lists!Abstract!AnswersFit
  BY AnswersFit
<1>4. ListInv /\ [Step]_<<subject, family, lists, table>> => ListInv'
  BY <1>2
<1>5. ASSUME ListInv, [Step]_<<subject, family, lists, table>>, Lists!Abstract!AnswersFit'
      PROVE  [Lists!Abstract!Next]_<<lifo, Lists!Listed,
                 [l \in Lists!Lists |-> {w \in IF Cautious THEN Lists!Asked(l) ELSE Lists!Items :
                                           l \in q.open /\ Lists!IsMember(l, w)}],
                 q.length, call>>
  <2>1. /\ lifo' = lifo
        /\ AbstractStep \/ UNCHANGED <<q, Lists!Listed, call>>
    BY <1>2, <1>5
  <2>2. CASE AbstractStep
    BY <1>5, <2>1, <2>2 DEF AbstractStep, Lists!Abstract!Next, Queues, Listables
  <2>3. CASE UNCHANGED <<q, Lists!Listed, call>>
    BY <2>1, <2>3 DEF Lists!Asked, Lists!IsMember
  <2> QED
    BY <2>1, <2>2, <2>3
<1> QED
  BY <1>1, <1>3, <1>4, <1>5, PTL DEF ContainerSpec, ImplementsLists, Lists!ImplementsLists, Lists!Abstract!Spec

-----------------------------------------------------------------------------
(* Hash tables and dictionaries: the slots are on lists, a chain for every *)
(* hash value and the list of free slots, and an operation moves slots     *)
(* from list to list.                                                      *)

\* The lists of a table: the chains of the hash values, and the list of free slots.
Rows(x) == 0 .. x.nHash

HeadOf(x, h) == IF h = x.nHash THEN x.free ELSE x.first[h]

\* The links there may be.
Links(x) == Table!Slots(x) \cup {x.UNDEFINED}

TableShape(x) ==
  /\ x = [nMax |-> x.nMax, nHash |-> x.nHash, UNDEFINED |-> x.UNDEFINED, first |-> x.first,
          next |-> x.next, index |-> x.index, key |-> x.key, free |-> x.free, nz |-> x.nz]
  /\ x.nMax \in Nat \ {0} /\ x.nHash \in Nat \ {0}
  /\ x.UNDEFINED \in Int \ Table!Slots(x)
  /\ x.first \in [0 .. x.nHash - 1 -> Links(x)] /\ x.next \in [Table!Slots(x) -> Links(x)]
  /\ x.free \in Links(x)
  /\ x.index = [v \in Table!Slots(x) |-> x.index[v]]
  /\ x.key = [v \in Table!Slots(x) |-> x.key[v]]

\* What is at position k of a list, or its end.
At(x, c, k) == IF k <= Len(c) THEN c[k] ELSE x.UNDEFINED

\* The links and the heads follow the lists R.
RowsFit(x, R) ==
  /\ \A h \in Rows(x) : HeadOf(x, h) = At(x, R[h], 1)
  /\ \A h \in Rows(x) : \A k \in 1 .. Len(R[h]) : x.next[R[h][k]] = At(x, R[h], k + 1)

\* Every slot is on one list, once.
RowsApart(x, R) ==
  /\ \A g, h \in Rows(x) : \A i \in 1 .. Len(R[g]), j \in 1 .. Len(R[h]) :
       R[g][i] = R[h][j] => g = h /\ i = j
  /\ \A v \in Table!Slots(x) : \E h \in Rows(x) : \E k \in 1 .. Len(R[h]) : R[h][k] = v

HasRows(x, R) ==
  TableShape(x) /\ R \in [Rows(x) -> Seq(Table!Slots(x))] /\ RowsFit(x, R) /\ RowsApart(x, R)

\* The function by which chains are computed.
IsTrack(x, g) == g = [v \in Links(x) |-> IF v = x.UNDEFINED THEN <<>> ELSE <<v>> \o g[x.next[v]]]

\* A chain is computed by such a function.
LEMMA ChainIsTrack ==
  ASSUME NEW x, NEW start
  PROVE  Table!Chain(x, start) = (CHOOSE g : IsTrack(x, g))[start]
BY Zenon DEF Table!Chain, IsTrack, Links

\* The rest of a list from some position on.
LEMMA RestOfRow ==
  ASSUME NEW S, NEW c \in Seq(S)
  PROVE  /\ \A k \in 1 .. Len(c) : SubSeq(c, k, Len(c)) = <<c[k]>> \o SubSeq(c, k + 1, Len(c))
         /\ SubSeq(c, Len(c) + 1, Len(c)) = <<>>
         /\ SubSeq(c, 1, Len(c)) = c
<1>1. \A k \in 1 .. Len(c) : SubSeq(c, k, Len(c)) = <<c[k]>> \o SubSeq(c, k + 1, Len(c))
  BY SubSeqRecursiveFirst
<1>2. SubSeq(c, Len(c) + 1, Len(c)) = <<>>
  <2>1. Len(c) \in Int /\ Len(c) + 1 \in Int /\ Len(c) < Len(c) + 1
    OBVIOUS
  <2> QED
    BY <2>1, SubSeqEmpty
<1>3. SubSeq(c, 1, Len(c)) = c
  BY SubSeqFull
<1> QED
  BY <1>1, <1>2, <1>3

\* The function exists when the links follow lists.
LEMMA TrackExists ==
  ASSUME NEW x, NEW R, HasRows(x, R)
  PROVE  \E g : IsTrack(x, g)
<1> DEFINE Place(v, h, k) == h \in Rows(x) /\ k \in 1 .. Len(R[h]) /\ R[h][k] = v
           row(v) == CHOOSE h : \E k : Place(v, h, k)
           pos(v) == CHOOSE k : Place(v, row(v), k)
           t == [v \in Links(x) |-> IF v = x.UNDEFINED THEN <<>>
                                    ELSE SubSeq(R[row(v)], pos(v), Len(R[row(v)]))]
<1>1. /\ R \in [Rows(x) -> Seq(Table!Slots(x))]
      /\ RowsFit(x, R) /\ RowsApart(x, R)
      /\ x.UNDEFINED \notin Table!Slots(x)
      /\ x.UNDEFINED \in Links(x) /\ Table!Slots(x) \subseteq Links(x)
  BY DEF HasRows, TableShape, Links
<1>2. \A v \in Table!Slots(x) : Place(v, row(v), pos(v))
  <2>1. \A v \in Table!Slots(x) : \E h, k : Place(v, h, k)
    BY <1>1 DEF RowsApart
  <2> HIDE DEF Place
  <2> QED
    BY <2>1
<1>3. ASSUME NEW h \in Rows(x), NEW k \in 1 .. Len(R[h])
      PROVE  /\ R[h][k] \in Table!Slots(x) /\ R[h][k] # x.UNDEFINED
             /\ row(R[h][k]) = h /\ pos(R[h][k]) = k
  <2>1. R[h][k] \in Table!Slots(x)
    BY <1>1
  <2>2. Place(R[h][k], row(R[h][k]), pos(R[h][k]))
    BY <1>2, <2>1
  <2> HIDE DEF row, pos
  <2>3. row(R[h][k]) = h /\ pos(R[h][k]) = k
    <3>1. PICK g, j : g = row(R[h][k]) /\ j = pos(R[h][k])
      OBVIOUS
    <3>2. g \in Rows(x) /\ j \in 1 .. Len(R[g]) /\ R[g][j] = R[h][k]
      BY <2>2, <3>1
    <3>3. g = h /\ j = k
      BY <1>1, <3>2 DEF RowsApart
    <3> QED
      BY <3>1, <3>3
  <2> QED
    BY <1>1, <2>1, <2>3
<1> HIDE DEF Place, row, pos
<1>4. ASSUME NEW v \in Links(x)
      PROVE  t[v] = IF v = x.UNDEFINED THEN <<>> ELSE <<v>> \o t[x.next[v]]
  <2>1. CASE v = x.UNDEFINED
    BY <2>1
  <2>2. CASE v # x.UNDEFINED
    <3>1. v \in Table!Slots(x)
      BY <2>2 DEF Links
    <3>2. PICK h, k : h = row(v) /\ k = pos(v)
      OBVIOUS
    <3>3. h \in Rows(x) /\ k \in 1 .. Len(R[h]) /\ R[h][k] = v
      BY <1>2, <3>1, <3>2 DEF Place
    <3>4. PICK c : c = R[h]
      OBVIOUS
    <3>5. c \in Seq(Table!Slots(x)) /\ Len(c) \in Nat /\ k \in 1 .. Len(c) /\ c[k] = v
      BY <1>1, <3>3, <3>4
    <3>6. t[v] = SubSeq(c, k, Len(c))
      BY <2>2, <3>2, <3>4
    <3>7. x.next[v] = At(x, c, k + 1)
      BY <1>1, <3>3, <3>4 DEF RowsFit
    <3>8. SubSeq(c, k, Len(c)) = <<v>> \o SubSeq(c, k + 1, Len(c))
      BY <3>5, RestOfRow
    <3>9. t[x.next[v]] = SubSeq(c, k + 1, Len(c))
      <4>1. CASE k < Len(c)
        <5>1. k + 1 \in 1 .. Len(c) /\ x.next[v] = c[k + 1]
          BY <3>5, <3>7, <4>1 DEF At
        <5>2. c[k + 1] \in Links(x)
          BY <1>1, <3>5, <5>1
        <5> QED
          BY <1>3, <3>3, <3>4, <5>1, <5>2
      <4>2. CASE k = Len(c)
        <5>1. x.next[v] = x.UNDEFINED
          BY <3>5, <3>7, <4>2 DEF At
        <5>2. SubSeq(c, k + 1, Len(c)) = <<>>
          BY <3>5, <4>2, RestOfRow
        <5> QED
          BY <1>1, <5>1, <5>2
      <4>3. k < Len(c) \/ k = Len(c)
        BY <3>5
      <4> HIDE DEF t
      <4> QED
        BY <4>1, <4>2, <4>3
    <3> HIDE DEF t
    <3> QED
      BY <2>2, <3>6, <3>8, <3>9
  <2> QED
    BY <2>1, <2>2
<1>5. t = [v \in Links(x) |-> t[v]]
  OBVIOUS
<1> HIDE DEF t
<1>6. [v \in Links(x) |-> t[v]]
        = [v \in Links(x) |-> IF v = x.UNDEFINED THEN <<>> ELSE <<v>> \o t[x.next[v]]]
  BY <1>4
<1> QED
  BY <1>5, <1>6, Zenon DEF IsTrack

\* Each list is found from its head.
LEMMA RowIs ==
  ASSUME NEW x, NEW R, HasRows(x, R), NEW h \in Rows(x)
  PROVE  Table!Chain(x, HeadOf(x, h)) = R[h]
<1> DEFINE g == CHOOSE f : IsTrack(x, f)
<1>1. IsTrack(x, g)
  BY TrackExists, Zenon
<1>2. Table!Chain(x, HeadOf(x, h)) = g[HeadOf(x, h)]
  BY ChainIsTrack
<1> HIDE DEF g
<1>3. PICK c : c = R[h]
  OBVIOUS
<1>4. /\ c \in Seq(Table!Slots(x)) /\ Len(c) \in Nat
      /\ HeadOf(x, h) = At(x, c, 1)
      /\ \A k \in 1 .. Len(c) : x.next[c[k]] = At(x, c, k + 1)
      /\ x.UNDEFINED \notin Table!Slots(x)
  BY <1>3 DEF HasRows, RowsFit, TableShape
<1>5. \A v \in Links(x) : g[v] = IF v = x.UNDEFINED THEN <<>> ELSE <<v>> \o g[x.next[v]]
  BY <1>1 DEF IsTrack
<1>6. g[x.UNDEFINED] = <<>>
  BY <1>5 DEF Links
<1> DEFINE X == {j \in Nat : j <= Len(c) =>
                   g[At(x, c, Len(c) + 1 - j)] = SubSeq(c, Len(c) + 1 - j, Len(c))}
<1>7. 0 \in X
  <2>1. Len(c) + 1 - 0 = Len(c) + 1 /\ ~(Len(c) + 1 <= Len(c))
    BY <1>4
  <2>2. At(x, c, Len(c) + 1 - 0) = x.UNDEFINED
    BY <2>1 DEF At
  <2>3. SubSeq(c, Len(c) + 1 - 0, Len(c)) = <<>>
    BY <1>4, <2>1, RestOfRow
  <2> QED
    BY <1>6, <2>2, <2>3
<1>8. ASSUME NEW j \in X PROVE j + 1 \in X
  <2>1. j \in Nat
    OBVIOUS
  <2> SUFFICES ASSUME j + 1 <= Len(c)
               PROVE  g[At(x, c, Len(c) + 1 - (j + 1))] = SubSeq(c, Len(c) + 1 - (j + 1), Len(c))
    BY <2>1
  <2>2. PICK k : k = Len(c) + 1 - (j + 1)
    OBVIOUS
  <2>3. k \in 1 .. Len(c) /\ k + 1 = Len(c) + 1 - j /\ j <= Len(c) /\ k <= Len(c)
    BY <1>4, <2>1, <2>2
  <2>4. g[At(x, c, k + 1)] = SubSeq(c, k + 1, Len(c))
    <3>1. g[At(x, c, Len(c) + 1 - j)] = SubSeq(c, Len(c) + 1 - j, Len(c))
      BY <2>3
    <3> QED
      BY ONLY <2>3, <3>1
  <2>5. At(x, c, k) = c[k] /\ c[k] \in Table!Slots(x) /\ x.next[c[k]] = At(x, c, k + 1)
    BY <1>4, <2>3 DEF At
  <2>6. g[c[k]] = <<c[k]>> \o g[x.next[c[k]]]
    BY <1>4, <1>5, <2>5 DEF Links
  <2>7. SubSeq(c, k, Len(c)) = <<c[k]>> \o SubSeq(c, k + 1, Len(c))
    BY <1>4, <2>3, RestOfRow
  <2> QED
    BY ONLY <2>2, <2>4, <2>5, <2>6, <2>7
<1>9. X = Nat
  <2>1. X \in SUBSET Nat
    OBVIOUS
  <2> HIDE DEF X
  <2> QED
    BY <1>7, <1>8, <2>1, AllNumbers
<1>10. Len(c) + 1 - Len(c) = 1 /\ Len(c) \in X /\ Len(c) <= Len(c)
  <2> HIDE DEF X
  <2> QED
    BY <1>4, <1>9
<1>11. g[At(x, c, 1)] = SubSeq(c, 1, Len(c))
  <2>1. g[At(x, c, Len(c) + 1 - Len(c))] = SubSeq(c, Len(c) + 1 - Len(c), Len(c))
    BY <1>10
  <2> QED
    BY ONLY <1>10, <2>1
<1> QED
  BY <1>2, <1>3, <1>4, <1>11, RestOfRow

\* The lists after the item at position i of list a has moved to the front of list b.
Moved(R, a, i, b) ==
  [R EXCEPT ![a] = [k \in 1 .. Len(R[a]) - 1 |-> IF k < i THEN R[a][k] ELSE R[a][k + 1]],
            ![b] = [k \in 1 .. Len(R[b]) + 1 |-> IF k = 1 THEN R[a][i] ELSE R[b][k - 1]]]

\* A position that is left out is skipped.
Past(i, k) == IF k < i THEN k ELSE k + 1

\* M is R after that.
IsMoved(x, R, a, i, b, M) ==
  /\ R \in [Rows(x) -> Seq(Table!Slots(x))] /\ M \in [Rows(x) -> Seq(Table!Slots(x))]
  /\ a \in Rows(x) /\ b \in Rows(x) /\ a # b /\ i \in 1 .. Len(R[a])
  /\ Len(M[a]) = Len(R[a]) - 1 /\ \A k \in 1 .. Len(R[a]) - 1 : M[a][k] = R[a][Past(i, k)]
  /\ Len(M[b]) = Len(R[b]) + 1 /\ M[b][1] = R[a][i] /\ \A k \in 1 .. Len(R[b]) : M[b][k + 1] = R[b][k]
  /\ \A h \in Rows(x) \ {a, b} : M[h] = R[h]

\* Moved() does so.
LEMMA MovedIs ==
  ASSUME NEW x, NEW R \in [Rows(x) -> Seq(Table!Slots(x))], NEW a \in Rows(x), NEW b \in Rows(x),
         a # b, NEW i \in 1 .. Len(R[a])
  PROVE  IsMoved(x, R, a, i, b, Moved(R, a, i, b))
<1>1. PICK S : S = Table!Slots(x)
  OBVIOUS
<1>2. PICK c \in Seq(S), d \in Seq(S) : c = R[a] /\ d = R[b]
  BY <1>1
<1>3. /\ Len(c) \in Nat /\ Len(d) \in Nat /\ i \in 1 .. Len(c)
      /\ c \in [1 .. Len(c) -> S] /\ d \in [1 .. Len(d) -> S]
  BY <1>2
<1>4. PICK e : e = [k \in 1 .. Len(c) - 1 |-> IF k < i THEN c[k] ELSE c[k + 1]]
  OBVIOUS
<1>5. PICK f : f = [k \in 1 .. Len(d) + 1 |-> IF k = 1 THEN c[i] ELSE d[k - 1]]
  OBVIOUS
<1>6. e \in Seq(S) /\ Len(e) = Len(c) - 1 /\ \A k \in 1 .. Len(c) - 1 : e[k] = c[Past(i, k)]
  <2>0. Len(c) - 1 \in Nat
    BY <1>3
  <2>1. PICK m \in Nat : m = Len(c) - 1
    BY ONLY <2>0
  <2>2. \A k \in 1 .. m : (IF k < i THEN c[k] ELSE c[k + 1]) \in S
    BY <1>3, <2>1
  <2>3. e \in [1 .. m -> S]
    BY <1>4, <2>1, <2>2
  <2>4. e \in Seq(S) /\ Len(e) = m
    BY <2>3
  <2> QED
    BY <1>4, <2>1, <2>4 DEF Past
<1>7. f \in Seq(S) /\ Len(f) = Len(d) + 1 /\ f[1] = c[i] /\ \A k \in 1 .. Len(d) : f[k + 1] = d[k]
  <2>1. PICK m \in Nat : m = Len(d) + 1
    BY <1>3
  <2>2. \A k \in 1 .. m : (IF k = 1 THEN c[i] ELSE d[k - 1]) \in S
    BY <1>3, <2>1
  <2>3. f \in [1 .. m -> S]
    BY <1>5, <2>1, <2>2
  <2>4. f \in Seq(S) /\ Len(f) = m
    BY <2>3
  <2>5. 1 \in 1 .. m /\ f[1] = c[i]
    BY <1>3, <1>5, <2>1
  <2>6. ASSUME NEW k \in 1 .. Len(d) PROVE f[k + 1] = d[k]
    <3>1. k + 1 \in 1 .. Len(d) + 1 /\ k + 1 # 1 /\ (k + 1) - 1 = k
      BY <1>3
    <3> QED
      BY <1>5, <3>1
  <2> QED
    BY <2>1, <2>4, <2>5, <2>6
<1>8. Moved(R, a, i, b) = [R EXCEPT ![a] = e, ![b] = f]
  BY <1>2, <1>4, <1>5 DEF Moved
<1>9. PICK M : M = [R EXCEPT ![a] = e, ![b] = f]
  OBVIOUS
<1>10. /\ M[a] = e /\ M[b] = f /\ M \in [Rows(x) -> Seq(S)]
       /\ \A h \in Rows(x) \ {a, b} : M[h] = R[h]
  BY <1>1, <1>6, <1>7, <1>9
<1>11. IsMoved(x, R, a, i, b, M)
  BY <1>1, <1>2, <1>3, <1>6, <1>7, <1>10 DEF IsMoved
<1> QED
  BY <1>8, <1>9, <1>11

\* Where the item at position k of list h has been.
Origin(a, i, b, h, k) ==
  IF h = a THEN <<a, Past(i, k)>>
  ELSE IF h = b THEN IF k = 1 THEN <<a, i>> ELSE <<b, k - 1>>
  ELSE <<h, k>>

HasOrigin(x, R, a, i, b, M, h, k) ==
  LET o == Origin(a, i, b, h, k)
  IN  o[1] \in Rows(x) /\ o[2] \in 1 .. Len(R[o[1]]) /\ M[h][k] = R[o[1]][o[2]]

\* Every item has been at its origin.
LEMMA ItemsHaveOrigins ==
  ASSUME NEW x, NEW R, NEW a, NEW i, NEW b, NEW M, IsMoved(x, R, a, i, b, M)
  PROVE  \A h \in Rows(x) : \A k \in 1 .. Len(M[h]) : HasOrigin(x, R, a, i, b, M, h, k)
<1> SUFFICES ASSUME NEW h \in Rows(x), NEW k \in 1 .. Len(M[h])
             PROVE  HasOrigin(x, R, a, i, b, M, h, k)
  OBVIOUS
<1>0. Len(R[a]) \in Nat /\ Len(R[b]) \in Nat
  BY DEF IsMoved
<1>1. PICK c, d \in Nat : c = Len(R[a]) /\ d = Len(R[b])
  BY <1>0
<1>2. CASE h = a
  <2>1. k \in 1 .. c - 1 /\ i \in 1 .. c
    BY <1>1, <1>2 DEF IsMoved
  <2>2. Past(i, k) \in 1 .. c /\ M[a][k] = R[a][Past(i, k)]
    BY <1>1, <2>1 DEF IsMoved, Past
  <2> QED
    BY <1>1, <1>2, <2>2 DEF HasOrigin, Origin
<1>3. CASE h = b /\ k = 1
  BY <1>3 DEF HasOrigin, Origin, IsMoved
<1>4. CASE h = b /\ k # 1
  <2>1. k \in 1 .. d + 1
    BY <1>1, <1>4 DEF IsMoved
  <2>2. k - 1 \in 1 .. d /\ (k - 1) + 1 = k
    BY <1>1, <1>4, <2>1
  <2>3. M[b][k] = R[b][k - 1]
    BY <1>1, <2>2 DEF IsMoved
  <2> QED
    BY <1>1, <1>4, <2>2, <2>3 DEF HasOrigin, Origin, IsMoved
<1>5. CASE h # a /\ h # b
  BY <1>5 DEF HasOrigin, Origin, IsMoved
<1> QED
  BY <1>2, <1>3, <1>4, <1>5

\* Every slot is still on one list, once.
LEMMA MovedApart ==
  ASSUME NEW x, NEW R, NEW a, NEW i, NEW b, NEW M, IsMoved(x, R, a, i, b, M), RowsApart(x, R)
  PROVE  RowsApart(x, M)
<1>1. /\ R \in [Rows(x) -> Seq(Table!Slots(x))] /\ M \in [Rows(x) -> Seq(Table!Slots(x))]
      /\ a \in Rows(x) /\ b \in Rows(x) /\ a # b /\ i \in 1 .. Len(R[a])
      /\ Len(M[a]) = Len(R[a]) - 1 /\ \A k \in 1 .. Len(R[a]) - 1 : M[a][k] = R[a][Past(i, k)]
      /\ Len(M[b]) = Len(R[b]) + 1 /\ M[b][1] = R[a][i] /\ \A k \in 1 .. Len(R[b]) : M[b][k + 1] = R[b][k]
      /\ \A h \in Rows(x) \ {a, b} : M[h] = R[h]
  BY DEF IsMoved
<1>2. \A h \in Rows(x) : \A k \in 1 .. Len(M[h]) : HasOrigin(x, R, a, i, b, M, h, k)
  BY ItemsHaveOrigins
<1>3. ASSUME NEW g \in Rows(x), NEW h \in Rows(x), NEW j \in 1 .. Len(M[g]), NEW k \in 1 .. Len(M[h]),
             M[g][j] = M[h][k]
      PROVE  g = h /\ j = k
  <2>1. PICK o, p : o = Origin(a, i, b, g, j) /\ p = Origin(a, i, b, h, k)
    OBVIOUS
  <2>2. /\ o[1] \in Rows(x) /\ o[2] \in 1 .. Len(R[o[1]]) /\ M[g][j] = R[o[1]][o[2]]
        /\ p[1] \in Rows(x) /\ p[2] \in 1 .. Len(R[p[1]]) /\ M[h][k] = R[p[1]][p[2]]
    BY <1>2, <2>1 DEF HasOrigin
  <2>3. o[1] = p[1] /\ o[2] = p[2]
    <3>1. PICK e, s, f, t : e = o[1] /\ s = o[2] /\ f = p[1] /\ t = p[2]
      OBVIOUS
    <3>2. /\ e \in Rows(x) /\ s \in 1 .. Len(R[e]) /\ f \in Rows(x) /\ t \in 1 .. Len(R[f])
          /\ R[e][s] = R[f][t]
      BY <1>3, <2>2, <3>1
    <3>3. e = f /\ s = t
      BY <3>2 DEF RowsApart
    <3> QED
      BY ONLY <3>1, <3>3
  <2>4. i \in Nat /\ j \in Nat /\ k \in Nat
    BY <1>1
  <2>5. g = h
    BY <1>1, <2>1, <2>3, <2>4 DEF Origin, Past
  <2>6. j = k
    BY <1>1, <2>1, <2>3, <2>4, <2>5 DEF Origin, Past
  <2> QED
    BY <2>5, <2>6
<1>4. ASSUME NEW v \in Table!Slots(x)
      PROVE  \E h \in Rows(x) : \E k \in 1 .. Len(M[h]) : M[h][k] = v
  <2>1. PICK h \in Rows(x) : \E k \in 1 .. Len(R[h]) : R[h][k] = v
    BY DEF RowsApart
  <2>2. PICK k \in 1 .. Len(R[h]) : R[h][k] = v
    BY <2>1
  <2>3. PICK c, d \in Nat : c = Len(R[a]) /\ d = Len(R[b])
    BY <1>1
  <2>4. CASE h # a /\ h # b
    BY <1>1, <2>2, <2>4
  <2>5. CASE h = b
    <3>1. k + 1 \in 1 .. Len(M[b]) /\ M[b][k + 1] = v
      BY <1>1, <2>2, <2>3, <2>5
    <3> QED
      BY <1>1, <3>1
  <2>6. CASE h = a /\ k = i
    <3>1. 1 \in 1 .. Len(M[b]) /\ M[b][1] = v
      BY <1>1, <2>2, <2>3, <2>6
    <3> QED
      BY <1>1, <3>1
  <2>7. CASE h = a /\ k < i
    <3>1. k \in 1 .. c - 1 /\ Past(i, k) = k
      BY <1>1, <2>2, <2>3, <2>7 DEF Past
    <3>2. k \in 1 .. Len(M[a]) /\ M[a][k] = v
      BY <1>1, <2>2, <2>3, <2>7, <3>1
    <3> QED
      BY <1>1, <3>2
  <2>8. CASE h = a /\ k > i
    <3>1. k - 1 \in 1 .. c - 1 /\ Past(i, k - 1) = k
      BY <1>1, <2>2, <2>3, <2>8 DEF Past
    <3>2. k - 1 \in 1 .. Len(M[a]) /\ M[a][k - 1] = v
      BY <1>1, <2>2, <2>3, <2>8, <3>1
    <3> QED
      BY <1>1, <3>2
  <2>9. h = a => k = i \/ k < i \/ k > i
    BY <1>1, <2>2
  <2> QED
    BY <2>4, <2>5, <2>6, <2>7, <2>8, <2>9
<1> QED
  BY <1>3, <1>4 DEF RowsApart

\* What follows in the lists, and behind their ends.
LEMMA MovedAt ==
  ASSUME NEW x, NEW R, NEW a, NEW i, NEW b, NEW M, IsMoved(x, R, a, i, b, M),
         NEW y, y.UNDEFINED = x.UNDEFINED
  PROVE  /\ \A k \in 1 .. Len(R[a]) : At(y, M[a], k) = At(x, R[a], Past(i, k))
         /\ \A k \in 1 .. Len(R[b]) + 1 : At(y, M[b], k + 1) = At(x, R[b], k)
         /\ \A h \in Rows(x) \ {a, b} : \A k : At(y, M[h], k) = At(x, R[h], k)
<1>0. Len(R[a]) \in Nat /\ Len(R[b]) \in Nat
  BY DEF IsMoved
<1>1. PICK c, d \in Nat : c = Len(R[a]) /\ d = Len(R[b])
  BY <1>0
<1>2. ASSUME NEW k \in 1 .. Len(R[a]) PROVE At(y, M[a], k) = At(x, R[a], Past(i, k))
  <2>1. k \in 1 .. c /\ i \in 1 .. c /\ Len(M[a]) = c - 1
    BY <1>1 DEF IsMoved
  <2>2. CASE k < c
    <3>1. k <= Len(M[a]) /\ Past(i, k) <= Len(R[a]) /\ k \in 1 .. Len(R[a]) - 1
      BY <1>1, <2>1, <2>2 DEF Past
    <3>2. M[a][k] = R[a][Past(i, k)]
      BY <3>1 DEF IsMoved
    <3> QED
      BY <3>1, <3>2 DEF At
  <2>3. CASE k = c
    <3>1. ~(k <= Len(M[a])) /\ ~(Past(i, k) <= Len(R[a]))
      BY <1>1, <2>1, <2>3 DEF Past
    <3> QED
      BY <3>1 DEF At
  <2> QED
    BY <2>1, <2>2, <2>3
<1>3. ASSUME NEW k \in 1 .. Len(R[b]) + 1 PROVE At(y, M[b], k + 1) = At(x, R[b], k)
  <2>1. k \in 1 .. d + 1 /\ Len(M[b]) = d + 1
    BY <1>1 DEF IsMoved
  <2>2. CASE k <= d
    <3>1. k + 1 <= Len(M[b]) /\ k <= Len(R[b]) /\ M[b][k + 1] = R[b][k]
      BY <1>1, <2>1, <2>2 DEF IsMoved
    <3> QED
      BY <3>1 DEF At
  <2>3. CASE ~(k <= d)
    <3>1. ~(k + 1 <= Len(M[b])) /\ ~(k <= Len(R[b]))
      BY <1>1, <2>1, <2>3
    <3> QED
      BY <3>1 DEF At
  <2> QED
    BY <2>2, <2>3
<1>4. \A h \in Rows(x) \ {a, b} : \A k : At(y, M[h], k) = At(x, R[h], k)
  BY DEF At, IsMoved
<1> QED
  BY <1>2, <1>3, <1>4

\* The links of y are those of x after the move.
MovedLinks(x, R, a, i, b, y) ==
  /\ TableShape(y) /\ y.nMax = x.nMax /\ y.nHash = x.nHash /\ y.UNDEFINED = x.UNDEFINED
  /\ HeadOf(y, b) = R[a][i]
  /\ HeadOf(y, a) = IF i = 1 THEN x.next[R[a][i]] ELSE HeadOf(x, a)
  /\ \A h \in Rows(x) \ {a, b} : HeadOf(y, h) = HeadOf(x, h)
  /\ y.next[R[a][i]] = HeadOf(x, b)
  /\ \A u \in Table!Slots(x) \ {R[a][i]} :
       y.next[u] = IF i # 1 /\ u = R[a][i - 1] THEN x.next[R[a][i]] ELSE x.next[u]

\* To move a slot from list to list keeps them.
LEMMA MovedHasRows ==
  ASSUME NEW x, NEW R, HasRows(x, R), NEW a \in Rows(x), NEW b \in Rows(x), a # b,
         NEW i \in 1 .. Len(R[a]), NEW y, MovedLinks(x, R, a, i, b, y)
  PROVE  HasRows(y, Moved(R, a, i, b))
<1>1. PICK M : M = Moved(R, a, i, b)
  OBVIOUS
<1>2. PICK v : v = R[a][i]
  OBVIOUS
<1>3. /\ R \in [Rows(x) -> Seq(Table!Slots(x))]
      /\ RowsFit(x, R) /\ RowsApart(x, R)
  BY DEF HasRows
<1>4. IsMoved(x, R, a, i, b, M)
  BY <1>1, <1>3, MovedIs
<1>5. /\ M \in [Rows(x) -> Seq(Table!Slots(x))]
      /\ Len(M[a]) = Len(R[a]) - 1 /\ \A k \in 1 .. Len(R[a]) - 1 : M[a][k] = R[a][Past(i, k)]
      /\ Len(M[b]) = Len(R[b]) + 1 /\ M[b][1] = v /\ \A k \in 1 .. Len(R[b]) : M[b][k + 1] = R[b][k]
      /\ \A h \in Rows(x) \ {a, b} : M[h] = R[h]
  BY <1>2, <1>4 DEF IsMoved
<1>6. /\ TableShape(y) /\ y.nMax = x.nMax /\ y.nHash = x.nHash /\ y.UNDEFINED = x.UNDEFINED
      /\ HeadOf(y, b) = v
      /\ HeadOf(y, a) = IF i = 1 THEN x.next[v] ELSE HeadOf(x, a)
      /\ \A h \in Rows(x) \ {a, b} : HeadOf(y, h) = HeadOf(x, h)
      /\ y.next[v] = HeadOf(x, b)
      /\ \A u \in Table!Slots(x) \ {v} :
           y.next[u] = IF i # 1 /\ u = R[a][i - 1] THEN x.next[v] ELSE x.next[u]
  BY <1>2 DEF MovedLinks
<1>7. Rows(y) = Rows(x) /\ Table!Slots(y) = Table!Slots(x)
  BY <1>6 DEF Rows, Table!Slots
<1>8. /\ \A k \in 1 .. Len(R[a]) : At(y, M[a], k) = At(x, R[a], Past(i, k))
      /\ \A k \in 1 .. Len(R[b]) + 1 : At(y, M[b], k + 1) = At(x, R[b], k)
      /\ \A h \in Rows(x) \ {a, b} : \A k : At(y, M[h], k) = At(x, R[h], k)
  BY <1>4, <1>6, MovedAt
<1>9. PICK c, d \in Nat : c = Len(R[a]) /\ d = Len(R[b])
  BY <1>3
<1>10. /\ \A h \in Rows(x) : HeadOf(x, h) = At(x, R[h], 1)
       /\ \A h \in Rows(x) : \A k \in 1 .. Len(R[h]) :
            x.next[R[h][k]] = At(x, R[h], k + 1) /\ R[h][k] \in Table!Slots(x)
       /\ \A g, h \in Rows(x) : \A j \in 1 .. Len(R[g]), k \in 1 .. Len(R[h]) :
            R[g][j] = R[h][k] => g = h /\ j = k
  <2>1. \A h \in Rows(x) : \A k \in 1 .. Len(R[h]) : R[h][k] \in Table!Slots(x)
    BY <1>3
  <2>2. \A g, h \in Rows(x) : \A j \in 1 .. Len(R[g]), k \in 1 .. Len(R[h]) :
          R[g][j] = R[h][k] => g = h /\ j = k
    BY <1>3 DEF RowsApart
  <2> QED
    BY <1>3, <2>1, <2>2 DEF RowsFit
<1>11. ASSUME NEW h \in Rows(x) PROVE HeadOf(y, h) = At(y, M[h], 1)
  <2>1. CASE h = b
    <3>1. 1 <= Len(M[b])
      BY <1>5, <1>9
    <3> QED
      BY <1>5, <1>6, <2>1, <3>1 DEF At
  <2>2. CASE h = a /\ i = 1
    <3>1. 1 \in 1 .. Len(R[a]) /\ Past(i, 1) = 1 + 1
      BY <1>9, <2>2 DEF Past
    <3>2. x.next[v] = At(x, R[a], 1 + 1)
      BY <1>2, <1>10, <2>2
    <3> QED
      BY <1>6, <1>8, <2>2, <3>1, <3>2
  <2>3. CASE h = a /\ i # 1
    <3>1. 1 \in 1 .. Len(R[a]) /\ Past(i, 1) = 1
      BY <1>9, <2>3 DEF Past
    <3> QED
      BY <1>6, <1>8, <1>10, <2>3, <3>1
  <2>4. CASE h # a /\ h # b
    <3>1. M[h] = R[h] /\ HeadOf(y, h) = HeadOf(x, h) /\ HeadOf(x, h) = At(x, R[h], 1)
      BY <1>5, <1>6, <1>10, <2>4
    <3> QED
      BY <1>6, <3>1 DEF At
  <2> QED
    BY <2>1, <2>2, <2>3, <2>4
<1>12. ASSUME NEW h \in Rows(x), NEW k \in 1 .. Len(M[h]) PROVE y.next[M[h][k]] = At(y, M[h], k + 1)
  <2>1. CASE h = b /\ k = 1
    <3>1. 1 \in 1 .. Len(R[b]) + 1
      BY <1>9
    <3>2. At(y, M[b], 1 + 1) = At(x, R[b], 1)
      BY <1>8, <3>1
    <3> QED
      BY <1>5, <1>6, <1>10, <2>1, <3>2
  <2>2. CASE h = b /\ k # 1
    <3>1. PICK j : j = k - 1
      OBVIOUS
    <3>2. j \in 1 .. Len(R[b]) /\ j + 1 = k /\ j + 1 \in 1 .. Len(R[b]) + 1
      BY <1>5, <1>9, <2>2, <3>1
    <3>3. M[b][k] = R[b][j]
      BY <1>5, <3>2
    <3>4. R[b][j] # v
      BY <1>2, <1>10, <3>2
    <3>5. i # 1 => R[b][j] # R[a][i - 1]
      <4>1. i # 1 => i - 1 \in 1 .. Len(R[a])
        BY <1>9
      <4> QED
        BY <1>10, <3>2, <4>1
    <3>6. y.next[R[b][j]] = x.next[R[b][j]]
      BY <1>6, <1>10, <3>2, <3>4, <3>5
    <3>7. At(y, M[b], (j + 1) + 1) = At(x, R[b], j + 1)
      BY <1>8, <3>2
    <3> QED
      BY <1>10, <2>2, <3>2, <3>3, <3>6, <3>7
  <2>3. CASE h = a
    <3>1. PICK j : j = Past(i, k)
      OBVIOUS
    <3>2. /\ j \in 1 .. c /\ j # i /\ k \in 1 .. c - 1 /\ k + 1 \in 1 .. c /\ i \in 1 .. c
      BY <1>5, <1>9, <2>3, <3>1 DEF Past
    <3>3. M[a][k] = R[a][j]
      BY <1>5, <1>9, <3>1, <3>2
    <3>4. R[a][j] # v
      BY <1>2, <1>9, <1>10, <3>2
    <3>5. At(y, M[a], k + 1) = At(x, R[a], Past(i, k + 1))
      BY <1>8, <1>9, <3>2
    <3>6. CASE k + 1 = i
      <4>1. j = i - 1 /\ i # 1 /\ Past(i, k + 1) = i + 1
        BY <3>1, <3>2, <3>6 DEF Past
      <4>2. y.next[R[a][j]] = x.next[v]
        BY <1>6, <1>9, <1>10, <3>2, <3>4, <4>1
      <4>3. x.next[v] = At(x, R[a], i + 1)
        BY <1>2, <1>10
      <4> QED
        BY <2>3, <3>3, <3>5, <4>1, <4>2, <4>3
    <3>7. CASE k + 1 # i
      <4>1. Past(i, k + 1) = j + 1 /\ j # i - 1
        BY <3>1, <3>2, <3>7 DEF Past
      <4>2. i # 1 => R[a][j] # R[a][i - 1]
        <5>1. i # 1 => i - 1 \in 1 .. Len(R[a])
          BY <1>9
        <5> QED
          BY <1>9, <1>10, <3>2, <4>1, <5>1
      <4>3. y.next[R[a][j]] = x.next[R[a][j]]
        BY <1>6, <1>9, <1>10, <3>2, <3>4, <4>2
      <4>4. x.next[R[a][j]] = At(x, R[a], j + 1)
        BY <1>9, <1>10, <3>2
      <4> QED
        BY <2>3, <3>3, <3>5, <4>1, <4>3, <4>4
    <3> QED
      BY <3>6, <3>7
  <2>4. CASE h # a /\ h # b
    <3>1. M[h] = R[h] /\ k \in 1 .. Len(R[h])
      BY <1>5, <2>4
    <3>2. R[h][k] # v
      BY <1>2, <1>10, <2>4, <3>1
    <3>3. i # 1 => R[h][k] # R[a][i - 1]
      <4>1. i # 1 => i - 1 \in 1 .. Len(R[a])
        BY <1>9
      <4> QED
        BY <1>10, <2>4, <3>1, <4>1
    <3>4. y.next[R[h][k]] = x.next[R[h][k]]
      BY <1>6, <1>10, <3>1, <3>2, <3>3
    <3> QED
      BY <1>6, <1>10, <3>1, <3>4 DEF At
  <2> QED
    BY <2>1, <2>2, <2>3, <2>4
<1>13. RowsFit(y, M)
  BY <1>7, <1>11, <1>12 DEF RowsFit
<1>14. RowsApart(y, M)
  <2>1. RowsApart(x, M)
    BY <1>3, <1>4, MovedApart
  <2> QED
    BY <1>7, <2>1 DEF RowsApart
<1> QED
  BY <1>1, <1>5, <1>6, <1>7, <1>13, <1>14 DEF HasRows

\* The items of a list.
ItemsOf(c) == {c[k] : k \in 1 .. Len(c)}

\* The slots with an entry.
Used(x, R) == Table!Slots(x) \ ItemsOf(R[x.nHash])

\* What the table holds.
Pairs(x, R) == {<<x.index[v], x.key[v]>> : v \in Used(x, R)}

\* The entries are in the chains of their hash values, and there is at most one for an item.
Filled(x, R) ==
  /\ \A v \in Used(x, R) : x.index[v] \in Tokens /\ x.key[v] # defaultKey
  /\ \A h \in 0 .. x.nHash - 1 : \A u \in ItemsOf(R[h]) : Table!Bucket(x, x.index[u]) = h
  /\ \A u, v \in Used(x, R) : x.index[u] = x.index[v] => u = v
  /\ x.nz = Cardinality(Used(x, R))

HoldsEntries(x, R) == HasRows(x, R) /\ Filled(x, R)

\* A hash value is that of a chain.
LEMMA BucketType ==
  ASSUME NEW x, x.nHash \in Nat \ {0}, NEW w \in Tokens
  PROVE  Table!Bucket(x, w) \in 0 .. x.nHash - 1
<1>1. w \in Nat
  BY TokenValues
<1>2. \A d \in Nat \ {0} : w % d \in 0 .. d - 1
  BY <1>1
<1> QED
  BY <1>2 DEF Table!Bucket

\* A slot has an entry if it is in a chain.
LEMMA UsedAre ==
  ASSUME NEW x, NEW R, HasRows(x, R), NEW v
  PROVE  v \in Used(x, R) <=> \E h \in 0 .. x.nHash - 1 : v \in ItemsOf(R[h])
<1>1. /\ R \in [Rows(x) -> Seq(Table!Slots(x))] /\ RowsApart(x, R) /\ x.nHash \in Nat
  BY DEF HasRows, TableShape
<1>2. x.nHash \in Rows(x) /\ \A h \in 0 .. x.nHash - 1 : h \in Rows(x) /\ h # x.nHash
  BY <1>1 DEF Rows
<1>3. \A h \in Rows(x) : h # x.nHash => h \in 0 .. x.nHash - 1
  BY <1>1 DEF Rows
<1>4. \A h \in Rows(x) : \A k \in 1 .. Len(R[h]) : R[h][k] \in Table!Slots(x)
  BY <1>1
<1>5. ASSUME v \in Used(x, R) PROVE \E h \in 0 .. x.nHash - 1 : v \in ItemsOf(R[h])
  <2>1. PICK h \in Rows(x) : \E k \in 1 .. Len(R[h]) : R[h][k] = v
    BY <1>1, <1>5 DEF Used, RowsApart
  <2>2. v \in ItemsOf(R[h])
    BY <2>1 DEF ItemsOf
  <2> QED
    BY <1>3, <1>5, <2>2 DEF Used
<1>6. ASSUME NEW h \in 0 .. x.nHash - 1, v \in ItemsOf(R[h]) PROVE v \in Used(x, R)
  <2>1. PICK k \in 1 .. Len(R[h]) : R[h][k] = v
    BY <1>6 DEF ItemsOf
  <2>2. v \notin ItemsOf(R[x.nHash])
    BY <1>1, <1>2, <2>1 DEF ItemsOf, RowsApart
  <2> QED
    BY <1>2, <1>4, <2>1, <2>2 DEF Used
<1> QED
  BY <1>5, <1>6

\* A slot is in one list only.
LEMMA OneRow ==
  ASSUME NEW x, NEW R, HasRows(x, R), NEW g \in Rows(x), NEW h \in Rows(x), NEW v \in ItemsOf(R[g]),
         v \in ItemsOf(R[h])
  PROVE  g = h
<1>1. PICK j \in 1 .. Len(R[g]) : R[g][j] = v
  BY DEF ItemsOf
<1>2. PICK k \in 1 .. Len(R[h]) : R[h][k] = v
  BY DEF ItemsOf
<1>3. RowsApart(x, R)
  BY DEF HasRows
<1> QED
  BY <1>1, <1>2, <1>3 DEF RowsApart

\* The number of slots is finite.
LEMMA UsedFinite ==
  ASSUME NEW x, x.nMax \in Nat, NEW R
  PROVE  /\ IsFiniteSet(Table!Slots(x)) /\ Cardinality(Table!Slots(x)) = x.nMax
         /\ IsFiniteSet(Used(x, R)) /\ Cardinality(Used(x, R)) \in Nat
         /\ Cardinality(Used(x, R)) <= x.nMax
<1>1. 0 \in Int /\ x.nMax - 1 \in Int
  OBVIOUS
<1>2. /\ IsFiniteSet(0 .. x.nMax - 1)
      /\ Cardinality(0 .. x.nMax - 1) = IF 0 > x.nMax - 1 THEN 0 ELSE (x.nMax - 1) - 0 + 1
  BY ONLY <1>1, FS_Interval
<1>3. IsFiniteSet(Table!Slots(x)) /\ Cardinality(Table!Slots(x)) = x.nMax
  BY <1>2 DEF Table!Slots
<1>4. Used(x, R) \in SUBSET Table!Slots(x)
  BY DEF Used
<1>5. IsFiniteSet(Used(x, R)) /\ Cardinality(Used(x, R)) <= Cardinality(Table!Slots(x))
  BY <1>3, <1>4, FS_Subset
<1>6. Cardinality(Used(x, R)) \in Nat
  BY <1>5, FS_CardinalityType
<1> QED
  BY <1>3, <1>5, <1>6

\* What the search for an item finds.
IsFound(x, R, w, v) ==
  \/ v = x.UNDEFINED /\ \A u \in Used(x, R) : x.index[u] # w
  \/ v \in Used(x, R) /\ x.index[v] = w

\* A search ends at the slot of the item, if it has one.
LEMMA FoundIs ==
  ASSUME NEW x, NEW R, HoldsEntries(x, R), NEW w \in Tokens
  PROVE  IsFound(x, R, w, Table!Found(x, w))
<1>1. /\ R \in [Rows(x) -> Seq(Table!Slots(x))] /\ RowsApart(x, R) /\ x.nHash \in Nat \ {0}
      /\ HasRows(x, R)
  BY DEF HoldsEntries, HasRows, TableShape
<1>2. /\ \A h \in 0 .. x.nHash - 1 : \A u \in ItemsOf(R[h]) : Table!Bucket(x, x.index[u]) = h
      /\ \A u, v \in Used(x, R) : x.index[u] = x.index[v] => u = v
  BY DEF HoldsEntries, Filled
<1>3. PICK b \in 0 .. x.nHash - 1 : b = Table!Bucket(x, w)
  BY <1>1, BucketType
<1>4. b \in Rows(x) /\ b # x.nHash /\ HeadOf(x, b) = x.first[b]
  BY <1>1 DEF Rows, HeadOf
<1>5. PICK c \in Seq(Table!Slots(x)) : c = R[b]
  BY <1>1, <1>4
<1>6. Table!Chain(x, x.first[b]) = c
  BY <1>1, <1>4, <1>5, RowIs
<1>7. \A k \in 1 .. Len(c) : c[k] \in Used(x, R)
  <2>1. \A k \in 1 .. Len(c) : c[k] \in ItemsOf(R[b])
    BY <1>5 DEF ItemsOf
  <2> QED
    BY <1>1, <2>1, UsedAre
<1>8. PICK at : at = {i \in DOMAIN c : x.index[c[i]] = w}
  OBVIOUS
<1>9. Table!Found(x, w) = IF at = {} THEN x.UNDEFINED ELSE c[CHOOSE i \in at : \A j \in at : i <= j]
  BY <1>3, <1>6, <1>8 DEF Table!Found
<1>10. at = {i \in 1 .. Len(c) : x.index[c[i]] = w}
  BY <1>5, <1>8
<1>11. CASE at = {}
  <2>1. ASSUME NEW u \in Used(x, R), x.index[u] = w PROVE FALSE
    <3>1. PICK h \in 0 .. x.nHash - 1 : u \in ItemsOf(R[h])
      BY <1>1, UsedAre
    <3>2. PICK k \in 1 .. Len(R[h]) : R[h][k] = u
      BY <3>1 DEF ItemsOf
    <3>3. h = b
      BY <1>2, <1>3, <2>1, <3>1
    <3> QED
      BY <1>5, <1>10, <1>11, <2>1, <3>2, <3>3
  <2> QED
    BY <1>9, <1>11, <2>1 DEF IsFound
<1>12. CASE at # {}
  <2>1. PICK i \in at : TRUE
    BY <1>12
  <2>2. \A j \in at : j = i
    <3>1. \A j, k \in 1 .. Len(c) : c[j] = c[k] => j = k
      <4>1. \A j, k \in 1 .. Len(R[b]) : R[b][j] = R[b][k] => b = b /\ j = k
        BY <1>1, <1>4 DEF RowsApart
      <4> QED
        BY <1>5, <4>1
    <3>2. ASSUME NEW j \in at PROVE j = i
      <4>1. i \in 1 .. Len(c) /\ j \in 1 .. Len(c) /\ x.index[c[i]] = x.index[c[j]]
        BY <1>10
      <4>2. c[j] = c[i]
        BY <1>2, <1>7, <4>1
      <4> QED
        BY <3>1, <4>1, <4>2
    <3> QED
      BY <3>2
  <2>3. i \in 1 .. Len(c) /\ i <= i
    BY <1>10
  <2>4. (CHOOSE k \in at : \A j \in at : k <= j) = i
    BY <2>2, <2>3
  <2>5. Table!Found(x, w) = c[i]
    BY <1>9, <1>12, <2>4
  <2> QED
    BY <1>7, <1>10, <2>3, <2>5 DEF IsFound
<1> QED
  BY <1>11, <1>12

\* What Key() returns.
IsKey(x, R, w, alpha) ==
  IF \E p \in Pairs(x, R) : p[1] = w THEN <<w, alpha>> \in Pairs(x, R) ELSE alpha = defaultKey

\* Key() returns what the table holds.
LEMMA KeyIs ==
  ASSUME NEW x, NEW R, HoldsEntries(x, R), NEW w \in Tokens
  PROVE  IsKey(x, R, w, Table!KeyOf(x, w))
<1>1. PICK v : v = Table!Found(x, w)
  OBVIOUS
<1>2. IsFound(x, R, w, v)
  BY <1>1, FoundIs
<1>3. x.UNDEFINED \notin Table!Slots(x)
  BY DEF HoldsEntries, HasRows, TableShape
<1>4. Table!KeyOf(x, w) = IF v = x.UNDEFINED THEN defaultKey ELSE x.key[v]
  BY <1>1 DEF Table!KeyOf
<1>5. CASE v = x.UNDEFINED
  <2>1. \A u \in Used(x, R) : x.index[u] # w
    BY <1>2, <1>3, <1>5 DEF IsFound, Used
  <2>2. ~ \E p \in Pairs(x, R) : p[1] = w
    BY <2>1 DEF Pairs
  <2> QED
    BY <1>4, <1>5, <2>2 DEF IsKey
<1>6. CASE v # x.UNDEFINED
  <2>1. v \in Used(x, R) /\ x.index[v] = w
    BY <1>2, <1>6 DEF IsFound
  <2>2. <<w, x.key[v]>> \in Pairs(x, R)
    BY <2>1 DEF Pairs
  <2>3. \E p \in Pairs(x, R) : p[1] = w
    BY <2>2
  <2> QED
    BY <1>4, <1>6, <2>2, <2>3 DEF IsKey
<1> QED
  BY <1>5, <1>6

\* There is one pair for an item, and none with the default key.
LEMMA PairsAre ==
  ASSUME NEW x, NEW R, HoldsEntries(x, R)
  PROVE  /\ \A p, r \in Pairs(x, R) : p[1] = r[1] => p = r
         /\ \A p \in Pairs(x, R) : p[1] \in Tokens /\ p[2] # defaultKey /\ p = <<p[1], p[2]>>
<1>1. /\ \A v \in Used(x, R) : x.index[v] \in Tokens /\ x.key[v] # defaultKey
      /\ \A u, v \in Used(x, R) : x.index[u] = x.index[v] => u = v
  BY DEF HoldsEntries, Filled
<1>2. ASSUME NEW p \in Pairs(x, R), NEW r \in Pairs(x, R), p[1] = r[1] PROVE p = r
  <2>1. PICK u \in Used(x, R) : p = <<x.index[u], x.key[u]>>
    BY DEF Pairs
  <2>2. PICK v \in Used(x, R) : r = <<x.index[v], x.key[v]>>
    BY DEF Pairs
  <2>3. u = v
    BY <1>1, <1>2, <2>1, <2>2
  <2> QED
    BY <2>1, <2>2, <2>3
<1>3. ASSUME NEW p \in Pairs(x, R)
      PROVE  p[1] \in Tokens /\ p[2] # defaultKey /\ p = <<p[1], p[2]>>
  <2>1. PICK u \in Used(x, R) : p = <<x.index[u], x.key[u]>>
    BY DEF Pairs
  <2> QED
    BY <1>1, <2>1
<1> QED
  BY <1>2, <1>3

\* The pairs after the key of w has changed.
Changed(P, w, alpha) ==
  {p \in P : p[1] # w} \cup {p \in {<<w, alpha>>} : alpha # defaultKey}

\* The keys of all items are then what they should be.
LEMMA KeysChange ==
  ASSUME NEW x, NEW R, HoldsEntries(x, R), NEW y, NEW M, HoldsEntries(y, M),
         NEW w \in Tokens, NEW alpha, Pairs(y, M) = Changed(Pairs(x, R), w, alpha)
  PROVE  [u \in Tokens |-> Table!KeyOf(y, u)] = [[u \in Tokens |-> Table!KeyOf(x, u)] EXCEPT ![w] = alpha]
<1>1. PICK P, Q : P = Pairs(x, R) /\ Q = Pairs(y, M)
  OBVIOUS
<1>2. /\ \A p, r \in P : p[1] = r[1] => p = r
      /\ \A p, r \in Q : p[1] = r[1] => p = r
      /\ Q = Changed(P, w, alpha)
  BY <1>1, PairsAre
<1>3. ASSUME NEW u \in Tokens
      PROVE  Table!KeyOf(y, u) = IF u = w THEN alpha ELSE Table!KeyOf(x, u)
  <2>1. PICK j, k : j = Table!KeyOf(x, u) /\ k = Table!KeyOf(y, u)
    OBVIOUS
  <2>2. IF \E p \in P : p[1] = u THEN <<u, j>> \in P ELSE j = defaultKey
    BY <1>1, <2>1, KeyIs DEF IsKey
  <2>3. IF \E p \in Q : p[1] = u THEN <<u, k>> \in Q ELSE k = defaultKey
    BY <1>1, <2>1, KeyIs DEF IsKey
  <2>4. CASE u = w /\ alpha # defaultKey
    <3>1. <<w, alpha>> \in Q
      BY <1>2, <2>4 DEF Changed
    <3>2. <<u, k>> \in Q /\ <<u, k>>[1] = <<w, alpha>>[1]
      BY <2>3, <2>4, <3>1
    <3>3. <<u, k>> = <<w, alpha>>
      BY <1>2, <3>1, <3>2
    <3> QED
      BY <2>1, <2>4, <3>3
  <2>5. CASE u = w /\ alpha = defaultKey
    <3>1. ~ \E p \in Q : p[1] = u
      BY <1>2, <2>5 DEF Changed
    <3> QED
      BY <2>1, <2>3, <2>5, <3>1
  <2>6. CASE u # w
    <3>1. \A p : p[1] = u => (p \in P <=> p \in Q)
      BY <1>2, <2>6 DEF Changed
    <3>2. CASE \E p \in P : p[1] = u
      <4>1. <<u, j>> \in P /\ <<u, k>> \in Q
        BY <2>2, <2>3, <3>1, <3>2
      <4>2. <<u, k>>[1] = u /\ <<u, j>>[1] = u
        OBVIOUS
      <4>3. <<u, k>> = <<u, j>>
        BY <1>2, <3>1, <4>1, <4>2
      <4> QED
        BY <2>1, <2>6, <4>3
    <3>3. CASE ~ \E p \in P : p[1] = u
      BY <2>1, <2>2, <2>3, <2>6, <3>1, <3>3
    <3> QED
      BY <3>2, <3>3
  <2> QED
    BY <2>4, <2>5, <2>6
<1> QED
  BY <1>3

\* NZ() counts the items with a key of their own.
LEMMA EntriesAreCounted ==
  ASSUME NEW x, NEW R, HoldsEntries(x, R)
  PROVE  x.nz = Cardinality({w \in Tokens : Table!KeyOf(x, w) # defaultKey})
<1>1. /\ \A v \in Used(x, R) : x.index[v] \in Tokens /\ x.key[v] # defaultKey
      /\ \A u, v \in Used(x, R) : x.index[u] = x.index[v] => u = v
      /\ x.nz = Cardinality(Used(x, R))
  BY DEF HoldsEntries, Filled
<1>2. x.nMax \in Nat
  BY DEF HoldsEntries, HasRows, TableShape
<1>3. PICK U : U = Used(x, R)
  OBVIOUS
<1>4. PICK W : W = {w \in Tokens : Table!KeyOf(x, w) # defaultKey}
  OBVIOUS
<1>5. IsFiniteSet(U)
  BY <1>2, <1>3, UsedFinite
<1>6. PICK f : f = [v \in U |-> x.index[v]]
  OBVIOUS
<1>7. \A v \in U : x.index[v] \in W
  <2> SUFFICES ASSUME NEW v \in U PROVE x.index[v] \in W
    OBVIOUS
  <2>1. PICK w \in Tokens : w = x.index[v]
    BY <1>1, <1>3
  <2>2. <<w, x.key[v]>> \in Pairs(x, R)
    BY <1>3, <2>1 DEF Pairs
  <2>3. <<w, Table!KeyOf(x, w)>> \in Pairs(x, R)
    BY <2>2, KeyIs DEF IsKey
  <2>4. <<w, Table!KeyOf(x, w)>>[2] # defaultKey
    BY <2>3, PairsAre
  <2> QED
    BY <1>4, <2>1, <2>4
<1>8. \A w \in W : \E v \in U : x.index[v] = w
  <2> SUFFICES ASSUME NEW w \in W PROVE \E v \in U : x.index[v] = w
    OBVIOUS
  <2>1. w \in Tokens /\ Table!KeyOf(x, w) # defaultKey
    BY <1>4
  <2>2. PICK p \in Pairs(x, R) : p[1] = w
    BY <2>1, KeyIs DEF IsKey
  <2> QED
    BY <1>3, <2>2 DEF Pairs
<1>9. f \in Bijection(U, W)
  BY <1>1, <1>3, <1>6, <1>7, <1>8 DEF Bijection, Injection, Surjection, IsInjective
<1>10. ExistsBijection(U, W)
  BY <1>9 DEF ExistsBijection
<1>11. Cardinality(W) = Cardinality(U)
  BY <1>5, <1>10, FS_Bijection
<1> QED
  BY <1>1, <1>3, <1>4, <1>11

\* The items of the two lists after a move.
ItemsMoved(x, R, a, i, b, M) ==
  /\ ItemsOf(M[a]) = ItemsOf(R[a]) \ {R[a][i]}
  /\ ItemsOf(M[b]) = ItemsOf(R[b]) \cup {R[a][i]}
  /\ \A h \in Rows(x) \ {a, b} : ItemsOf(M[h]) = ItemsOf(R[h])

\* One list loses the item that has moved, the other one has it.
LEMMA MovedItems ==
  ASSUME NEW x, NEW R, RowsApart(x, R)
  PROVE  \A a, i, b, M : IsMoved(x, R, a, i, b, M) => ItemsMoved(x, R, a, i, b, M)
<1> SUFFICES ASSUME NEW a, NEW i, NEW b, NEW M, IsMoved(x, R, a, i, b, M)
             PROVE  ItemsMoved(x, R, a, i, b, M)
  OBVIOUS
<1>0. Len(R[a]) \in Nat /\ Len(R[b]) \in Nat
  BY DEF IsMoved
<1>1. PICK c, d \in Nat : c = Len(R[a]) /\ d = Len(R[b])
  BY <1>0
<1>2. /\ Len(M[a]) = c - 1 /\ \A k \in 1 .. c - 1 : M[a][k] = R[a][Past(i, k)]
      /\ Len(M[b]) = d + 1 /\ M[b][1] = R[a][i] /\ \A k \in 1 .. d : M[b][k + 1] = R[b][k]
      /\ i \in 1 .. c /\ a \in Rows(x)
      /\ \A h \in Rows(x) \ {a, b} : M[h] = R[h]
  BY <1>1 DEF IsMoved
<1>3. \A j, k \in 1 .. c : R[a][j] = R[a][k] => j = k
  BY <1>1, <1>2 DEF RowsApart
<1>4. ASSUME NEW v \in ItemsOf(M[a]) PROVE v \in ItemsOf(R[a]) \ {R[a][i]}
  <2>1. PICK k \in 1 .. c - 1 : M[a][k] = v
    BY <1>2 DEF ItemsOf
  <2>2. Past(i, k) \in 1 .. c /\ Past(i, k) # i
    BY <1>2 DEF Past
  <2>3. R[a][Past(i, k)] = v
    BY <1>2, <2>1
  <2> QED
    BY <1>1, <1>2, <1>3, <2>2, <2>3 DEF ItemsOf
<1>5. ASSUME NEW v \in ItemsOf(R[a]), v # R[a][i] PROVE v \in ItemsOf(M[a])
  <2>1. PICK k \in 1 .. c : R[a][k] = v
    BY <1>1 DEF ItemsOf
  <2>2. PICK j : j = IF k < i THEN k ELSE k - 1
    OBVIOUS
  <2>3. k # i
    BY <1>5, <2>1
  <2>4. j \in 1 .. c - 1 /\ Past(i, j) = k
    BY <1>2, <2>2, <2>3 DEF Past
  <2> QED
    BY <1>2, <2>1, <2>4 DEF ItemsOf
<1>6. ASSUME NEW v \in ItemsOf(M[b]) PROVE v \in ItemsOf(R[b]) \cup {R[a][i]}
  <2>1. PICK k \in 1 .. d + 1 : M[b][k] = v
    BY <1>2 DEF ItemsOf
  <2>2. CASE k # 1
    <3>1. k - 1 \in 1 .. d /\ (k - 1) + 1 = k
      BY <2>2
    <3>2. R[b][k - 1] = v
      BY <1>2, <2>1, <3>1
    <3> QED
      BY <1>1, <3>1, <3>2 DEF ItemsOf
  <2> QED
    BY <1>2, <2>1, <2>2
<1>7. R[a][i] \in ItemsOf(M[b])
  <2>1. 1 \in 1 .. Len(M[b])
    BY <1>2
  <2> QED
    BY <1>2, <2>1 DEF ItemsOf
<1>8. ASSUME NEW v \in ItemsOf(R[b]) PROVE v \in ItemsOf(M[b])
  <2>1. PICK k \in 1 .. d : R[b][k] = v
    BY <1>1 DEF ItemsOf
  <2>2. k + 1 \in 1 .. d + 1 /\ M[b][k + 1] = v
    BY <1>2, <2>1
  <2> QED
    BY <1>2, <2>2 DEF ItemsOf
<1>9. \A h \in Rows(x) \ {a, b} : ItemsOf(M[h]) = ItemsOf(R[h])
  BY <1>2 DEF ItemsOf
<1> QED
  BY <1>4, <1>5, <1>6, <1>7, <1>8, <1>9 DEF ItemsMoved

\* From one table to another a key has changed.
Rekeyed(x, R, w, alpha, y) ==
  \E M : /\ HoldsEntries(y, M) /\ Pairs(y, M) = Changed(Pairs(x, R), w, alpha)
         /\ y.nMax = x.nMax

\* An entry is made in the first free slot.
LEMMA EnteredHolds ==
  ASSUME NEW x, NEW R, HoldsEntries(x, R), NEW w \in Tokens, NEW alpha, alpha # defaultKey,
         x.free # x.UNDEFINED, \A p \in Pairs(x, R) : p[1] # w
  PROVE  /\ Rekeyed(x, R, w, alpha, Table!Entered(x, w, alpha))
         /\ Table!Entered(x, w, alpha).nz = x.nz + 1
<1>1. PICK y : y = Table!Entered(x, w, alpha)
  OBVIOUS
<1>2. /\ HasRows(x, R) /\ TableShape(x) /\ R \in [Rows(x) -> Seq(Table!Slots(x))]
      /\ RowsFit(x, R) /\ RowsApart(x, R) /\ Filled(x, R)
  BY DEF HoldsEntries, HasRows
<1>3. /\ x = [nMax |-> x.nMax, nHash |-> x.nHash, UNDEFINED |-> x.UNDEFINED, first |-> x.first,
              next |-> x.next, index |-> x.index, key |-> x.key, free |-> x.free, nz |-> x.nz]
      /\ x.nMax \in Nat \ {0} /\ x.nHash \in Nat \ {0}
      /\ x.UNDEFINED \in Int \ Table!Slots(x)
      /\ x.first \in [0 .. x.nHash - 1 -> Links(x)] /\ x.next \in [Table!Slots(x) -> Links(x)]
      /\ x.free \in Links(x)
      /\ x.index = [v \in Table!Slots(x) |-> x.index[v]]
      /\ x.key = [v \in Table!Slots(x) |-> x.key[v]]
  BY <1>2 DEF TableShape
<1>4. PICK b \in 0 .. x.nHash - 1 : b = Table!Bucket(x, w)
  BY <1>3, BucketType
<1>5. PICK e : e = x.nHash
  OBVIOUS
<1>6. /\ e \in Rows(x) /\ b \in Rows(x) /\ e # b /\ HeadOf(x, e) = x.free /\ HeadOf(x, b) = x.first[b]
      /\ \A h \in Rows(x) \ {e} : h \in 0 .. x.nHash - 1 /\ HeadOf(x, h) = x.first[h]
  BY <1>3, <1>5 DEF Rows, HeadOf
<1>7. PICK v \in Table!Slots(x) : v = x.free
  BY <1>3 DEF Links
<1>8. Len(R[e]) \in Nat /\ 1 \in 1 .. Len(R[e]) /\ R[e][1] = v
  <2>3. HeadOf(x, e) = At(x, R[e], 1)
    BY <1>2, <1>6 DEF RowsFit
  <2>4. R[e] \in Seq(Table!Slots(x))
    BY <1>2, <1>6
  <2>1. x.free = At(x, R[e], 1) /\ Len(R[e]) \in Nat
    BY <1>6, <2>3, <2>4
  <2>2. 1 <= Len(R[e])
    BY <2>1 DEF At
  <2> QED
    BY <1>7, <2>1, <2>2 DEF At
<1>9. /\ y.nMax = x.nMax /\ y.nHash = x.nHash /\ y.UNDEFINED = x.UNDEFINED
      /\ y.first = [x.first EXCEPT ![b] = v] /\ y.next = [x.next EXCEPT ![v] = x.first[b]]
      /\ y.index = [x.index EXCEPT ![v] = w] /\ y.key = [x.key EXCEPT ![v] = alpha]
      /\ y.free = x.next[v] /\ y.nz = x.nz + 1
      /\ y = [nMax |-> y.nMax, nHash |-> y.nHash, UNDEFINED |-> y.UNDEFINED, first |-> y.first,
              next |-> y.next, index |-> y.index, key |-> y.key, free |-> y.free, nz |-> y.nz]
  BY <1>1, <1>3, <1>4, <1>7 DEF Table!Entered
<1>10. Table!Slots(y) = Table!Slots(x) /\ Rows(y) = Rows(x) /\ Links(y) = Links(x)
  BY <1>9 DEF Table!Slots, Rows, Links
<1>11. TableShape(y)
  <2>1. v \in Links(x) /\ x.first[b] \in Links(x) /\ x.next[v] \in Links(x)
    BY <1>3, <1>7 DEF Links
  <2>2. /\ y.first \in [0 .. y.nHash - 1 -> Links(y)] /\ y.next \in [Table!Slots(y) -> Links(y)]
        /\ y.free \in Links(y)
    BY <1>3, <1>9, <1>10, <2>1
  <2>3. y.index = [u \in Table!Slots(y) |-> y.index[u]] /\ y.key = [u \in Table!Slots(y) |-> y.key[u]]
    BY <1>3, <1>9, <1>10
  <2> QED
    BY <1>3, <1>9, <1>10, <2>2, <2>3 DEF TableShape
<1>12. MovedLinks(x, R, e, 1, b, y)
  <2>1. HeadOf(y, b) = v /\ HeadOf(y, e) = x.next[v]
    BY <1>3, <1>5, <1>6, <1>9 DEF HeadOf
  <2>2. \A h \in Rows(x) \ {e, b} : HeadOf(y, h) = HeadOf(x, h)
    BY <1>3, <1>5, <1>6, <1>9 DEF HeadOf
  <2>3. y.next[v] = HeadOf(x, b) /\ \A u \in Table!Slots(x) \ {v} : y.next[u] = x.next[u]
    BY <1>3, <1>6, <1>7, <1>9
  <2> QED
    BY <1>8, <1>9, <1>11, <2>1, <2>2, <2>3 DEF MovedLinks
<1>13. PICK M : M = Moved(R, e, 1, b)
  OBVIOUS
<1>14. HasRows(y, M)
  BY <1>2, <1>6, <1>8, <1>12, <1>13, MovedHasRows
<1>15. IsMoved(x, R, e, 1, b, M)
  BY <1>2, <1>6, <1>8, <1>13, MovedIs
<1>16. /\ ItemsOf(M[e]) = ItemsOf(R[e]) \ {v} /\ ItemsOf(M[b]) = ItemsOf(R[b]) \cup {v}
       /\ \A h \in Rows(x) \ {e, b} : ItemsOf(M[h]) = ItemsOf(R[h])
  <2>1. /\ ItemsOf(M[e]) = ItemsOf(R[e]) \ {R[e][1]} /\ ItemsOf(M[b]) = ItemsOf(R[b]) \cup {R[e][1]}
        /\ \A h \in Rows(x) \ {e, b} : ItemsOf(M[h]) = ItemsOf(R[h])
    BY <1>2, <1>15, MovedItems DEF ItemsMoved
  <2> QED
    BY <1>8, <2>1
<1>17. Used(y, M) = Used(x, R) \cup {v} /\ v \notin Used(x, R)
  <2>1. v \in ItemsOf(R[e])
    BY <1>8 DEF ItemsOf
  <2> QED
    BY <1>5, <1>7, <1>9, <1>10, <1>16, <2>1 DEF Used
<1>18. /\ y.index[v] = w /\ y.key[v] = alpha
       /\ \A u \in Used(x, R) : u # v /\ y.index[u] = x.index[u] /\ y.key[u] = x.key[u]
  BY <1>3, <1>7, <1>9, <1>17 DEF Used
<1>19. \A u \in Used(x, R) : x.index[u] # w
  <2>1. \A u \in Used(x, R) : <<x.index[u], x.key[u]>> \in Pairs(x, R)
    BY DEF Pairs
  <2>2. \A u : <<x.index[u], x.key[u]>>[1] = x.index[u]
    OBVIOUS
  <2> QED
    BY <2>1, <2>2
<1>20. /\ \A u \in Used(x, R) : x.index[u] \in Tokens /\ x.key[u] # defaultKey
       /\ \A h \in 0 .. x.nHash - 1 : \A u \in ItemsOf(R[h]) : Table!Bucket(x, x.index[u]) = h
       /\ \A u, t \in Used(x, R) : x.index[u] = x.index[t] => u = t
       /\ x.nz = Cardinality(Used(x, R))
  BY <1>2 DEF Filled
<1>21. \A u \in Used(y, M) : y.index[u] \in Tokens /\ y.key[u] # defaultKey
  BY <1>17, <1>18, <1>20
<1>22. ASSUME NEW h \in 0 .. y.nHash - 1, NEW u \in ItemsOf(M[h])
       PROVE  Table!Bucket(y, y.index[u]) = h
  <2>1. h \in Rows(x) /\ h # e
    BY <1>3, <1>5, <1>9 DEF Rows
  <2>2. CASE u = v
    <3>1. h = b
      <4>1. v \in ItemsOf(M[b])
        BY <1>16
      <4>2. h \in Rows(y) /\ b \in Rows(y)
        BY <1>6, <1>10, <2>1
      <4> QED
        BY <1>14, <2>2, <4>1, <4>2, OneRow
    <3> QED
      BY <1>4, <1>9, <1>18, <2>2, <3>1 DEF Table!Bucket
  <2>3. CASE u # v
    <3>1. u \in ItemsOf(R[h])
      BY <1>16, <2>1, <2>3
    <3>2. u \in Used(x, R)
      BY <1>2, <1>9, <3>1, UsedAre
    <3> QED
      BY <1>9, <1>18, <1>20, <3>1, <3>2 DEF Table!Bucket
  <2> QED
    BY <2>2, <2>3
<1>23. \A u, t \in Used(y, M) : y.index[u] = y.index[t] => u = t
  BY <1>17, <1>18, <1>19, <1>20
<1>24. y.nz = Cardinality(Used(y, M))
  <2>1. IsFiniteSet(Used(x, R))
    BY <1>3, UsedFinite
  <2>2. Cardinality(Used(x, R) \cup {v}) = Cardinality(Used(x, R)) + 1
    BY <1>17, <2>1, FS_AddElement
  <2> QED
    BY <1>9, <1>17, <1>20, <2>2
<1>25. HoldsEntries(y, M)
  BY <1>14, <1>21, <1>22, <1>23, <1>24 DEF HoldsEntries, Filled
<1>26. Pairs(y, M) = Changed(Pairs(x, R), w, alpha)
  <2>1. Pairs(y, M) = Pairs(x, R) \cup {<<w, alpha>>}
    BY <1>17, <1>18 DEF Pairs
  <2> QED
    BY <2>1 DEF Changed
<1> QED
  BY <1>1, <1>9, <1>25, <1>26 DEF Rekeyed

\* Another key is written into the slot of an item.
LEMMA RewrittenHolds ==
  ASSUME NEW x, NEW R, HoldsEntries(x, R), NEW w \in Tokens, NEW alpha, alpha # defaultKey,
         NEW v \in Used(x, R), x.index[v] = w
  PROVE  Rekeyed(x, R, w, alpha, [x EXCEPT !.key[v] = alpha])
<1>1. PICK y : y = [x EXCEPT !.key[v] = alpha]
  OBVIOUS
<1>2. /\ HasRows(x, R) /\ TableShape(x) /\ R \in [Rows(x) -> Seq(Table!Slots(x))]
      /\ RowsFit(x, R) /\ RowsApart(x, R) /\ Filled(x, R)
  BY DEF HoldsEntries, HasRows
<1>3. x.key = [u \in Table!Slots(x) |-> x.key[u]] /\ Used(x, R) \subseteq Table!Slots(x)
  BY <1>2 DEF TableShape, Used
<1>4. /\ y.nMax = x.nMax /\ y.nHash = x.nHash /\ y.UNDEFINED = x.UNDEFINED
      /\ y.first = x.first /\ y.next = x.next /\ y.index = x.index
      /\ y.key = [x.key EXCEPT ![v] = alpha] /\ y.free = x.free /\ y.nz = x.nz
      /\ y = [nMax |-> y.nMax, nHash |-> y.nHash, UNDEFINED |-> y.UNDEFINED, first |-> y.first,
              next |-> y.next, index |-> y.index, key |-> y.key, free |-> y.free, nz |-> y.nz]
  BY <1>1, <1>2 DEF TableShape
<1>5. Table!Slots(y) = Table!Slots(x) /\ Rows(y) = Rows(x) /\ Links(y) = Links(x)
  BY <1>4 DEF Table!Slots, Rows, Links
<1>6. y.key = [u \in Table!Slots(y) |-> y.key[u]]
  BY <1>3, <1>4, <1>5
<1>7. TableShape(y)
  BY <1>2, <1>4, <1>5, <1>6 DEF TableShape
<1>8. \A h : HeadOf(y, h) = HeadOf(x, h)
  BY <1>4 DEF HeadOf
<1>9. RowsFit(y, R)
  BY <1>2, <1>4, <1>5, <1>8 DEF RowsFit, At
<1>10. RowsApart(y, R)
  BY <1>2, <1>5 DEF RowsApart
<1>11. HasRows(y, R)
  BY <1>2, <1>5, <1>7, <1>9, <1>10 DEF HasRows
<1>12. Used(y, R) = Used(x, R)
  BY <1>4, <1>5 DEF Used
<1>13. y.key[v] = alpha /\ \A u \in Used(x, R) \ {v} : y.key[u] = x.key[u]
  BY <1>3, <1>4
<1>14. /\ \A u \in Used(x, R) : x.index[u] \in Tokens /\ x.key[u] # defaultKey
       /\ \A h \in 0 .. x.nHash - 1 : \A u \in ItemsOf(R[h]) : Table!Bucket(x, x.index[u]) = h
       /\ \A u, t \in Used(x, R) : x.index[u] = x.index[t] => u = t
       /\ x.nz = Cardinality(Used(x, R))
  BY <1>2 DEF Filled
<1>15. \A u \in Used(y, R) : y.index[u] \in Tokens /\ y.key[u] # defaultKey
  BY <1>4, <1>12, <1>13, <1>14
<1>16. \A h \in 0 .. y.nHash - 1 : \A u \in ItemsOf(R[h]) : Table!Bucket(y, y.index[u]) = h
  BY <1>4, <1>14 DEF Table!Bucket
<1>17. HoldsEntries(y, R)
  BY <1>4, <1>11, <1>12, <1>14, <1>15, <1>16 DEF HoldsEntries, Filled
<1>18. Pairs(y, R) = Changed(Pairs(x, R), w, alpha)
  <2>1. ASSUME NEW p \in Pairs(y, R) PROVE p \in Changed(Pairs(x, R), w, alpha)
    <3>1. PICK u \in Used(x, R) : p = <<x.index[u], y.key[u]>>
      BY <1>4, <1>12 DEF Pairs
    <3>2. CASE u = v
      BY <1>13, <3>1, <3>2 DEF Changed
    <3>3. CASE u # v
      <4>1. p \in Pairs(x, R) /\ p[1] # w
        BY <1>13, <1>14, <3>1, <3>3 DEF Pairs
      <4> QED
        BY <4>1 DEF Changed
    <3> QED
      BY <3>2, <3>3
  <2>2. ASSUME NEW p \in Pairs(x, R), p[1] # w PROVE p \in Pairs(y, R)
    <3>1. PICK u \in Used(x, R) : p = <<x.index[u], x.key[u]>>
      BY DEF Pairs
    <3>2. u # v
      BY <2>2, <3>1
    <3> QED
      BY <1>4, <1>12, <1>13, <3>1, <3>2 DEF Pairs
  <2>3. <<w, alpha>> \in Pairs(y, R)
    BY <1>4, <1>12, <1>13 DEF Pairs
  <2> QED
    BY <2>1, <2>2, <2>3 DEF Changed
<1> QED
  BY <1>1, <1>4, <1>17, <1>18 DEF Rekeyed

\* An entry becomes a free slot.
LEMMA UnlinkedHolds ==
  ASSUME NEW x, NEW R, HoldsEntries(x, R), NEW w \in Tokens, Table!Found(x, w) # x.UNDEFINED
  PROVE  Rekeyed(x, R, w, defaultKey, Table!Unlinked(x, w))
<1>1. PICK y : y = Table!Unlinked(x, w)
  OBVIOUS
<1>2. /\ HasRows(x, R) /\ TableShape(x) /\ R \in [Rows(x) -> Seq(Table!Slots(x))]
      /\ RowsFit(x, R) /\ RowsApart(x, R) /\ Filled(x, R)
  BY DEF HoldsEntries, HasRows
<1>3. /\ x = [nMax |-> x.nMax, nHash |-> x.nHash, UNDEFINED |-> x.UNDEFINED, first |-> x.first,
              next |-> x.next, index |-> x.index, key |-> x.key, free |-> x.free, nz |-> x.nz]
      /\ x.nMax \in Nat \ {0} /\ x.nHash \in Nat \ {0}
      /\ x.UNDEFINED \in Int \ Table!Slots(x)
      /\ x.first \in [0 .. x.nHash - 1 -> Links(x)] /\ x.next \in [Table!Slots(x) -> Links(x)]
      /\ x.free \in Links(x)
      /\ x.index = [v \in Table!Slots(x) |-> x.index[v]]
      /\ x.key = [v \in Table!Slots(x) |-> x.key[v]]
  BY <1>2 DEF TableShape
<1>4. PICK b \in 0 .. x.nHash - 1 : b = Table!Bucket(x, w)
  BY <1>3, BucketType
<1>5. PICK e : e = x.nHash
  OBVIOUS
<1>6. /\ e \in Rows(x) /\ b \in Rows(x) /\ e # b /\ HeadOf(x, e) = x.free /\ HeadOf(x, b) = x.first[b]
      /\ \A h \in Rows(x) \ {e} : h \in 0 .. x.nHash - 1 /\ HeadOf(x, h) = x.first[h]
  BY <1>3, <1>5 DEF Rows, HeadOf
<1>7. PICK v \in Used(x, R) : v = Table!Found(x, w) /\ x.index[v] = w
  BY FoundIs DEF IsFound
<1>8. v \in Table!Slots(x) /\ v # x.UNDEFINED
  BY <1>3, <1>7 DEF Used
<1>9. PICK c \in Seq(Table!Slots(x)) : c = R[b]
  BY <1>2, <1>6
<1>10. PICK i \in 1 .. Len(c) : c[i] = v
  <2>1. PICK h \in 0 .. x.nHash - 1 : v \in ItemsOf(R[h])
    BY <1>2, UsedAre
  <2>2. h = b
    BY <1>2, <1>4, <1>7, <2>1 DEF Filled
  <2> QED
    BY <1>9, <2>1, <2>2 DEF ItemsOf
<1>11. /\ x.first[b] = At(x, c, 1)
       /\ \A k \in 1 .. Len(c) : x.next[c[k]] = At(x, c, k + 1) /\ c[k] \in Table!Slots(x)
       /\ \A j, k \in 1 .. Len(c) : c[j] = c[k] => j = k
       /\ Len(c) \in Nat
  <2>1. HeadOf(x, b) = At(x, R[b], 1)
    BY <1>2, <1>6 DEF RowsFit
  <2>2. \A k \in 1 .. Len(R[b]) : x.next[R[b][k]] = At(x, R[b], k + 1)
    BY <1>2, <1>6 DEF RowsFit
  <2>3. \A j, k \in 1 .. Len(R[b]) : R[b][j] = R[b][k] => b = b /\ j = k
    BY <1>2, <1>6 DEF RowsApart
  <2>4. Len(c) \in Nat /\ \A k \in 1 .. Len(c) : c[k] \in Table!Slots(x)
    BY <1>9
  <2>5. x.first[b] = At(x, c, 1)
    BY <1>6, <1>9, <2>1
  <2>6. \A k \in 1 .. Len(c) : x.next[c[k]] = At(x, c, k + 1)
    BY <1>9, <2>2
  <2>7. \A j, k \in 1 .. Len(c) : c[j] = c[k] => j = k
    BY <1>9, <2>3
  <2> QED
    BY <2>4, <2>5, <2>6, <2>7
<1>12. Table!Chain(x, x.first[b]) = c
  BY <1>2, <1>6, <1>9, RowIs
<1>13. x.first[b] = v <=> i = 1
  <2>1. 1 \in 1 .. Len(c) /\ At(x, c, 1) = c[1]
    BY <1>10, <1>11 DEF At
  <2>2. c[1] = c[i] <=> i = 1
    BY <1>10, <1>11, <2>1
  <2> QED
    BY <1>10, <1>11, <2>1, <2>2
<1>14. PICK t : t = CHOOSE u \in Table!ToSet(c) : x.next[u] = v
  OBVIOUS
<1>15. i # 1 => t = c[i - 1] /\ t \in Table!Slots(x) /\ t # v
  <2> SUFFICES ASSUME i # 1 PROVE t = c[i - 1] /\ t \in Table!Slots(x) /\ t # v
    OBVIOUS
  <2>1. i - 1 \in 1 .. Len(c) /\ (i - 1) + 1 = i
    BY <1>11
  <2>2. x.next[c[i - 1]] = v
    BY <1>10, <1>11, <2>1 DEF At
  <2>3. ASSUME NEW k \in 1 .. Len(c), x.next[c[k]] = v PROVE k = i - 1
    <3>1. k + 1 <= Len(c) /\ c[k + 1] = v
      BY <1>8, <1>11, <2>3 DEF At
    <3>2. k + 1 \in 1 .. Len(c)
      BY <1>11, <3>1
    <3>3. k + 1 = i
      BY <1>10, <1>11, <3>1, <3>2
    <3> QED
      BY <3>3
  <2>4. Table!ToSet(c) = {c[k] : k \in 1 .. Len(c)}
    <3>1. DOMAIN c = 1 .. Len(c)
      BY <1>9
    <3> QED
      BY <3>1 DEF Table!ToSet
  <2>5. c[i - 1] \in Table!ToSet(c)
    BY <2>1, <2>4
  <2>6. \A u \in Table!ToSet(c) : x.next[u] = v => u = c[i - 1]
    BY <2>3, <2>4
  <2>7. t = c[i - 1]
    BY <1>14, <2>2, <2>5, <2>6
  <2>8. c[i - 1] # v
    BY <1>10, <1>11, <2>1
  <2> QED
    BY <1>11, <2>1, <2>7, <2>8
<1>16. PICK first : first = IF i = 1 THEN [x.first EXCEPT ![b] = x.next[v]] ELSE x.first
  OBVIOUS
<1>17. PICK next : next = IF i = 1 THEN x.next ELSE [x.next EXCEPT ![t] = x.next[v]]
  OBVIOUS
<1>18. y = [nMax |-> x.nMax, nHash |-> x.nHash, UNDEFINED |-> x.UNDEFINED, first |-> first,
            next |-> [next EXCEPT ![v] = x.free], index |-> [x.index EXCEPT ![v] = Unset],
            key |-> [x.key EXCEPT ![v] = Unset], free |-> v, nz |-> x.nz - 1]
  <2>1. PICK z : z = [x EXCEPT !.first = first, !.next = next]
    OBVIOUS
  <2>2. z = IF x.first[b] = v THEN [x EXCEPT !.first[b] = x.next[v]]
            ELSE [x EXCEPT !.next[t] = x.next[v]]
    <3>1. CASE i = 1
      BY <1>3, <1>13, <1>16, <1>17, <2>1, <3>1
    <3>2. CASE i # 1
      BY <1>3, <1>13, <1>16, <1>17, <2>1, <3>2
    <3> QED
      BY <3>1, <3>2
  <2>3. y = [z EXCEPT !.next[v] = x.free, !.free = v, !.nz = @ - 1, !.index[v] = Unset, !.key[v] = Unset]
    BY <1>1, <1>4, <1>7, <1>12, <1>14, <2>2 DEF Table!Unlinked
  <2>4. z = [nMax |-> x.nMax, nHash |-> x.nHash, UNDEFINED |-> x.UNDEFINED, first |-> first,
             next |-> next, index |-> x.index, key |-> x.key, free |-> x.free, nz |-> x.nz]
    BY <1>3, <2>1
  <2> QED
    BY <2>3, <2>4
<1>19. /\ y.nMax = x.nMax /\ y.nHash = x.nHash /\ y.UNDEFINED = x.UNDEFINED
       /\ y.first = first /\ y.next = [next EXCEPT ![v] = x.free]
       /\ y.index = [x.index EXCEPT ![v] = Unset] /\ y.key = [x.key EXCEPT ![v] = Unset]
       /\ y.free = v /\ y.nz = x.nz - 1
       /\ y = [nMax |-> y.nMax, nHash |-> y.nHash, UNDEFINED |-> y.UNDEFINED, first |-> y.first,
               next |-> y.next, index |-> y.index, key |-> y.key, free |-> y.free, nz |-> y.nz]
  BY <1>18
<1>20. Table!Slots(y) = Table!Slots(x) /\ Rows(y) = Rows(x) /\ Links(y) = Links(x)
  BY <1>19 DEF Table!Slots, Rows, Links
<1>21. /\ first \in [0 .. x.nHash - 1 -> Links(x)]
       /\ next \in [Table!Slots(x) -> Links(x)]
  <2>1. v \in Links(x) /\ x.next[v] \in Links(x)
    BY <1>3, <1>8 DEF Links
  <2> QED
    BY <1>3, <1>16, <1>17, <2>1
<1>22. TableShape(y)
  <2>1. v \in Links(x)
    BY <1>8 DEF Links
  <2>2. /\ y.first \in [0 .. y.nHash - 1 -> Links(y)] /\ y.next \in [Table!Slots(y) -> Links(y)]
        /\ y.free \in Links(y)
    BY <1>3, <1>19, <1>20, <1>21, <2>1
  <2>3. y.index = [u \in Table!Slots(y) |-> y.index[u]] /\ y.key = [u \in Table!Slots(y) |-> y.key[u]]
    BY <1>3, <1>19, <1>20
  <2> QED
    BY <1>3, <1>19, <1>20, <2>2, <2>3 DEF TableShape
<1>23. MovedLinks(x, R, b, i, e, y)
  <2>1. HeadOf(y, e) = v
    BY <1>5, <1>19 DEF HeadOf
  <2>2. HeadOf(y, b) = IF i = 1 THEN x.next[v] ELSE HeadOf(x, b)
    <3>1. y.nHash # b /\ b \in 0 .. x.nHash - 1
      BY <1>5, <1>6, <1>19
    <3> QED
      BY <1>3, <1>6, <1>16, <1>19, <3>1 DEF HeadOf
  <2>3. ASSUME NEW h \in Rows(x) \ {b, e} PROVE HeadOf(y, h) = HeadOf(x, h)
    <3>1. first[h] = x.first[h]
      BY <1>3, <1>6, <1>16, <2>3
    <3> QED
      BY <1>5, <1>6, <1>19, <2>3, <3>1 DEF HeadOf
  <2>4. y.next[v] = HeadOf(x, e)
    BY <1>6, <1>8, <1>19, <1>21
  <2>5. ASSUME NEW u \in Table!Slots(x) \ {v}
        PROVE  y.next[u] = IF i # 1 /\ u = R[b][i - 1] THEN x.next[v] ELSE x.next[u]
    <3>1. y.next[u] = next[u]
      BY <1>19, <1>21
    <3>2. CASE i = 1
      BY <1>17, <3>1, <3>2
    <3>3. CASE i # 1
      BY <1>3, <1>9, <1>15, <1>17, <3>1, <3>3
    <3> QED
      BY <3>2, <3>3
  <2> QED
    BY <1>9, <1>10, <1>19, <1>22, <2>1, <2>2, <2>3, <2>4, <2>5 DEF MovedLinks
<1>24. PICK M : M = Moved(R, b, i, e)
  OBVIOUS
<1>25. i \in 1 .. Len(R[b]) /\ R[b][i] = v
  BY <1>9, <1>10
<1>26. HasRows(y, M)
  BY <1>2, <1>6, <1>23, <1>24, <1>25, MovedHasRows
<1>27. IsMoved(x, R, b, i, e, M)
  BY <1>2, <1>6, <1>24, <1>25, MovedIs
<1>28. /\ ItemsOf(M[b]) = ItemsOf(R[b]) \ {v} /\ ItemsOf(M[e]) = ItemsOf(R[e]) \cup {v}
       /\ \A h \in Rows(x) \ {b, e} : ItemsOf(M[h]) = ItemsOf(R[h])
  <2>1. /\ ItemsOf(M[b]) = ItemsOf(R[b]) \ {R[b][i]} /\ ItemsOf(M[e]) = ItemsOf(R[e]) \cup {R[b][i]}
        /\ \A h \in Rows(x) \ {b, e} : ItemsOf(M[h]) = ItemsOf(R[h])
    <3>1. ItemsMoved(x, R, b, i, e, M)
      BY <1>2, <1>27, MovedItems
    <3> QED
      BY <3>1 DEF ItemsMoved
  <2> QED
    BY <1>25, <2>1
<1>29. Used(y, M) = Used(x, R) \ {v}
  BY <1>5, <1>19, <1>20, <1>28 DEF Used
<1>30. \A u \in Used(y, M) : u \in Used(x, R) /\ y.index[u] = x.index[u] /\ y.key[u] = x.key[u]
  BY <1>3, <1>19, <1>29 DEF Used
<1>31. /\ \A u \in Used(x, R) : x.index[u] \in Tokens /\ x.key[u] # defaultKey
       /\ \A h \in 0 .. x.nHash - 1 : \A u \in ItemsOf(R[h]) : Table!Bucket(x, x.index[u]) = h
       /\ \A u, s \in Used(x, R) : x.index[u] = x.index[s] => u = s
       /\ x.nz = Cardinality(Used(x, R))
  BY <1>2 DEF Filled
<1>32. \A u \in Used(y, M) : y.index[u] \in Tokens /\ y.key[u] # defaultKey
  BY <1>30, <1>31
<1>33. ASSUME NEW h \in 0 .. y.nHash - 1, NEW u \in ItemsOf(M[h])
       PROVE  Table!Bucket(y, y.index[u]) = h
  <2>1. h \in Rows(x) /\ h # e
    BY <1>3, <1>5, <1>19 DEF Rows
  <2>2. u \in ItemsOf(R[h])
    BY <1>28, <2>1
  <2>3. u \in Used(y, M)
    BY <1>26, UsedAre
  <2> QED
    BY <1>19, <1>30, <1>31, <2>2, <2>3 DEF Table!Bucket
<1>34. \A u, s \in Used(y, M) : y.index[u] = y.index[s] => u = s
  BY <1>30, <1>31
<1>35. y.nz = Cardinality(Used(y, M))
  <2>1. IsFiniteSet(Used(x, R))
    BY <1>3, UsedFinite
  <2>2. Cardinality(Used(x, R) \ {v}) = Cardinality(Used(x, R)) - 1
    BY <1>7, <2>1, FS_RemoveElement
  <2> QED
    BY <1>19, <1>29, <1>31, <2>2
<1>36. HoldsEntries(y, M)
  BY <1>26, <1>32, <1>33, <1>34, <1>35 DEF HoldsEntries, Filled
<1>37. Pairs(y, M) = Changed(Pairs(x, R), w, defaultKey)
  <2>1. ASSUME NEW p \in Pairs(y, M) PROVE p \in Pairs(x, R) /\ p[1] # w
    <3>1. PICK u \in Used(y, M) : p = <<y.index[u], y.key[u]>>
      BY DEF Pairs
    <3>2. u # v /\ u \in Used(x, R) /\ p = <<x.index[u], x.key[u]>>
      BY <1>29, <1>30, <3>1
    <3>3. x.index[u] # w
      BY <1>7, <1>31, <3>2
    <3> QED
      BY <3>2, <3>3 DEF Pairs
  <2>2. ASSUME NEW p \in Pairs(x, R), p[1] # w PROVE p \in Pairs(y, M)
    <3>1. PICK u \in Used(x, R) : p = <<x.index[u], x.key[u]>>
      BY DEF Pairs
    <3>2. u # v
      BY <1>7, <2>2, <3>1
    <3>3. u \in Used(y, M)
      BY <1>29, <3>2
    <3> QED
      BY <1>30, <3>1, <3>3 DEF Pairs
  <2> QED
    BY <2>1, <2>2 DEF Changed
<1> QED
  BY <1>1, <1>19, <1>36, <1>37 DEF Rekeyed

-----------------------------------------------------------------------------
(* A new table, and the entries that are moved to a larger one. *)

\* A new table has only free slots.
IsFresh(m, y) == \E R : HoldsEntries(y, R) /\ Pairs(y, R) = {} /\ y.nMax = m /\ y.nz = 0

\* The arrays of the constructor are those of an empty table.
LEMMA FreshHolds ==
  ASSUME class \in {"table", "dictionary"}, NEW m \in Nat \ {0}
  PROVE  IsFresh(m, Table!Fresh(m))
<1>1. PICK d : d = Table!HashSize(m)
  OBVIOUS
<1>2. d \in Nat \ {0}
  BY <1>1 DEF Table!HashSize
<1>3. PICK end : end = Table!UNDEFINED(d)
  OBVIOUS
<1>4. end \in Int /\ end \notin 0 .. m - 1
  BY <1>1, <1>3 DEF Table!HashSize, Table!UNDEFINED, Table!NoIndex
<1>5. PICK x : x = Table!Fresh(m)
  OBVIOUS
<1>6. x = [nMax |-> m, nHash |-> d, UNDEFINED |-> end,
           first |-> [v \in 0 .. d - 1 |-> end],
           next |-> [v \in 0 .. m - 1 |-> IF v = m - 1 THEN end ELSE v + 1],
           index |-> [v \in 0 .. m - 1 |-> Unset], key |-> [v \in 0 .. m - 1 |-> Unset],
           free |-> 0, nz |-> 0]
  BY <1>1, <1>3, <1>5 DEF Table!Fresh
<1>7. /\ x.nMax = m /\ x.nHash = d /\ x.UNDEFINED = end /\ x.free = 0 /\ x.nz = 0
      /\ x.first = [v \in 0 .. d - 1 |-> end]
      /\ x.next = [v \in 0 .. m - 1 |-> IF v = m - 1 THEN end ELSE v + 1]
      /\ x.index = [v \in 0 .. m - 1 |-> Unset] /\ x.key = [v \in 0 .. m - 1 |-> Unset]
      /\ x = [nMax |-> x.nMax, nHash |-> x.nHash, UNDEFINED |-> x.UNDEFINED, first |-> x.first,
              next |-> x.next, index |-> x.index, key |-> x.key, free |-> x.free, nz |-> x.nz]
  BY <1>6
<1>8. /\ Table!Slots(x) = 0 .. m - 1 /\ Rows(x) = 0 .. d /\ Links(x) = (0 .. m - 1) \cup {end}
      /\ 0 \in 0 .. m - 1
  BY <1>7 DEF Table!Slots, Rows, Links
<1>9. TableShape(x)
  <2>1. x.first \in [0 .. x.nHash - 1 -> Links(x)] /\ x.next \in [Table!Slots(x) -> Links(x)]
    BY <1>7, <1>8
  <2>2. x.index = [v \in Table!Slots(x) |-> x.index[v]] /\ x.key = [v \in Table!Slots(x) |-> x.key[v]]
    BY <1>7, <1>8
  <2>3. x.nMax \in Nat \ {0} /\ x.nHash \in Nat \ {0} /\ x.UNDEFINED \in Int \ Table!Slots(x)
        /\ x.free \in Links(x)
    BY <1>2, <1>4, <1>7, <1>8
  <2> QED
    BY <1>7, <2>1, <2>2, <2>3 DEF TableShape
<1>10. PICK all : all = [i \in 1 .. m |-> i - 1]
  OBVIOUS
<1>11. all \in Seq(0 .. m - 1) /\ Len(all) = m /\ \A i \in 1 .. m : all[i] = i - 1
  <2>1. all \in [1 .. m -> 0 .. m - 1]
    BY <1>10
  <2>2. all \in Seq(0 .. m - 1) /\ Len(all) = m
    BY <2>1
  <2> QED
    BY <1>10, <2>2
<1>12. PICK R : R = [h \in 0 .. d |-> IF h = d THEN all ELSE <<>>]
  OBVIOUS
<1>13. /\ R[d] = all /\ \A h \in Rows(x) \ {d} : R[h] = <<>> /\ Len(R[h]) = 0
       /\ d \in Rows(x)
  BY <1>2, <1>8, <1>12
<1>14. R \in [Rows(x) -> Seq(Table!Slots(x))]
  <2>1. <<>> \in Seq(0 .. m - 1)
    OBVIOUS
  <2> QED
    BY <1>8, <1>11, <1>12, <2>1
<1>15. RowsFit(x, R)
  <2>1. ASSUME NEW h \in Rows(x) PROVE HeadOf(x, h) = At(x, R[h], 1)
    <3>1. CASE h = d
      <4>1. 1 <= m /\ all[1] = 0
        BY <1>11
      <4> QED
        BY <1>7, <1>11, <1>13, <3>1, <4>1 DEF HeadOf, At
    <3>2. CASE h # d
      <4>1. h \in 0 .. d - 1
        BY <1>2, <1>8, <3>2
      <4> QED
        BY <1>7, <1>13, <3>2, <4>1 DEF HeadOf, At
    <3> QED
      BY <3>1, <3>2
  <2>2. ASSUME NEW h \in Rows(x), NEW k \in 1 .. Len(R[h]) PROVE x.next[R[h][k]] = At(x, R[h], k + 1)
    <3>1. h = d
      BY <1>13
    <3>2. k \in 1 .. m /\ R[h][k] = k - 1 /\ k - 1 \in 0 .. m - 1
      BY <1>11, <1>13, <3>1
    <3>3. x.next[k - 1] = IF k - 1 = m - 1 THEN end ELSE k - 1 + 1
      BY <1>7, <3>2
    <3>4. CASE k = m
      BY <1>7, <1>11, <1>13, <3>1, <3>2, <3>3, <3>4 DEF At
    <3>5. CASE k # m
      <4>1. k + 1 \in 1 .. m /\ all[k + 1] = k
        BY <1>11, <3>2, <3>5
      <4> QED
        BY <1>11, <1>13, <3>1, <3>2, <3>3, <3>5, <4>1 DEF At
    <3> QED
      BY <3>4, <3>5
  <2> QED
    BY <2>1, <2>2 DEF RowsFit
<1>16. RowsApart(x, R)
  <2>1. ASSUME NEW g \in Rows(x), NEW h \in Rows(x), NEW i \in 1 .. Len(R[g]), NEW j \in 1 .. Len(R[h]),
               R[g][i] = R[h][j]
        PROVE  g = h /\ i = j
    <3>1. g = d /\ h = d
      BY <1>13
    <3>2. i \in 1 .. m /\ j \in 1 .. m /\ i - 1 = j - 1
      BY <1>11, <1>13, <2>1, <3>1
    <3> QED
      BY <3>1, <3>2
  <2>2. ASSUME NEW v \in Table!Slots(x) PROVE \E h \in Rows(x) : \E k \in 1 .. Len(R[h]) : R[h][k] = v
    <3>1. v + 1 \in 1 .. m /\ all[v + 1] = v
      BY <1>8, <1>11
    <3> QED
      BY <1>11, <1>13, <3>1
  <2> QED
    BY <2>1, <2>2 DEF RowsApart
<1>17. HasRows(x, R)
  BY <1>9, <1>14, <1>15, <1>16 DEF HasRows
<1>18. Used(x, R) = {}
  <2>1. ASSUME NEW v \in Table!Slots(x) PROVE v \in ItemsOf(R[x.nHash])
    <3>1. v + 1 \in 1 .. m /\ all[v + 1] = v
      BY <1>8, <1>11
    <3> QED
      BY <1>7, <1>11, <1>13, <3>1 DEF ItemsOf
  <2> QED
    BY <2>1 DEF Used
<1>19. Cardinality({}) = 0
  BY FS_EmptySet
<1>20. \A h \in 0 .. x.nHash - 1 : ItemsOf(R[h]) = {}
  <2>1. \A h \in 0 .. x.nHash - 1 : h \in Rows(x) \ {d}
    BY <1>2, <1>7, <1>8
  <2> QED
    BY <1>13, <2>1 DEF ItemsOf
<1>21. Filled(x, R)
  BY <1>7, <1>18, <1>19, <1>20 DEF Filled
<1>22. Pairs(x, R) = {}
  BY <1>18 DEF Pairs
<1> QED
  BY <1>5, <1>7, <1>17, <1>21, <1>22 DEF IsFresh, HoldsEntries

\* While there are fewer entries than slots, a slot is free.
LEMMA SlotIsFree ==
  ASSUME NEW x, NEW R, HoldsEntries(x, R), x.nz < x.nMax
  PROVE  x.free # x.UNDEFINED
<1> SUFFICES ASSUME x.free = x.UNDEFINED PROVE FALSE
  OBVIOUS
<1>1. /\ TableShape(x) /\ R \in [Rows(x) -> Seq(Table!Slots(x))] /\ RowsFit(x, R)
      /\ x.nz = Cardinality(Used(x, R))
  BY DEF HoldsEntries, HasRows, Filled
<1>2. /\ x.nMax \in Nat /\ x.nHash \in Nat /\ x.UNDEFINED \notin Table!Slots(x)
  BY <1>1 DEF TableShape
<1>3. x.nHash \in Rows(x) /\ HeadOf(x, x.nHash) = x.free
  BY <1>2 DEF Rows, HeadOf
<1>4. PICK c \in Seq(Table!Slots(x)) : c = R[x.nHash]
  BY <1>1, <1>3
<1>5. x.UNDEFINED = At(x, c, 1)
  BY <1>1, <1>3, <1>4 DEF RowsFit
<1>6. ~(1 <= Len(c))
  <2>1. ASSUME 1 <= Len(c) PROVE FALSE
    <3>1. c[1] \in Table!Slots(x)
      BY <2>1
    <3> QED
      BY <1>2, <1>5, <2>1, <3>1 DEF At
  <2> QED
    BY <2>1
<1>7. 1 .. Len(c) = {}
  BY <1>6
<1>8. Used(x, R) = Table!Slots(x)
  BY <1>4, <1>7 DEF Used, ItemsOf
<1>9. Cardinality(Table!Slots(x)) = x.nMax
  BY <1>2, UsedFinite
<1> QED
  BY <1>1, <1>2, <1>8, <1>9

\* y has the entries in the slots P of x, and twice as many slots.
Copied(x, P, y) ==
  \E M : /\ HoldsEntries(y, M) /\ Pairs(y, M) = {<<x.index[v], x.key[v]>> : v \in P}
         /\ y.nMax = 2 * x.nMax /\ y.nz = Cardinality(P)

\* One more entry is moved.
LEMMA CopiedOneMore ==
  ASSUME class = "table", NEW x, NEW R, HoldsEntries(x, R), NEW P \in SUBSET Used(x, R),
         NEW v \in Used(x, R) \ P, NEW y, Copied(x, P, y)
  PROVE  Copied(x, P \cup {v}, Table!Replayed(y, x.index[v], x.key[v]))
<1>1. PICK M : /\ HoldsEntries(y, M) /\ Pairs(y, M) = {<<x.index[u], x.key[u]>> : u \in P}
               /\ y.nMax = 2 * x.nMax /\ y.nz = Cardinality(P)
  BY DEF Copied
<1>2. /\ \A u \in Used(x, R) : x.index[u] \in Tokens /\ x.key[u] # defaultKey
      /\ \A u, t \in Used(x, R) : x.index[u] = x.index[t] => u = t
  BY DEF HoldsEntries, Filled
<1>3. x.nMax \in Nat \ {0}
  BY DEF HoldsEntries, HasRows, TableShape
<1>4. /\ IsFiniteSet(Used(x, R)) /\ Cardinality(Used(x, R)) \in Nat
      /\ Cardinality(Used(x, R)) <= x.nMax
  BY <1>3, UsedFinite
<1>5. IsFiniteSet(P) /\ Cardinality(P) <= Cardinality(Used(x, R)) /\ Cardinality(P) \in Nat
  <2>1. IsFiniteSet(P) /\ Cardinality(P) <= Cardinality(Used(x, R))
    BY <1>4, FS_Subset
  <2> QED
    BY <2>1, FS_CardinalityType
<1>6. y.nz < y.nMax
  BY <1>1, <1>3, <1>4, <1>5
<1>7. y.free # y.UNDEFINED
  BY <1>1, <1>6, SlotIsFree
<1>8. PICK w \in Tokens : w = x.index[v]
  BY <1>2
<1>9. PICK alpha : alpha = x.key[v] /\ alpha # defaultKey
  BY <1>2
<1>10. ASSUME NEW p \in Pairs(y, M) PROVE p[1] # w
  <2>1. PICK u \in P : p = <<x.index[u], x.key[u]>>
    BY <1>1
  <2>2. u # v /\ u \in Used(x, R)
    OBVIOUS
  <2> QED
    BY <1>2, <1>8, <2>1, <2>2
<1>11. PICK z : z = Table!Entered(y, w, alpha)
  OBVIOUS
<1>12. Rekeyed(y, M, w, alpha, z) /\ z.nz = y.nz + 1
  BY <1>1, <1>7, <1>9, <1>10, <1>11, EnteredHolds
<1>13. PICK K : /\ HoldsEntries(z, K) /\ Pairs(z, K) = Changed(Pairs(y, M), w, alpha)
                /\ z.nMax = y.nMax
  BY <1>12 DEF Rekeyed
<1>14. Pairs(z, K) = {<<x.index[u], x.key[u]>> : u \in P \cup {v}}
  <2>1. Changed(Pairs(y, M), w, alpha) = Pairs(y, M) \cup {<<w, alpha>>}
    BY <1>9, <1>10 DEF Changed
  <2> QED
    BY <1>1, <1>8, <1>9, <1>13, <2>1
<1>15. Cardinality(P \cup {v}) = Cardinality(P) + 1
  BY <1>5, FS_AddElement
<1>16. Table!Replayed(y, x.index[v], x.key[v]) = z
  BY <1>8, <1>9, <1>11 DEF Table!Replayed
<1> QED
  BY <1>1, <1>12, <1>13, <1>14, <1>15, <1>16 DEF Copied

\* The greatest element of a set of positions.
LEMMA LastPosition ==
  ASSUME NEW m \in Nat, NEW S \in SUBSET (1 .. m), S # {}
  PROVE  /\ Table!Max(S) \in S /\ \A i \in S : i <= Table!Max(S)
         /\ S \ {Table!Max(S)} \in SUBSET (1 .. m)
         /\ IsFiniteSet(S) /\ Cardinality(S) \in Nat
         /\ Cardinality(S \ {Table!Max(S)}) = Cardinality(S) - 1
<1> DEFINE X == {m - i : i \in S}
<1>1. X \in SUBSET Nat /\ X # {}
  <2>1. \A i \in S : m - i \in Nat
    OBVIOUS
  <2> QED
    BY <2>1
<1>2. PICK k \in X : \A i \in X : ~(<<i, k>> \in OpToRel(<, Nat))
  <2> HIDE DEF X
  <2> QED
    BY <1>1, NatLessThanWellFounded, WFMin
<1>3. PICK j \in S : k = m - j
  OBVIOUS
<1>4. ASSUME NEW i \in S PROVE j >= i
  <2>1. m - i \in X /\ m - i \in Nat /\ m - j \in Nat
    BY <1>1
  <2>2. ~(m - i < m - j)
    BY <1>2, <1>3, <2>1 DEF OpToRel
  <2>3. i \in Nat /\ j \in Nat
    OBVIOUS
  <2> QED
    BY <2>2, <2>3
<1> HIDE DEF X
<1>5. Table!Max(S) \in S /\ \A i \in S : Table!Max(S) >= i
  BY <1>4 DEF Table!Max
<1>6. \A i \in S : i <= Table!Max(S)
  <2>1. \A a \in S : a \in Nat
    OBVIOUS
  <2>2. PICK a \in Nat : a = Table!Max(S) /\ \A i \in S : a >= i
    BY <1>5, <2>1
  <2> QED
    BY <2>1, <2>2
<1>7. IsFiniteSet(1 .. m)
  <2>1. 1 \in Int /\ m \in Int
    OBVIOUS
  <2> QED
    BY ONLY <2>1, FS_Interval
<1>8. IsFiniteSet(S) /\ Cardinality(S) \in Nat
  BY <1>7, FS_Subset, FS_CardinalityType
<1>9. Cardinality(S \ {Table!Max(S)}) = Cardinality(S) - 1
  BY <1>5, <1>8, FS_RemoveElement
<1> QED
  BY <1>5, <1>6, <1>8, <1>9

\* The first positions of a list are those before the last of them, and that one.
LEMMA FirstPositions ==
  ASSUME NEW m \in Nat, NEW k \in Nat, k < m
  PROVE  /\ 1 .. k + 1 \in SUBSET (1 .. m) /\ 1 .. k + 1 # {}
         /\ Table!Max(1 .. k + 1) = k + 1 /\ (1 .. k + 1) \ {k + 1} = 1 .. k
<1>1. PICK S : S = 1 .. k + 1
  OBVIOUS
<1>2. \A i \in S : i \in Nat /\ 1 <= i /\ i <= k + 1 /\ i <= m
  BY <1>1
<1>3. k + 1 \in S /\ S \in SUBSET (1 .. m)
  BY <1>1, <1>2
<1>4. Table!Max(S) \in S /\ \A i \in S : i <= Table!Max(S)
  BY <1>3, LastPosition
<1>5. Table!Max(S) = k + 1
  <2>1. PICK a \in Nat : a = Table!Max(S) /\ a <= k + 1 /\ k + 1 <= a
    BY <1>2, <1>3, <1>4
  <2> QED
    BY <2>1
<1>6. S \ {k + 1} = 1 .. k
  BY <1>1
<1> QED
  BY <1>1, <1>3, <1>5, <1>6

\* The loop on the entries of a chain c, and the one on all chains.
IsReplay(x, y, c, g) ==
  g = [S \in SUBSET DOMAIN c |->
         IF S = {} THEN y
         ELSE Table!Replayed(g[S \ {Table!Max(S)}], x.index[c[Table!Max(S)]], x.key[c[Table!Max(S)]])]

IsRescaling(x, y, c, g) ==
  g = [S \in SUBSET DOMAIN c |->
         IF S = {} THEN y ELSE Table!ReplayedChain(x, g[S \ {Table!Max(S)}], c[Table!Max(S)])]

\* The loops are recursions on the positions that are left.
LEMMA ReplayIsFold ==
  ASSUME NEW x, NEW y, NEW h
  PROVE  Table!ReplayedChain(x, y, h)
           = (CHOOSE g : IsReplay(x, y, Table!Chain(x, x.first[h]), g))[DOMAIN Table!Chain(x, x.first[h])]
BY Zenon DEF Table!ReplayedChain, Table!FoldLeft, Table!MapThenFoldSet, IsReplay

\* And so is the loop on the chains.
LEMMA RescalingIsFold ==
  ASSUME NEW x, NEW c, c = [i \in 1 .. x.nHash |-> i - 1]
  PROVE  Table!Rescaled(x) = (CHOOSE g : IsRescaling(x, Table!Fresh(2 * x.nMax), c, g))[DOMAIN c]
BY Zenon DEF Table!Rescaled, Table!FoldLeft, Table!MapThenFoldSet, IsRescaling

\* One turn of either loop.
Turn(loop, x, y, c, g, S) ==
  IF S = {} THEN y
  ELSE IF loop = "chain"
  THEN Table!Replayed(g[S \ {Table!Max(S)}], x.index[c[Table!Max(S)]], x.key[c[Table!Max(S)]])
  ELSE Table!ReplayedChain(x, g[S \ {Table!Max(S)}], c[Table!Max(S)])

\* A loop is defined for the sets of at most k positions.
TurnsUpTo(loop, x, y, c, m, k, g) ==
  \A S \in SUBSET (1 .. m) : Cardinality(S) <= k => g[S] = Turn(loop, x, y, c, g, S)

IsLoop(loop, x, y, c, m, g) == g = [S \in SUBSET (1 .. m) |-> Turn(loop, x, y, c, g, S)]

\* Either loop has a result for every number of turns.
LEMMA LoopsEnd ==
  ASSUME NEW x, NEW y, NEW c, NEW m \in Nat, NEW loop
  PROVE  \E g : IsLoop(loop, x, y, c, m, g)
<1> DEFINE X == {k \in Nat : \E g : TurnsUpTo(loop, x, y, c, m, k, g)}
<1>1. ASSUME NEW S \in SUBSET (1 .. m), S # {}
      PROVE  /\ S \ {Table!Max(S)} \in SUBSET (1 .. m) /\ Cardinality(S) \in Nat
             /\ Cardinality(S \ {Table!Max(S)}) = Cardinality(S) - 1
  BY <1>1, LastPosition
<1>2. Cardinality({}) = 0
  BY FS_EmptySet
<1>3. 0 \in X
  <2>1. PICK g : g = [S \in SUBSET (1 .. m) |-> y]
    OBVIOUS
  <2>2. ASSUME NEW S \in SUBSET (1 .. m), Cardinality(S) <= 0 PROVE g[S] = Turn(loop, x, y, c, g, S)
    <3>1. CASE S = {}
      BY <2>1, <3>1 DEF Turn
    <3>2. CASE S # {}
      <4>1. Cardinality(S) \in Nat /\ Cardinality(S) - 1 \in Nat
        <5>1. IsFiniteSet(S \ {Table!Max(S)})
          BY <3>2, LastPosition, FS_Subset
        <5>2. Cardinality(S \ {Table!Max(S)}) \in Nat
          BY <5>1, FS_CardinalityType
        <5> QED
          BY <1>1, <3>2, <5>2
      <4> QED
        BY <2>2, <4>1
    <3> QED
      BY <3>1, <3>2
  <2>3. TurnsUpTo(loop, x, y, c, m, 0, g)
    BY <2>2 DEF TurnsUpTo
  <2> QED
    BY <2>3
<1>4. ASSUME NEW k \in X PROVE k + 1 \in X
  <2>1. k \in Nat
    OBVIOUS
  <2>2. PICK g : TurnsUpTo(loop, x, y, c, m, k, g)
    OBVIOUS
  <2>3. PICK f : f = [S \in SUBSET (1 .. m) |-> IF Cardinality(S) <= k THEN g[S] ELSE Turn(loop, x, y, c, g, S)]
    OBVIOUS
  <2>4. ASSUME NEW S \in SUBSET (1 .. m), Cardinality(S) <= k + 1 PROVE f[S] = Turn(loop, x, y, c, f, S)
    <3>1. f[S] = Turn(loop, x, y, c, g, S)
      BY <2>2, <2>3 DEF TurnsUpTo
    <3>2. CASE S = {}
      BY <3>1, <3>2 DEF Turn
    <3>3. CASE S # {}
      <4>1. PICK D : D = S \ {Table!Max(S)}
        OBVIOUS
      <4>2. D \in SUBSET (1 .. m) /\ Cardinality(D) <= k
        BY <1>1, <2>1, <2>4, <3>3, <4>1
      <4>3. f[D] = g[D]
        BY <2>3, <4>2
      <4> QED
        BY <3>1, <3>3, <4>1, <4>3 DEF Turn
    <3> QED
      BY <3>2, <3>3
  <2>5. TurnsUpTo(loop, x, y, c, m, k + 1, f)
    BY <2>4 DEF TurnsUpTo
  <2> QED
    BY <2>1, <2>5
<1>5. X = Nat
  <2>1. X \in SUBSET Nat
    OBVIOUS
  <2> HIDE DEF X
  <2> QED
    BY <1>3, <1>4, <2>1, AllNumbers
<1>6. PICK g : TurnsUpTo(loop, x, y, c, m, m, g)
  BY <1>5
<1>7. ASSUME NEW S \in SUBSET (1 .. m) PROVE Cardinality(S) <= m
  <2>1. 1 \in Int /\ m \in Int
    OBVIOUS
  <2>2. IsFiniteSet(1 .. m) /\ Cardinality(1 .. m) = IF 1 > m THEN 0 ELSE m - 1 + 1
    BY ONLY <2>1, FS_Interval
  <2>3. Cardinality(1 .. m) = m
    BY <2>2
  <2> QED
    BY <2>2, <2>3, FS_Subset
<1>8. PICK f : f = [S \in SUBSET (1 .. m) |-> g[S]]
  OBVIOUS
<1>9. ASSUME NEW S \in SUBSET (1 .. m) PROVE g[S] = Turn(loop, x, y, c, f, S)
  <2>1. g[S] = Turn(loop, x, y, c, g, S)
    BY <1>6, <1>7 DEF TurnsUpTo
  <2>2. CASE S = {}
    BY <2>1, <2>2 DEF Turn
  <2>3. CASE S # {}
    <3>1. PICK D : D = S \ {Table!Max(S)}
      OBVIOUS
    <3>2. f[D] = g[D]
      BY <1>1, <1>8, <2>3, <3>1
    <3> QED
      BY <2>1, <2>3, <3>1, <3>2 DEF Turn
  <2> QED
    BY <2>2, <2>3
<1>10. f = [S \in SUBSET (1 .. m) |-> Turn(loop, x, y, c, f, S)]
  BY <1>8, <1>9
<1> QED
  BY <1>10 DEF IsLoop

\* So the loop on a chain has one.
LEMMA ReplayExists ==
  ASSUME NEW x, NEW y, NEW c, NEW m \in Nat, DOMAIN c = 1 .. m
  PROVE  \E g : IsReplay(x, y, c, g)
<1>1. PICK g : IsLoop("chain", x, y, c, m, g)
  BY LoopsEnd
<1> QED
  BY <1>1 DEF IsLoop, IsReplay, Turn

\* And the one on all chains.
LEMMA RescalingExists ==
  ASSUME NEW x, NEW y, NEW c, NEW m \in Nat, DOMAIN c = 1 .. m
  PROVE  \E g : IsRescaling(x, y, c, g)
<1>1. PICK g : IsLoop("all", x, y, c, m, g)
  BY LoopsEnd
<1> QED
  BY <1>1 DEF IsLoop, IsRescaling, Turn

\* The slots of the chains below h, and the first j of chain h.
UpTo(R, h, j) == (UNION {ItemsOf(R[g]) : g \in 0 .. h - 1}) \cup {R[h][k] : k \in 1 .. j}

\* The entries of a chain are moved.
LEMMA ChainCopied ==
  ASSUME class = "table", NEW x, NEW R, HoldsEntries(x, R), NEW h \in 0 .. x.nHash - 1,
         NEW y, Copied(x, UpTo(R, h, 0), y)
  PROVE  Copied(x, UpTo(R, h, Len(R[h])), Table!ReplayedChain(x, y, h))
<1>1. /\ R \in [Rows(x) -> Seq(Table!Slots(x))] /\ RowsApart(x, R) /\ x.nHash \in Nat /\ HasRows(x, R)
  BY DEF HoldsEntries, HasRows, TableShape
<1>2. /\ h \in Rows(x) /\ h # x.nHash /\ HeadOf(x, h) = x.first[h]
      /\ \A g \in 0 .. h - 1 : g \in Rows(x) /\ g # h /\ g \in 0 .. x.nHash - 1
  BY <1>1 DEF Rows, HeadOf
<1>3. PICK c \in Seq(Table!Slots(x)) : c = R[h]
  BY <1>1, <1>2
<1>4. PICK m \in Nat : m = Len(c)
  BY <1>3
<1>5. Table!Chain(x, x.first[h]) = c /\ DOMAIN c = 1 .. m
  BY <1>1, <1>2, <1>3, <1>4, RowIs
<1>6. PICK g : IsReplay(x, y, c, g) /\ Table!ReplayedChain(x, y, h) = g[1 .. m]
  <2>1. \E f : IsReplay(x, y, c, f)
    BY <1>4, <1>5, ReplayExists
  <2>2. PICK g : g = CHOOSE f : IsReplay(x, y, c, f)
    OBVIOUS
  <2>3. IsReplay(x, y, c, g)
    BY <2>1, <2>2, Zenon
  <2>4. Table!ReplayedChain(x, y, h) = (CHOOSE f : IsReplay(x, y, c, f))[DOMAIN c]
    BY <1>5, ReplayIsFold
  <2> QED
    BY <1>5, <2>2, <2>3, <2>4
<1>7. \A S \in SUBSET (1 .. m) : g[S] = Turn("chain", x, y, c, g, S)
  BY <1>5, <1>6 DEF IsReplay, Turn
<1>8. ASSUME NEW k \in 1 .. m PROVE c[k] \in Used(x, R)
  BY <1>1, <1>3, <1>4, UsedAre DEF ItemsOf
<1>9. ASSUME NEW k \in 0 .. m
      PROVE  UpTo(R, h, k) \in SUBSET Used(x, R)
  <2>1. ASSUME NEW r \in 0 .. h - 1, NEW u \in ItemsOf(R[r]) PROVE u \in Used(x, R)
    BY <1>1, <1>2, UsedAre
  <2>2. \A j \in 1 .. k : R[h][j] \in Used(x, R)
    <3>1. \A j \in 1 .. k : j \in 1 .. m
      BY <1>4
    <3> QED
      BY <1>3, <1>8, <3>1
  <2> QED
    BY <2>1, <2>2 DEF UpTo
<1>10. ASSUME NEW k \in Nat, k < m
       PROVE  UpTo(R, h, k + 1) = UpTo(R, h, k) \cup {c[k + 1]} /\ c[k + 1] \notin UpTo(R, h, k)
  <2>1. 1 .. k + 1 = (1 .. k) \cup {k + 1}
    OBVIOUS
  <2>2. {R[h][j] : j \in 1 .. k + 1} = {R[h][j] : j \in 1 .. k} \cup {c[k + 1]}
    BY <1>3, <2>1
  <2>3. k + 1 \in 1 .. m /\ c[k + 1] \in ItemsOf(R[h])
    BY <1>3, <1>4, <1>10 DEF ItemsOf
  <2>4. ASSUME NEW r \in 0 .. h - 1 PROVE c[k + 1] \notin ItemsOf(R[r])
    <3> SUFFICES ASSUME c[k + 1] \in ItemsOf(R[r]) PROVE FALSE
      OBVIOUS
    <3>1. r \in Rows(x) /\ r # h
      BY <1>2
    <3>2. r = h
      BY <1>1, <1>2, <2>3, <3>1, OneRow
    <3> QED
      BY <3>1, <3>2
  <2>5. ASSUME NEW j \in 1 .. k PROVE R[h][j] # c[k + 1]
    <3>1. \A i, l \in 1 .. Len(R[h]) : R[h][i] = R[h][l] => h = h /\ i = l
      BY <1>1, <1>2 DEF RowsApart
    <3>2. \A i, l \in 1 .. m : c[i] = c[l] => i = l
      BY <1>3, <1>4, <3>1
    <3>3. j \in 1 .. m /\ k + 1 \in 1 .. m /\ j # k + 1
      BY <1>4, <2>3
    <3> QED
      BY <1>3, <3>2, <3>3
  <2> QED
    BY <2>2, <2>4, <2>5 DEF UpTo
<1> DEFINE X == {k \in Nat : k <= m => Copied(x, UpTo(R, h, k), g[1 .. k])}
<1>11. 0 \in X
  <2>1. 1 .. 0 = {} /\ {} \in SUBSET (1 .. m)
    OBVIOUS
  <2>2. g[{}] = y
    BY <1>7, <2>1 DEF Turn
  <2> QED
    BY <2>1, <2>2
<1>12. ASSUME NEW k \in X PROVE k + 1 \in X
  <2>1. k \in Nat
    OBVIOUS
  <2> SUFFICES ASSUME k + 1 <= m PROVE Copied(x, UpTo(R, h, k + 1), g[1 .. k + 1])
    BY <2>1
  <2>2. Copied(x, UpTo(R, h, k), g[1 .. k]) /\ k < m
    BY <2>1
  <2>3. PICK S : S = 1 .. k + 1
    OBVIOUS
  <2>4. S \in SUBSET (1 .. m) /\ S # {} /\ Table!Max(S) = k + 1 /\ S \ {k + 1} = 1 .. k
    BY <1>4, <2>1, <2>2, <2>3, FirstPositions
  <2>5. g[S] = Turn("chain", x, y, c, g, S)
    BY <1>7, <2>4
  <2>6. g[S] = Table!Replayed(g[1 .. k], x.index[c[k + 1]], x.key[c[k + 1]])
    BY ONLY <2>4, <2>5 DEF Turn
  <2>7. k + 1 \in 1 .. m /\ k \in 0 .. m
    BY <2>1, <2>2
  <2>8. PICK P : P = UpTo(R, h, k)
    OBVIOUS
  <2>9. P \in SUBSET Used(x, R) /\ c[k + 1] \in Used(x, R) \ P /\ UpTo(R, h, k + 1) = P \cup {c[k + 1]}
    BY <1>8, <1>9, <1>10, <2>1, <2>2, <2>7, <2>8
  <2>10. Copied(x, P \cup {c[k + 1]}, Table!Replayed(g[1 .. k], x.index[c[k + 1]], x.key[c[k + 1]]))
    BY <2>2, <2>8, <2>9, CopiedOneMore
  <2> QED
    BY <2>3, <2>6, <2>9, <2>10
<1>13. X = Nat
  <2>1. X \in SUBSET Nat
    OBVIOUS
  <2> HIDE DEF X
  <2> QED
    BY <1>11, <1>12, <2>1, AllNumbers
<1>14. m \in X
  BY <1>13
<1> QED
  BY <1>3, <1>4, <1>6, <1>14

\* The table of twice the size has the entries of the other one.
LEMMA RescaledHolds ==
  ASSUME class = "table", NEW x, NEW R, HoldsEntries(x, R)
  PROVE  Copied(x, Used(x, R), Table!Rescaled(x))
<1>1. x.nHash \in Nat \ {0} /\ x.nMax \in Nat \ {0} /\ HasRows(x, R)
  BY DEF HoldsEntries, HasRows, TableShape
<1>2. PICK m \in Nat : m = x.nHash
  BY <1>1
<1>3. PICK c : c = [i \in 1 .. m |-> i - 1]
  OBVIOUS
<1>4. PICK y : y = Table!Fresh(2 * x.nMax)
  OBVIOUS
<1>5. DOMAIN c = 1 .. m /\ \A i \in 1 .. m : c[i] = i - 1
  BY <1>3
<1>6. PICK g : IsRescaling(x, y, c, g) /\ Table!Rescaled(x) = g[1 .. m]
  <2>1. \E f : IsRescaling(x, y, c, f)
    BY <1>5, RescalingExists
  <2>2. PICK g : g = CHOOSE f : IsRescaling(x, y, c, f)
    OBVIOUS
  <2>3. IsRescaling(x, y, c, g)
    BY <2>1, <2>2, Zenon
  <2>4. c = [i \in 1 .. x.nHash |-> i - 1]
    BY <1>2, <1>3
  <2>5. Table!Rescaled(x) = (CHOOSE f : IsRescaling(x, Table!Fresh(2 * x.nMax), c, f))[DOMAIN c]
    BY ONLY <2>4, RescalingIsFold
  <2>6. Table!Rescaled(x) = g[DOMAIN c]
    BY ONLY <1>4, <2>2, <2>5
  <2> QED
    BY <1>5, <2>3, <2>6
<1>7. \A S \in SUBSET (1 .. m) : g[S] = Turn("all", x, y, c, g, S)
  BY <1>5, <1>6 DEF IsRescaling, Turn
<1>8. Copied(x, {}, y)
  <2>1. 2 * x.nMax \in Nat \ {0}
    BY <1>1
  <2>2. IsFresh(2 * x.nMax, y)
    BY <1>4, <2>1, FreshHolds
  <2>3. Cardinality({}) = 0
    BY FS_EmptySet
  <2> QED
    BY <2>2, <2>3 DEF IsFresh, Copied
<1> DEFINE X == {k \in Nat : k <= m => Copied(x, UpTo(R, k, 0), g[1 .. k])}
<1>9. 0 \in X
  <2>1. 1 .. 0 = {} /\ {} \in SUBSET (1 .. m) /\ 0 .. 0 - 1 = {}
    OBVIOUS
  <2>2. g[{}] = y
    BY <1>7, <2>1 DEF Turn
  <2>3. UpTo(R, 0, 0) = {}
    BY <2>1 DEF UpTo
  <2> QED
    BY <1>8, <2>1, <2>2, <2>3
<1>10. ASSUME NEW k \in X PROVE k + 1 \in X
  <2>1. k \in Nat
    OBVIOUS
  <2> SUFFICES ASSUME k + 1 <= m PROVE Copied(x, UpTo(R, k + 1, 0), g[1 .. k + 1])
    BY <2>1
  <2>2. Copied(x, UpTo(R, k, 0), g[1 .. k]) /\ k < m
    BY <2>1
  <2>3. PICK S : S = 1 .. k + 1
    OBVIOUS
  <2>4. S \in SUBSET (1 .. m) /\ S # {} /\ Table!Max(S) = k + 1 /\ S \ {k + 1} = 1 .. k
    BY <2>1, <2>2, <2>3, FirstPositions
  <2>5. g[S] = Turn("all", x, y, c, g, S)
    BY <1>7, <2>4
  <2>6. c[k + 1] = k
    BY <1>5, <2>1, <2>2
  <2>7. g[S] = Table!ReplayedChain(x, g[1 .. k], k)
    BY ONLY <2>4, <2>5, <2>6 DEF Turn
  <2>8. k \in 0 .. x.nHash - 1
    BY <1>2, <2>1, <2>2
  <2>9. Copied(x, UpTo(R, k, Len(R[k])), Table!ReplayedChain(x, g[1 .. k], k))
    BY <2>2, <2>8, ChainCopied
  <2>10. UpTo(R, k + 1, 0) = UpTo(R, k, Len(R[k]))
    <3>1. 0 .. (k + 1) - 1 = (0 .. k - 1) \cup {k} /\ 1 .. 0 = {}
      BY <2>1
    <3>2. UpTo(R, k + 1, 0) = UNION {ItemsOf(R[h]) : h \in 0 .. (k + 1) - 1}
      BY <3>1 DEF UpTo
    <3>3. UpTo(R, k, Len(R[k])) = (UNION {ItemsOf(R[h]) : h \in 0 .. k - 1}) \cup ItemsOf(R[k])
      BY DEF UpTo, ItemsOf
    <3> QED
      BY <3>1, <3>2, <3>3
  <2> QED
    BY <2>3, <2>7, <2>9, <2>10
<1>11. X = Nat
  <2>1. X \in SUBSET Nat
    OBVIOUS
  <2> HIDE DEF X
  <2> QED
    BY <1>9, <1>10, <2>1, AllNumbers
<1>12. m \in X
  BY <1>11
<1>13. Copied(x, UpTo(R, m, 0), g[1 .. m])
  BY <1>12
<1>14. UpTo(R, m, 0) = Used(x, R)
  <2>1. UpTo(R, m, 0) = UNION {ItemsOf(R[h]) : h \in 0 .. x.nHash - 1}
    BY <1>2 DEF UpTo
  <2>2. \A v : v \in Used(x, R) <=> \E h \in 0 .. x.nHash - 1 : v \in ItemsOf(R[h])
    BY <1>1, UsedAre
  <2> QED
    BY <2>1, <2>2
<1> QED
  BY <1>6, <1>13, <1>14

\* To double the size of a table changes no entry, and there are free slots then.
LEMMA RescaledKeepsPairs ==
  ASSUME class = "table", NEW x, NEW R, HoldsEntries(x, R)
  PROVE  \E M : /\ HoldsEntries(Table!Rescaled(x), M)
                /\ Pairs(Table!Rescaled(x), M) = Pairs(x, R)
                /\ Table!Rescaled(x).free # Table!Rescaled(x).UNDEFINED
<1>1. PICK y : y = Table!Rescaled(x)
  OBVIOUS
<1>2. PICK M : /\ HoldsEntries(y, M) /\ Pairs(y, M) = {<<x.index[v], x.key[v]>> : v \in Used(x, R)}
               /\ y.nMax = 2 * x.nMax /\ y.nz = Cardinality(Used(x, R))
  BY <1>1, RescaledHolds DEF Copied
<1>3. x.nMax \in Nat \ {0}
  BY DEF HoldsEntries, HasRows, TableShape
<1>4. Cardinality(Used(x, R)) \in Nat /\ Cardinality(Used(x, R)) <= x.nMax
  BY <1>3, UsedFinite
<1>5. y.nz < y.nMax
  BY <1>2, <1>3, <1>4
<1>6. y.free # y.UNDEFINED
  BY <1>2, <1>5, SlotIsFree
<1> QED
  BY <1>1, <1>2, <1>6 DEF Pairs

-----------------------------------------------------------------------------
(* The table of the client. *)

TableInv == class \in {"table", "dictionary"} /\ \E R : HoldsEntries(T, R)

\* A list is not longer than the number of slots.
LEMMA RowLength ==
  ASSUME NEW x, NEW R, HasRows(x, R), NEW h \in Rows(x)
  PROVE  Len(R[h]) \in Nat /\ Len(R[h]) <= x.nMax
<1>1. R \in [Rows(x) -> Seq(Table!Slots(x))] /\ RowsApart(x, R) /\ x.nMax \in Nat
  BY DEF HasRows, TableShape
<1>2. PICK c \in Seq(Table!Slots(x)) : c = R[h]
  BY <1>1
<1>3. PICK m \in Nat : m = Len(c)
  BY <1>2
<1>4. \A i, j \in 1 .. m : c[i] = c[j] => i = j
  <2>1. \A i, j \in 1 .. Len(R[h]) : R[h][i] = R[h][j] => h = h /\ i = j
    BY <1>1 DEF RowsApart
  <2> QED
    BY <1>2, <1>3, <2>1
<1>5. PICK f : f = [i \in 1 .. m |-> c[i]]
  OBVIOUS
<1>6. f \in Injection(1 .. m, Table!Slots(x))
  <2>1. \A i \in 1 .. m : c[i] \in Table!Slots(x)
    BY <1>2, <1>3
  <2> QED
    BY <1>4, <1>5, <2>1 DEF Injection, IsInjective
<1>7. IsFiniteSet(Table!Slots(x)) /\ Cardinality(Table!Slots(x)) = x.nMax
  BY <1>1, UsedFinite
<1>8. Cardinality(1 .. m) <= Cardinality(Table!Slots(x))
  BY <1>6, <1>7, FS_Injection
<1>9. Cardinality(1 .. m) = m
  <2>1. 1 \in Int /\ m \in Int
    OBVIOUS
  <2>2. Cardinality(1 .. m) = IF 1 > m THEN 0 ELSE m - 1 + 1
    BY ONLY <2>1, FS_Interval
  <2> QED
    BY <2>2
<1> QED
  BY <1>2, <1>3, <1>7, <1>8, <1>9

\* The lists that are kept by the links are those of the slots.
LEMMA SlotsKept ==
  ASSUME TableInv
  PROVE  Table!SlotsAreKept
<1>1. PICK R : HoldsEntries(T, R)
  BY DEF TableInv
<1>2. /\ HasRows(T, R) /\ R \in [Rows(T) -> Seq(Table!Slots(T))] /\ RowsApart(T, R) /\ T.nHash \in Nat
      /\ \A h \in 0 .. T.nHash - 1 : \A u \in ItemsOf(R[h]) : Table!Bucket(T, T.index[u]) = h
  BY <1>1 DEF HoldsEntries, HasRows, TableShape, Filled
<1>3. ASSUME NEW h \in Rows(T)
      PROVE  Table!List(T, h) = R[h] /\ DOMAIN R[h] = 1 .. Len(R[h]) /\ Len(R[h]) <= T.nMax
             /\ Len(R[h]) \in Nat
  <2>1. Table!Chain(T, HeadOf(T, h)) = R[h]
    BY <1>2, RowIs
  <2>2. Len(R[h]) <= T.nMax /\ Len(R[h]) \in Nat
    BY <1>2, RowLength
  <2>3. DOMAIN R[h] = 1 .. Len(R[h])
    BY <1>2
  <2> QED
    BY <2>1, <2>2, <2>3 DEF Table!List, HeadOf
<1>4. T.nMax \in Nat
  BY <1>2 DEF HasRows, TableShape
<1> DEFINE Places(v) == {p \in (0 .. T.nHash) \X (1 .. T.nMax) :
                           p[2] \in DOMAIN Table!List(T, p[1]) /\ Table!List(T, p[1])[p[2]] = v}
<1>5. ASSUME NEW v \in Table!Slots(T) PROVE \E p \in Places(v) : Places(v) = {p}
  <2>1. PICK h \in Rows(T) : \E k \in 1 .. Len(R[h]) : R[h][k] = v
    BY <1>2 DEF RowsApart
  <2>2. PICK k \in 1 .. Len(R[h]) : R[h][k] = v
    BY <2>1
  <2>3. h \in 0 .. T.nHash /\ k \in 1 .. T.nMax
    BY <1>3, <1>4 DEF Rows
  <2>4. <<h, k>> \in Places(v)
    BY <1>3, <2>2, <2>3
  <2>5. ASSUME NEW p \in Places(v) PROVE p = <<h, k>>
    <3>1. /\ p = <<p[1], p[2]>> /\ p[1] \in Rows(T)
          /\ p[2] \in DOMAIN Table!List(T, p[1]) /\ Table!List(T, p[1])[p[2]] = v
      BY DEF Rows
    <3>2. p[2] \in 1 .. Len(R[p[1]]) /\ R[p[1]][p[2]] = v
      BY <1>3, <3>1
    <3>3. p[1] = h /\ p[2] = k
      <4>1. PICK g \in Rows(T) : g = p[1]
        BY <3>1
      <4>2. PICK j \in 1 .. Len(R[g]) : j = p[2]
        BY <3>2, <4>1
      <4>3. R[g][j] = R[h][k]
        BY <2>2, <3>2, <4>1, <4>2
      <4>4. \A a, b \in Rows(T) : \A i \in 1 .. Len(R[a]), l \in 1 .. Len(R[b]) :
              R[a][i] = R[b][l] => a = b /\ i = l
        BY <1>2 DEF RowsApart
      <4>5. g = h /\ j = k
        BY <4>3, <4>4
      <4> QED
        BY <4>1, <4>2, <4>5
    <3> QED
      BY <3>1, <3>3
  <2> QED
    BY <2>4, <2>5
<1>6. ASSUME NEW h \in 0 .. T.nHash - 1, NEW v \in Table!ToSet(Table!List(T, h))
      PROVE  Table!Bucket(T, T.index[v]) = h
  <2>1. h \in Rows(T)
    BY <1>2 DEF Rows
  <2>2. v \in ItemsOf(R[h])
    BY <1>3, <1>6, <2>1 DEF Table!ToSet, ItemsOf
  <2> QED
    BY <1>2, <2>2
<1> QED
  BY <1>5, <1>6 DEF Table!SlotsAreKept

\* NZ() is the number of items with a key of their own.
LEMMA ItemsCounted ==
  ASSUME TableInv
  PROVE  Table!Abstract!Counted
<1>1. PICK R : HoldsEntries(T, R)
  BY DEF TableInv
<1>2. T.nz = Cardinality({w \in Tokens : Table!KeyOf(T, w) # defaultKey})
  BY <1>1, EntriesAreCounted
<1>3. {w \in Tokens : Table!KeyOf(T, w) # defaultKey}
        = {w \in Tokens : [u \in Tokens |-> Table!KeyOf(T, u)][w] # defaultKey}
  OBVIOUS
<1>4. \A S : Table!Abstract!Cardinality(S) = Cardinality(S)
  BY Zenon DEF Table!Abstract!Cardinality, Cardinality
<1> QED
  BY <1>2, <1>3, <1>4 DEF Table!Abstract!Counted

\* All items of a new table have the default key.
LEMMA DefaultKeys ==
  ASSUME NEW m, NEW x, IsFresh(m, x)
  PROVE  [w \in Tokens |-> Table!KeyOf(x, w)] = [w \in Tokens |-> defaultKey]
<1>1. PICK R : HoldsEntries(x, R) /\ Pairs(x, R) = {}
  BY DEF IsFresh
<1>2. ASSUME NEW w \in Tokens PROVE Table!KeyOf(x, w) = defaultKey
  BY <1>1, KeyIs DEF IsKey
<1> QED
  BY <1>2

\* To set the key that an item has changes nothing.
LEMMA SameKey ==
  ASSUME NEW x, NEW R, HoldsEntries(x, R), NEW w \in Tokens
  PROVE  Pairs(x, R) = Changed(Pairs(x, R), w, Table!KeyOf(x, w))
<1>1. PICK P : P = Pairs(x, R)
  OBVIOUS
<1>2. PICK alpha : alpha = Table!KeyOf(x, w)
  OBVIOUS
<1>3. IF \E p \in P : p[1] = w THEN <<w, alpha>> \in P ELSE alpha = defaultKey
  BY <1>1, <1>2, KeyIs DEF IsKey
<1>4. /\ \A p, r \in P : p[1] = r[1] => p = r
      /\ \A p \in P : p[2] # defaultKey
  BY <1>1, PairsAre
<1>5. <<w, alpha>>[1] = w /\ <<w, alpha>>[2] = alpha
  OBVIOUS
<1>6. CASE \E p \in P : p[1] = w
  <2>1. <<w, alpha>> \in P /\ alpha # defaultKey
    BY <1>3, <1>4, <1>5, <1>6
  <2>2. \A p \in P : p[1] = w => p = <<w, alpha>>
    BY <1>4, <1>5, <2>1
  <2>3. Changed(P, w, alpha) = P
    BY <2>1, <2>2 DEF Changed
  <2> QED
    BY <1>1, <1>2, <2>3
<1>7. CASE ~ \E p \in P : p[1] = w
  <2>1. Changed(P, w, alpha) = P
    BY <1>3, <1>7 DEF Changed
  <2> QED
    BY <1>1, <1>2, <2>1
<1> QED
  BY <1>6, <1>7

\* The table after ChangeKey().
IsChanged(x, R, w, alpha, y) ==
  \E M : HoldsEntries(y, M) /\ Pairs(y, M) = Changed(Pairs(x, R), w, alpha)

\* An item gets a key, in its slot or in a new one, of this table or of a larger one.
LEMMA StoredHolds ==
  ASSUME NEW x, NEW R, HoldsEntries(x, R), NEW w \in Tokens, NEW alpha, alpha # defaultKey,
         Table!Full(x) /\ Table!Found(x, w) = x.UNDEFINED => class = "table"
  PROVE  IsChanged(x, R, w, alpha, Table!Stored(x, w, alpha))
<1>1. IsFound(x, R, w, Table!Found(x, w))
  BY FoundIs
<1>2. x.UNDEFINED \notin Table!Slots(x)
  BY DEF HoldsEntries, HasRows, TableShape
<1>3. CASE Table!Found(x, w) # x.UNDEFINED
  <2>1. PICK v \in Used(x, R) : v = Table!Found(x, w) /\ x.index[v] = w
    BY <1>1, <1>3 DEF IsFound
  <2>2. Rekeyed(x, R, w, alpha, [x EXCEPT !.key[v] = alpha])
    BY <2>1, RewrittenHolds
  <2>3. Table!Stored(x, w, alpha) = [x EXCEPT !.key[v] = alpha]
    BY <1>3, <2>1 DEF Table!Stored
  <2> QED
    BY <2>2, <2>3 DEF Rekeyed, IsChanged
<1>4. CASE Table!Found(x, w) = x.UNDEFINED
  <2>1. \A p \in Pairs(x, R) : p[1] # w
    <3>1. \A u \in Used(x, R) : x.index[u] # w
      BY <1>1, <1>2, <1>4 DEF IsFound, Used
    <3> QED
      BY <3>1 DEF Pairs
  <2>2. PICK z : z = IF Table!Full(x) THEN Table!Rescaled(x) ELSE x
    OBVIOUS
  <2>3. \E M : HoldsEntries(z, M) /\ Pairs(z, M) = Pairs(x, R) /\ z.free # z.UNDEFINED
    <3>1. CASE Table!Full(x)
      BY <1>4, <2>2, <3>1, RescaledKeepsPairs
    <3>2. CASE ~Table!Full(x)
      BY <2>2, <3>2 DEF Table!Full
    <3> QED
      BY <3>1, <3>2
  <2>4. PICK M : HoldsEntries(z, M) /\ Pairs(z, M) = Pairs(x, R) /\ z.free # z.UNDEFINED
    BY <2>3
  <2>5. Rekeyed(z, M, w, alpha, Table!Entered(z, w, alpha))
    BY <2>1, <2>4, EnteredHolds
  <2>6. Table!Stored(x, w, alpha) = Table!Entered(z, w, alpha)
    BY <1>4, <2>2 DEF Table!Stored
  <2> QED
    BY <2>4, <2>5, <2>6 DEF Rekeyed, IsChanged
<1> QED
  BY <1>3, <1>4

\* ChangeKey() changes the key of one item.
LEMMA ChangeKeyStep ==
  ASSUME TableInv, NEW w \in Tokens, NEW alpha, Table!ChangeKey(w, alpha), class' = class, Cautious
  PROVE  TableInv' /\ Table!Abstract!ChangeKey(w, alpha)
<1>1. PICK R : HoldsEntries(T, R)
  BY DEF TableInv
<1>2. PICK k : k = Table!KeyOf(T, w)
  OBVIOUS
<1>3. /\ Table!Full(T) /\ Table!Found(T, w) = T.UNDEFINED /\ alpha # defaultKey => class = "table"
      /\ request' = <<w, alpha>>
  BY DEF Table!ChangeKey
<1>4. T' = CASE k = alpha -> T
             [] k # alpha /\ alpha = defaultKey -> Table!Unlinked(T, w)
             [] OTHER -> Table!Stored(T, w, alpha)
  BY <1>2 DEF Table!ChangeKey
<1>5. /\ k = alpha => T' = T
      /\ k # alpha /\ alpha = defaultKey => T' = Table!Unlinked(T, w)
      /\ k # alpha /\ alpha # defaultKey => T' = Table!Stored(T, w, alpha)
  BY <1>4, Zenon
<1>6. IsChanged(T, R, w, alpha, T')
  <2>1. CASE k = alpha
    <3>1. Pairs(T, R) = Changed(Pairs(T, R), w, alpha)
      BY <1>1, <1>2, <2>1, SameKey
    <3> QED
      BY <1>1, <1>5, <2>1, <3>1 DEF IsChanged
  <2>2. CASE k # alpha /\ alpha = defaultKey
    <3>1. Table!Found(T, w) # T.UNDEFINED
      BY <1>2, <2>2 DEF Table!KeyOf
    <3>2. Rekeyed(T, R, w, defaultKey, Table!Unlinked(T, w))
      BY <1>1, <3>1, UnlinkedHolds
    <3> QED
      BY <1>5, <2>2, <3>2 DEF Rekeyed, IsChanged
  <2>3. CASE k # alpha /\ alpha # defaultKey
    <3>1. IsChanged(T, R, w, alpha, Table!Stored(T, w, alpha))
      BY <1>1, <1>3, <2>3, StoredHolds
    <3> QED
      BY <1>5, <2>3, <3>1
  <2> QED
    BY <2>1, <2>2, <2>3
<1>7. PICK M : HoldsEntries(T', M) /\ Pairs(T', M) = Changed(Pairs(T, R), w, alpha)
  BY <1>6 DEF IsChanged
<1>8. TableInv'
  BY <1>7 DEF TableInv
<1>9. [u \in Tokens |-> Table!KeyOf(T', u)] = [[u \in Tokens |-> Table!KeyOf(T, u)] EXCEPT ![w] = alpha]
  BY <1>1, <1>7, KeysChange
<1> QED
  BY <1>3, <1>8, <1>9 DEF Table!Abstract!ChangeKey

\* A table is emptied.
LEMMA ClearTableStep ==
  ASSUME TableInv, Table!Clear, class' = class
  PROVE  TableInv' /\ Table!Abstract!Clear
<1>1. PICK m \in Nat \ {0} : m = T.nMax
  BY DEF TableInv, HoldsEntries, HasRows, TableShape
<1>2. T' = Table!Fresh(m) /\ request' = <<>>
  BY <1>1 DEF Table!Clear
<1>3. IsFresh(m, T')
  BY <1>2, FreshHolds DEF TableInv
<1>4. TableInv'
  BY <1>3 DEF TableInv, IsFresh
<1>5. [w \in Tokens |-> Table!KeyOf(T', w)] = [w \in Tokens |-> defaultKey]
  BY <1>3, DefaultKeys
<1> QED
  BY <1>2, <1>4, <1>5 DEF Table!Abstract!Clear

\* A hash table, and a dictionary that its callers do not fill up, answers like a map from
\* items to keys, across the insertions that move all entries to a larger table and the
\* removals from the middle of a chain; and every slot is in the chain of its item or in the
\* list of free slots, in one of them once.
THEOREM TablesAreMaps == Cautious => (ContainerSpec => ImplementsTable)
<1> SUFFICES ASSUME Cautious PROVE ContainerSpec => ImplementsTable
  OBVIOUS
<1> DEFINE keys == [w \in Tokens |-> Table!KeyOf(T, w)]
<1>1. Begin => TableInv /\ keys = [w \in Tokens |-> defaultKey] /\ request = <<>>
  <2> SUFFICES ASSUME Table!Init
               PROVE  TableInv /\ keys = [w \in Tokens |-> defaultKey] /\ request = <<>>
    BY DEF Begin
  <2>1. class \in {"table", "dictionary"} /\ request = <<>>
    BY DEF Table!Init
  <2>2. PICK m \in Sizes : T = Table!Fresh(m)
    BY DEF Table!Init
  <2>3. IsFresh(m, T)
    BY <2>1, <2>2, TableSizes, FreshHolds
  <2>4. TableInv
    BY <2>1, <2>3 DEF TableInv, IsFresh
  <2>5. keys = [w \in Tokens |-> defaultKey]
    BY <2>3, DefaultKeys
  <2> QED
    BY <2>1, <2>4, <2>5
<1>2. Begin => Table!Abstract!Init
  BY <1>1, ItemsCounted DEF Table!Abstract!Init
<1>3. ASSUME TableInv, [Step]_<<subject, family, lists, table>>
      PROVE  /\ TableInv'
             /\ \/ Table!Abstract!Clear
                \/ \E w \in Tokens, alpha \in Keys \cup {defaultKey} : Table!Abstract!ChangeKey(w, alpha)
                \/ UNCHANGED <<class, T, request>>
  <2>1. CASE Table!Next
    <3>1. class' = class
      BY <2>1 DEF Table!Next
    <3>2. CASE Table!Clear
      BY <1>3, <3>1, <3>2, ClearTableStep
    <3>3. ASSUME NEW w \in Tokens, NEW alpha \in Keys \cup {defaultKey}, Table!ChangeKey(w, alpha)
          PROVE  TableInv' /\ Table!Abstract!ChangeKey(w, alpha)
      BY <1>3, <3>1, <3>3, ChangeKeyStep
    <3> QED
      BY <2>1, <3>2, <3>3 DEF Table!Next
  <2>2. CASE UNCHANGED <<class, T, request>>
    BY <1>3, <2>2 DEF TableInv
  <2> QED
    BY <1>3, <2>1, <2>2 DEF Step, table
<1>4. TableInv => Table!Abstract!Counted /\ Table!SlotsAreKept
  BY ItemsCounted, SlotsKept
<1>5. TableInv /\ [Step]_<<subject, family, lists, table>> => TableInv'
  BY <1>3
<1>6. ASSUME TableInv, [Step]_<<subject, family, lists, table>>, Table!Abstract!Counted'
      PROVE  [Table!Abstract!Next]_<<[w \in Tokens |-> Table!KeyOf(T, w)], T.nz, request>>
  BY <1>3, <1>6 DEF Table!Abstract!Next
<1>7. Begin => TableInv
  BY <1>1
<1> HIDE DEF keys
<1> QED
  BY <1>2, <1>4, <1>5, <1>6, <1>7, PTL
     DEF ContainerSpec, ImplementsTable, Table!ImplementsTable, Table!Abstract!Spec
=============================================================================
