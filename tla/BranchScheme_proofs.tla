------------------------ MODULE BranchScheme_proofs ------------------------
(***************************************************************************)
(* Proofs about the branch and bound scheme, for any number of variables,  *)
(* objectives and addresses.                                               *)
(*                                                                         *)
(* The invariants depend on each other.  No node is deleted twice or used  *)
(* after its end since the first child, if it is still in the list when a  *)
(* solution is saved, is the first node there, which StripQueue() spares   *)
(* (FirstChildLeads).  No solution is lost since a node is deleted only    *)
(* when its bound shows that it cannot improve the saved solution, and     *)
(* this needs that no node is better than the optimum (NothingIsBetter).   *)
(* The published bounds are right since the best bound is not above the    *)
(* bound of any active node (BestBoundIsBound).                            *)
(***************************************************************************)
EXTENDS BranchScheme, FiniteSetTheorems, SequenceTheorems, WellFoundedInduction, TLAPS

\* What a branch node may be.
AllNodes ==
  {x \in [obj : Objectives, opt : Objectives, unfixed : Nat, feasible : BOOLEAN] :
     /\ x.obj =< x.opt
     /\ x.obj # Infeasible => (x.feasible => x.obj = x.opt)}

TypeInv ==
  /\ client \in Clients /\ optimum \in Objectives /\ phase \in Phases
  /\ DOMAIN node \subseteq Addresses /\ node \in [DOMAIN node -> AllNodes]
  /\ queue \in Seq(Addresses) /\ hand \in Seq(Addresses)
  /\ inspected \in 0 .. Len(hand) /\ nActive \in Nat
  /\ savedObjective \in Objectives /\ bestBound \in Objectives
  /\ feasible \in BOOLEAN
  /\ primal \in Objectives /\ dual \in Objectives \cup {Unbounded}

\* At most two nodes are to be inspected; those that wait are in no list, and
\* the others have been put in the list or are going to be deleted.
HandInv ==
  /\ Len(hand) =< 2 /\ IsInjective(hand)
  /\ phase \in {"inspect", "error"} \/ (hand = <<>> /\ doomed = {})
  /\ \A i \in inspected + 1 .. Len(hand) : hand[i] \notin ToSet(queue) \cup doomed
  /\ \A i \in 1 .. inspected : hand[i] \in ToSet(queue) \cup doomed
  /\ doomed \subseteq ToSet(hand)

\* When the second child is inspected, the first one is doomed or leads the list.
FirstChildLeads ==
  inspected = 1 => hand[1] \in doomed \/ (queue # <<>> /\ hand[1] = queue[1])

\* Nodes that count, and solutions, are not better than the optimum.
NothingIsBetter ==
  /\ \A a \in ToSet(queue) : optimum =< node[a].opt
  /\ \A i \in inspected + 1 .. Len(hand) : optimum =< node[hand[i]].opt
  /\ optimum =< savedObjective /\ optimum =< primal /\ primal =< savedObjective

BestBoundIsBound ==
  phase # "optimal" => \A a \in ToSet(queue) : bestBound =< Obj(a)

\* The search of a client that has been left without an interruption.
SearchIsOver ==
  phase = "final" =>
    nActive = 0 \/ ~ Improves(bestBound, savedObjective)

Inv ==
  /\ TypeInv
  /\ optimum =< primal
  /\ phase # "error" =>
       NodesAreReferenced /\ HandInv /\ FirstChildLeads /\ NothingIsBetter /\ NothingIsLost /\ BestBoundIsBound
-----------------------------------------------------------------------------
(* Sequences and minima.                                                   *)

\* A set of natural numbers has a minimum.
LEMMA MinOfNaturals ==
  ASSUME NEW S \in SUBSET Nat, S # {}
  PROVE  Min(S) \in S /\ \A x \in S : Min(S) =< x
<1>1. PICK m \in S : \A x \in S : ~(<<x, m>> \in OpToRel(<, Nat))
  BY NatLessThanWellFounded, WFMin
<1>2. \A x \in S : ~(x < m)
  BY <1>1 DEF OpToRel
<1>3. \A x \in S : m =< x
  BY <1>2
<1> QED
  BY <1>3 DEF Min

\* A set of positions is numbered by counting the positions up to each one.
LEMMA PositionsAreNumbered ==
  ASSUME NEW n \in Nat, NEW P \in SUBSET (1 .. n)
  PROVE  LET Rank(p) == Cardinality({i \in P : i =< p}) IN
         /\ Cardinality(P) \in Nat /\ Cardinality(P) =< n
         /\ \A p \in P : Rank(p) \in 1 .. Cardinality(P)
         /\ \A p, r \in P : Rank(p) = Rank(r) => p = r
         /\ \A k \in 1 .. Cardinality(P) : \E p \in P : Rank(p) = k
         /\ 1 \in P => Rank(1) = 1
<1> DEFINE Rank(p) == Cardinality({i \in P : i =< p})
           Up(p) == {i \in P : i =< p}
<1>1. IsFiniteSet(P) /\ Cardinality(P) \in Nat /\ Cardinality(P) =< n
  <2>1. IsFiniteSet(1 .. n) /\ Cardinality(1 .. n) = n
    BY FS_Interval
  <2>2. IsFiniteSet(P) /\ Cardinality(P) =< n
    BY <2>1, FS_Subset
  <2> QED
    BY <2>2, FS_CardinalityType
<1>2. \A p \in P : IsFiniteSet(Up(p)) /\ Rank(p) \in Nat
  BY <1>1, FS_Subset, FS_CardinalityType
<1>3. \A p \in P : Rank(p) \in 1 .. Cardinality(P)
  <2> SUFFICES ASSUME NEW p \in P PROVE Rank(p) \in 1 .. Cardinality(P)
    OBVIOUS
  <2>1. Rank(p) =< Cardinality(P)
    BY <1>1, FS_Subset
  <2>2. Rank(p) # 0
    <3>1. p \in Up(p)
      OBVIOUS
    <3> QED
      BY <1>2, <3>1, FS_EmptySet
  <2> QED
    BY <1>1, <1>2, <2>1, <2>2
<1>4. ASSUME NEW p \in P, NEW r \in P, p < r PROVE Rank(p) < Rank(r)
  <2>1. Up(p) \in SUBSET Up(r) /\ r \in Up(r) /\ r \notin Up(p)
    <3>1. p \in Int /\ r \in Int /\ \A i \in P : i \in Int
      OBVIOUS
    <3>2. r =< r /\ ~(r =< p) /\ \A i \in P : i =< p => i =< r
      BY <1>4, <3>1
    <3> QED
      BY <3>2
  <2>2. Cardinality(Up(p)) =< Cardinality(Up(r)) /\ Cardinality(Up(p)) # Cardinality(Up(r))
    BY <1>2, <2>1, FS_Subset
  <2> QED
    BY <1>2, <2>2
<1>5. \A p, r \in P : Rank(p) = Rank(r) => p = r
  <2>1. \A p, r \in P : p < r \/ r < p \/ p = r
    OBVIOUS
  <2> QED
    BY <1>2, <1>4, <2>1
<1>6. \A k \in 1 .. Cardinality(P) : \E p \in P : Rank(p) = k
  <2> DEFINE f == [p \in P |-> Rank(p)]
             T == 1 .. Cardinality(P)
  <2>1. f \in Injection(P, T)
    BY <1>3, <1>5 DEF Injection, IsInjective
  <2>2. IsFiniteSet(T) /\ Cardinality(T) = Cardinality(P)
    BY <1>1, FS_Interval
  <2> HIDE DEF T
  <2>3. f \in Surjection(P, T)
    BY <2>1, <2>2, FS_Injection
  <2> QED
    BY <2>3 DEF Surjection, T
<1>7. 1 \in P => Rank(1) = 1
  <2>1. 1 \in P => Up(1) = {1}
    <3>1. \A i \in P : i \in Int /\ 1 =< i
      OBVIOUS
    <3>2. \A i \in P : i =< 1 <=> i = 1
      BY <3>1
    <3> QED
      BY <3>2
  <2> QED
    BY <2>1, FS_Singleton
<1> QED
  BY <1>1, <1>3, <1>5, <1>6, <1>7

\* What is picked from a sequence: the elements at the given positions, once each.
LEMMA PickedElements ==
  ASSUME NEW T, NEW q \in Seq(T), NEW P \in SUBSET (1 .. Len(q))
  PROVE  /\ Picked(q, P) \in Seq(T)
         /\ Len(Picked(q, P)) \in Nat /\ Len(Picked(q, P)) =< Len(q)
         /\ ToSet(Picked(q, P)) = {q[p] : p \in P}
         /\ IsInjective(q) => IsInjective(Picked(q, P))
         /\ 1 \in P => Picked(q, P) # <<>> /\ Picked(q, P)[1] = q[1]
<1> DEFINE Rank(p) == Cardinality({i \in P : i =< p})
           n == Cardinality(P)
           pos(k) == CHOOSE p \in P : Rank(p) = k
<1>1. Len(q) \in Nat /\ DOMAIN q = 1 .. Len(q) /\ \A i \in 1 .. Len(q) : q[i] \in T
  BY LenProperties, ElementOfSeq
<1>2. /\ n \in Nat /\ n =< Len(q)
      /\ \A p \in P : Rank(p) \in 1 .. n
      /\ \A p, r \in P : Rank(p) = Rank(r) => p = r
      /\ \A k \in 1 .. n : \E p \in P : Rank(p) = k
      /\ 1 \in P => Rank(1) = 1
  BY <1>1, PositionsAreNumbered
<1>3. Picked(q, P) = [k \in 1 .. n |-> q[pos(k)]]
  BY DEF Picked
<1> HIDE DEF Rank, n
<1>4. \A k \in 1 .. n : pos(k) \in P /\ Rank(pos(k)) = k
  BY <1>2
<1>5. \A p \in P : pos(Rank(p)) = p
  BY <1>2, <1>4
<1> HIDE DEF pos
<1>6. \A k \in 1 .. n : q[pos(k)] \in T
  BY <1>1, <1>4
<1>7. Picked(q, P) \in Seq(T) /\ Len(Picked(q, P)) = n /\ DOMAIN Picked(q, P) = 1 .. n
  BY <1>2, <1>3, <1>6
<1>8. ToSet(Picked(q, P)) = {q[p] : p \in P}
  BY <1>2, <1>3, <1>4, <1>5 DEF ToSet
<1>9. IsInjective(q) => IsInjective(Picked(q, P))
  <2> SUFFICES ASSUME IsInjective(q), NEW i \in 1 .. n, NEW k \in 1 .. n, q[pos(i)] = q[pos(k)]
               PROVE  i = k
    BY <1>3 DEF IsInjective
  <2>1. pos(i) = pos(k)
    BY <1>1, <1>4 DEF IsInjective
  <2> QED
    BY <1>4, <2>1
<1>10. 1 \in P => Picked(q, P) # <<>> /\ Picked(q, P)[1] = q[1]
  <2> SUFFICES ASSUME 1 \in P PROVE Picked(q, P) # <<>> /\ Picked(q, P)[1] = q[1]
    OBVIOUS
  <2>1. Rank(1) = 1 /\ 1 \in 1 .. n /\ pos(1) = 1
    BY <1>2, <1>5
  <2>2. Picked(q, P)[1] = q[1]
    BY <1>3, <2>1
  <2> QED
    BY <1>2, <1>7, <2>1, <2>2, EmptySeq
<1> QED
  BY <1>2, <1>7, <1>8, <1>9, <1>10

\* A sequence without the element at position i.
LEMMA RemovedElement ==
  ASSUME NEW T, NEW q \in Seq(T), NEW i \in DOMAIN q
  PROVE  /\ RemoveAt(q, i) \in Seq(T)
         /\ Len(q) \in Nat \ {0} /\ Len(RemoveAt(q, i)) = Len(q) - 1
         /\ ToSet(RemoveAt(q, i)) \subseteq ToSet(q)
         /\ ToSet(q) = ToSet(RemoveAt(q, i)) \cup {q[i]}
         /\ IsInjective(q) => IsInjective(RemoveAt(q, i)) /\ q[i] \notin ToSet(RemoveAt(q, i))
<1>1. Len(q) \in Nat /\ DOMAIN q = 1 .. Len(q) /\ \A k \in 1 .. Len(q) : q[k] \in T
  BY LenProperties, ElementOfSeq
<1> DEFINE front == SubSeq(q, 1, i - 1)
           back == SubSeq(q, i + 1, Len(q))
           r == RemoveAt(q, i)
<1>2. front \in Seq(T) /\ Len(front) = i - 1 /\ \A k \in 1 .. i - 1 : front[k] = q[k]
  BY <1>1
<1>3. back \in Seq(T) /\ Len(back) = Len(q) - i /\ \A k \in 1 .. Len(q) - i : back[k] = q[i + k]
  <2>1. i + 1 \in Int /\ Len(q) \in Int /\ \A k \in i + 1 .. Len(q) : q[k] \in T
    BY <1>1
  <2>2. /\ back \in Seq(T) /\ Len(back) = IF i + 1 <= Len(q) THEN Len(q) - (i + 1) + 1 ELSE 0
        /\ \A k \in 1 .. Len(q) - (i + 1) + 1 : back[k] = q[(i + 1) + k - 1]
    BY <2>1, SubSeqProperties
  <2>3. i \in Int /\ (IF i + 1 <= Len(q) THEN Len(q) - (i + 1) + 1 ELSE 0) = Len(q) - i
    BY <1>1
  <2>4. Len(q) - (i + 1) + 1 = Len(q) - i /\ \A k \in Int : (i + 1) + k - 1 = i + k
    BY <1>1, <2>3
  <2> HIDE DEF back
  <2>5. ASSUME NEW k \in 1 .. Len(q) - i PROVE back[k] = q[i + k]
    <3>1. (i + 1) + k - 1 = i + k
      BY <2>3
    <3>2. back[k] = q[(i + 1) + k - 1]
      BY <2>2, <2>4
    <3> QED
      BY <3>1, <3>2
  <2> QED
    BY <1>1, <2>2, <2>3, <2>5
<1>4. /\ r \in Seq(T) /\ Len(r) = Len(q) - 1
      /\ \A k \in 1 .. Len(q) - 1 : r[k] = IF k < i THEN q[k] ELSE q[k + 1]
  <2>1. r = front \o back
    BY DEF RemoveAt
  <2> HIDE DEF front, back, r
  <2>2. /\ r \in Seq(T) /\ Len(r) = Len(front) + Len(back)
        /\ \A k \in 1 .. Len(front) + Len(back) : r[k] = IF k =< Len(front) THEN front[k] ELSE back[k - Len(front)]
    BY <1>2, <1>3, <2>1, ConcatProperties
  <2>3. ASSUME NEW k \in 1 .. Len(q) - 1 PROVE r[k] = IF k < i THEN q[k] ELSE q[k + 1]
    <3>1. CASE k < i
      BY <1>1, <1>2, <1>3, <2>2, <3>1
    <3>2. CASE ~(k < i)
      <4>1. k - (i - 1) \in 1 .. Len(q) - i /\ i + (k - (i - 1)) = k + 1
        BY <1>1, <3>2
      <4>2. r[k] = back[k - (i - 1)]
        BY <1>1, <1>2, <1>3, <2>2, <3>2
      <4> QED
        BY <1>3, <3>2, <4>1, <4>2
    <3> QED
      BY <3>1, <3>2
  <2> QED
    BY <1>1, <1>2, <1>3, <2>2, <2>3
<1> HIDE DEF r
<1>5. DOMAIN r = 1 .. Len(q) - 1 /\ Len(q) \in Nat \ {0}
  BY <1>1, <1>4
<1>6. \A k \in 1 .. Len(q) - 1 : r[k] \in ToSet(q)
  BY <1>1, <1>4 DEF ToSet
<1>7. \A k \in 1 .. Len(q) : k # i => q[k] \in ToSet(r)
  <2> SUFFICES ASSUME NEW k \in 1 .. Len(q), k # i PROVE q[k] \in ToSet(r)
    OBVIOUS
  <2>1. CASE k < i
    BY <1>1, <1>4, <1>5, <2>1 DEF ToSet
  <2>2. CASE k > i
    <3>1. k - 1 \in 1 .. Len(q) - 1 /\ r[k - 1] = q[k]
      BY <1>1, <1>4, <2>2
    <3> QED
      BY <1>5, <3>1 DEF ToSet
  <2> QED
    BY <1>1, <2>1, <2>2
<1>8. ASSUME IsInjective(q) PROVE IsInjective(r) /\ q[i] \notin ToSet(r)
  <2>1. \A k \in 1 .. Len(q) - 1 : r[k] # q[i]
    BY <1>1, <1>4, <1>8 DEF IsInjective
  <2>2. IsInjective(r)
    <3> SUFFICES ASSUME NEW k \in 1 .. Len(q) - 1, NEW m \in 1 .. Len(q) - 1, r[k] = r[m]
                 PROVE  k = m
      BY <1>5 DEF IsInjective
    <3> DEFINE at(x) == IF x < i THEN x ELSE x + 1
    <3>1. at(k) \in 1 .. Len(q) /\ at(m) \in 1 .. Len(q) /\ q[at(k)] = q[at(m)]
      BY <1>1, <1>4
    <3>2. at(k) = at(m)
      BY <1>1, <1>8, <3>1 DEF IsInjective
    <3> QED
      BY <1>1, <3>2
  <2> QED
    BY <1>5, <2>1, <2>2 DEF ToSet
<1>9. ToSet(r) \subseteq ToSet(q) /\ ToSet(q) = ToSet(r) \cup {q[i]}
  BY <1>1, <1>5, <1>6, <1>7 DEF ToSet
<1> QED
  BY <1>4, <1>5, <1>8, <1>9 DEF r

\* A sequence with a new element in front.
LEMMA PushedElement ==
  ASSUME NEW T, NEW q \in Seq(T), NEW a \in T
  PROVE  /\ <<a>> \o q \in Seq(T)
         /\ Len(<<a>> \o q) = Len(q) + 1 /\ Len(q) \in Nat
         /\ (<<a>> \o q)[1] = a /\ <<a>> \o q # <<>>
         /\ ToSet(<<a>> \o q) = ToSet(q) \cup {a}
         /\ IsInjective(q) /\ a \notin ToSet(q) => IsInjective(<<a>> \o q)
<1> DEFINE r == <<a>> \o q
<1>1. Len(q) \in Nat /\ DOMAIN q = 1 .. Len(q)
  BY LenProperties
<1>2. <<a>> \in Seq(T) /\ Len(<<a>>) = 1 /\ <<a>>[1] = a
  OBVIOUS
<1>3. /\ r \in Seq(T) /\ Len(r) = 1 + Len(q)
      /\ \A k \in 1 .. 1 + Len(q) : r[k] = IF k =< 1 THEN <<a>>[k] ELSE q[k - 1]
  BY <1>2, ConcatProperties
<1> HIDE DEF r
<1>4. DOMAIN r = 1 .. Len(q) + 1 /\ r[1] = a /\ \A k \in 1 .. Len(q) : r[k + 1] = q[k]
  BY <1>1, <1>2, <1>3
<1>5. \A k \in 1 .. Len(q) + 1 : k = 1 \/ (k - 1 \in 1 .. Len(q) /\ r[k] = q[k - 1])
  BY <1>1, <1>3
<1>6. ToSet(r) = ToSet(q) \cup {a}
  <2>1. \A k \in 1 .. Len(q) + 1 : r[k] \in ToSet(q) \cup {a}
    BY <1>1, <1>4, <1>5 DEF ToSet
  <2>2. \A k \in 1 .. Len(q) : q[k] \in ToSet(r)
    <3> SUFFICES ASSUME NEW k \in 1 .. Len(q) PROVE q[k] \in ToSet(r)
      OBVIOUS
    <3>1. k + 1 \in 1 .. Len(q) + 1
      BY <1>1
    <3> QED
      BY <1>4, <3>1 DEF ToSet
  <2>3. a \in ToSet(r)
    <3>1. 1 \in 1 .. Len(q) + 1
      BY <1>1
    <3> QED
      BY <1>4, <3>1 DEF ToSet
  <2> QED
    BY <1>1, <1>4, <2>1, <2>2, <2>3 DEF ToSet
<1>7. ASSUME IsInjective(q), a \notin ToSet(q) PROVE IsInjective(r)
  <2>1. \A k \in 1 .. Len(q) : q[k] # a
    BY <1>1, <1>7 DEF ToSet
  <2> SUFFICES ASSUME NEW k \in 1 .. Len(q) + 1, NEW m \in 1 .. Len(q) + 1, r[k] = r[m]
               PROVE  k = m
    BY <1>4 DEF IsInjective
  <2>2. CASE k = 1 \/ m = 1
    BY <1>4, <1>5, <2>1, <2>2
  <2>3. CASE k # 1 /\ m # 1
    <3>1. k - 1 \in 1 .. Len(q) /\ m - 1 \in 1 .. Len(q) /\ q[k - 1] = q[m - 1]
      BY <1>5, <2>3
    <3>2. k - 1 = m - 1
      BY <1>1, <1>7, <3>1 DEF IsInjective
    <3> QED
      BY <1>1, <3>2
  <2> QED
    BY <2>2, <2>3
<1> QED
  BY <1>1, <1>3, <1>4, <1>6, <1>7, EmptySeq DEF r
-----------------------------------------------------------------------------
(* The steps.                                                              *)

\* The larger one of two numbers.
LEMMA MaxOfTwo ==
  ASSUME NEW x \in Int, NEW y \in Int
  PROVE  Max({x, y}) \in {x, y} /\ x =< Max({x, y}) /\ y =< Max({x, y})
<1>1. \E m \in {x, y} : \A z \in {x, y} : m >= z
  OBVIOUS
<1>2. Max({x, y}) \in {x, y} /\ \A z \in {x, y} : Max({x, y}) >= z
  BY <1>1 DEF Max
<1> QED
  BY <1>2

LEMMA ObjectivesAreNaturals ==
  Objectives \subseteq Nat /\ Infeasible \in Objectives /\ \A x \in Objectives : x =< Infeasible
<1> QED
  BY ObjectiveTypes DEF Objectives, Infeasible

\* Nodes of the model are nodes, and their bounds are lower bounds.
LEMMA NodesAreNodes == \A u \in Nat : Nodes(u) \subseteq AllNodes
<1> QED
  BY DEF Nodes, AllNodes

LEMMA InitInv == Init => Inv /\ dual =< optimum
<1> SUFFICES ASSUME Init PROVE Inv /\ dual =< optimum
  OBVIOUS
<1> DEFINE first == Min(Addresses)
<1>1. first \in Addresses
  BY AddressesType, MinOfNaturals
<1>2. PICK root \in Nodes(MaxUnfixed), bound \in Objectives :
        /\ root.opt =< bound /\ optimum = root.opt
        /\ node = [a \in {first} |-> root]
        /\ savedObjective = bound /\ primal = bound /\ bestBound = root.obj
        /\ dual = IF root.obj =< bound THEN root.obj ELSE Unbounded
        /\ feasible = (bound # Infeasible)
  BY DEF Init
<1> HIDE DEF first
<1>3. root \in AllNodes /\ root.obj \in Objectives /\ root.opt \in Objectives /\ root.obj =< root.opt
  BY NodesAreNodes, ObjectiveTypes DEF AllNodes
<1>4. /\ client \in Clients /\ phase = "inspect" /\ queue = <<>> /\ nActive = 0
      /\ hand = <<first>> /\ inspected = 0 /\ doomed = {}
  BY DEF Init, first
<1>5. hand \in Seq(Addresses) /\ Len(hand) = 1 /\ hand[1] = first /\ ToSet(hand) = {first} /\ IsInjective(hand)
  BY <1>1, <1>4 DEF ToSet, IsInjective
<1>6. queue \in Seq(Addresses) /\ ToSet(queue) = {} /\ IsInjective(queue) /\ Len(queue) = 0
  BY <1>4 DEF ToSet, IsInjective
<1>7. DOMAIN node = {first} /\ node[first] = root
  BY <1>2
<1>8. TypeInv
  <2>1. DOMAIN node \subseteq Addresses /\ node \in [DOMAIN node -> AllNodes]
    BY <1>1, <1>2, <1>3
  <2>2. /\ optimum \in Objectives /\ savedObjective \in Objectives /\ bestBound \in Objectives
        /\ primal \in Objectives /\ dual \in Objectives \cup {Unbounded}
    BY <1>2, <1>3
  <2>3. feasible \in BOOLEAN
    BY <1>2
  <2>4. phase \in Phases /\ inspected \in 0 .. Len(hand) /\ nActive \in Nat
    BY <1>4, <1>5 DEF Phases
  <2> QED
    BY <1>4, <1>5, <1>6, <2>1, <2>2, <2>3, <2>4 DEF TypeInv
<1>9. dual =< optimum /\ optimum =< primal
  <2>1. root.obj \in Nat /\ root.opt \in Nat /\ bound \in Nat
    BY <1>3, ObjectivesAreNaturals
  <2> QED
    BY <1>2, <1>3, <2>1 DEF Unbounded
<1>10. NodesAreReferenced /\ HandInv /\ FirstChildLeads
  BY <1>4, <1>5, <1>6, <1>7 DEF NodesAreReferenced, HandInv, FirstChildLeads
<1>11. NothingIsBetter /\ BestBoundIsBound
  <2>1. optimum =< savedObjective /\ optimum =< primal /\ primal =< savedObjective
    BY <1>2, <1>3, ObjectivesAreNaturals
  <2>2. \A i \in inspected + 1 .. Len(hand) : optimum =< node[hand[i]].opt
    <3>1. \A i \in inspected + 1 .. Len(hand) : i = 1
      BY <1>4, <1>5
    <3>2. node[hand[1]].opt = optimum /\ optimum \in Nat
      BY <1>2, <1>3, <1>5, <1>7, ObjectivesAreNaturals
    <3> QED
      BY <3>1, <3>2
  <2> QED
    BY <1>6, <2>1, <2>2 DEF NothingIsBetter, BestBoundIsBound
<1>12. NothingIsLost
  <2>1. 1 \in inspected + 1 .. Len(hand) /\ node[hand[1]].opt = optimum
    BY <1>2, <1>4, <1>5, <1>7
  <2> QED
    BY <2>1 DEF NothingIsLost
<1> QED
  BY <1>8, <1>9, <1>10, <1>11, <1>12 DEF Inv

\* StripQueue() keeps the first node of the list and every node that might still improve
\* the new solution; of the others it keeps some, too.
LEMMA StripKeeps ==
  ASSUME TypeInv, NodesAreReferenced, phase # "error", NEW value \in Objectives, StripQueue(value)
  PROVE  /\ queue' \in Seq(Addresses) /\ IsInjective(queue')
         /\ ToSet(queue') \subseteq ToSet(queue)
         /\ \A b \in ToSet(queue) : Improves(Obj(b), value) => b \in ToSet(queue')
         /\ queue # <<>> => queue' # <<>> /\ queue'[1] = queue[1] /\ queue[1] \in ToSet(queue')
         /\ DOMAIN node' = DOMAIN node \ (ToSet(queue) \ ToSet(queue'))
         /\ node' \in [DOMAIN node' -> AllNodes] /\ \A b \in DOMAIN node' : node'[b] = node[b]
         /\ nActive' = Len(queue') /\ nActive' \in Nat
<1> DEFINE P == Spared(value)
<1>1. /\ queue \in Seq(Addresses) /\ Len(queue) \in Nat /\ DOMAIN queue = 1 .. Len(queue)
      /\ node \in [DOMAIN node -> AllNodes] /\ nActive = Len(queue) /\ IsInjective(queue)
  BY LenProperties DEF TypeInv, NodesAreReferenced
<1>2. P \in SUBSET (1 .. Len(queue))
  BY <1>1 DEF Spared
<1>2a. \A i \in DOMAIN queue : i = 1 \/ Improves(Obj(queue[i]), value) => i \in P
  <2> DEFINE Passing == {i \in DOMAIN queue : i = 1 \/ Improves(Obj(queue[i]), value)}
  <2>1. ASSUME NEW i \in Passing PROVE i \in P
    <3> DEFINE S == {k \in Passing : k =< i}
    <3>1. i \in Int /\ S \in SUBSET Int /\ i \in S /\ \A k \in S : k =< i
      BY <1>1
    <3> HIDE DEF S
    <3>2. Max(S) = i
      <4>1. \A k \in S : i >= k
        BY <3>1
      <4>2. Max(S) \in S /\ \A k \in S : Max(S) >= k
        BY <3>1, <4>1, Zenon DEF Max
      <4> DEFINE m == Max(S)
      <4>3. m \in S /\ m >= i
        BY <3>1, <4>2
      <4>4. m \in Int /\ m =< i
        BY <3>1, <4>3
      <4> HIDE DEF m
      <4> QED
        BY <3>1, <4>3, <4>4 DEF m
    <3>3. P = {k \in DOMAIN queue : (k - Max({l \in Passing : l =< k})) % 2 = 0}
      BY DEF Spared
    <3> HIDE DEF P, Passing
    <3>4. (i - Max({l \in Passing : l =< i})) % 2 = 0
      BY <3>1, <3>2 DEF S
    <3> QED
      BY <3>3, <3>4 DEF Passing
  <2> QED
    BY <2>1
<1> HIDE DEF P
<1>3. /\ queue' = Picked(queue, P)
      /\ node' = Restrict(node, DOMAIN node \ (ToSet(queue) \ ToSet(queue')))
      /\ nActive' = nActive - (Len(queue) - Len(queue'))
  BY DEF StripQueue, P
<1>4. /\ queue' \in Seq(Addresses) /\ Len(queue') \in Nat /\ Len(queue') =< Len(queue)
      /\ ToSet(queue') = {queue[p] : p \in P}
      /\ IsInjective(queue')
      /\ 1 \in P => queue' # <<>> /\ queue'[1] = queue[1]
  BY <1>1, <1>2, <1>3, PickedElements
<1>5. ToSet(queue') \subseteq ToSet(queue) /\ \A b \in ToSet(queue) : Improves(Obj(b), value) => b \in ToSet(queue')
  BY <1>1, <1>2, <1>2a, <1>4 DEF ToSet
<1>6. queue # <<>> => queue' # <<>> /\ queue'[1] = queue[1] /\ queue[1] \in ToSet(queue')
  <2>1. queue # <<>> => 1 \in P
    BY <1>1, <1>2a, EmptySeq
  <2> QED
    BY <1>4, <2>1
<1>7. /\ DOMAIN node' = DOMAIN node \ (ToSet(queue) \ ToSet(queue'))
      /\ node' \in [DOMAIN node' -> AllNodes] /\ \A b \in DOMAIN node' : node'[b] = node[b]
  BY <1>1, <1>3 DEF Restrict
<1>8. nActive' = Len(queue')
  BY <1>1, <1>3, <1>4
<1> QED
  BY <1>4, <1>5, <1>6, <1>7, <1>8

\* A solution or a bound that does not improve another one is not below it.
LEMMA NoImprovement ==
  ASSUME NEW x \in Nat, NEW y \in Nat, ~ Improves(x, y)
  PROVE  y =< x
<1> QED
  BY DEF Improves

\* What is known of the node that is inspected, and of the rest.
LEMMA InspectedNode ==
  ASSUME Inv, Inspect
  PROVE  LET a == hand[inspected + 1] IN
         /\ TypeInv /\ optimum =< primal /\ NodesAreReferenced /\ HandInv /\ FirstChildLeads
         /\ NothingIsBetter /\ NothingIsLost /\ BestBoundIsBound
         /\ phase = "inspect" /\ inspected \in 0 .. 1 /\ Len(hand) \in Nat /\ inspected < Len(hand)
         /\ DOMAIN hand = 1 .. Len(hand)
         /\ a \in Addresses /\ a \in ToSet(hand) /\ a \in DOMAIN node /\ a \notin ToSet(queue) \cup doomed
         /\ inspected' = inspected + 1 /\ inspected' \in 1 .. Len(hand)
         /\ UNCHANGED <<client, optimum, phase, hand, dual>>
         /\ \A i \in inspected' + 1 .. Len(hand) : i \in inspected + 1 .. Len(hand) /\ hand[i] # a /\ hand[i] \in ToSet(hand)
         /\ inspected + 1 \in inspected + 1 .. Len(hand)
         /\ node[a].obj \in Objectives /\ node[a].opt \in Objectives /\ node[a].obj =< node[a].opt
         /\ optimum =< node[a].opt
         /\ \A i \in inspected + 1 .. Len(hand) : i = inspected + 1 \/ i \in inspected' + 1 .. Len(hand)
         /\ \A i \in 1 .. inspected' : i = inspected + 1 \/ hand[i] \in ToSet(queue) \cup doomed
         /\ {optimum, savedObjective, bestBound, primal} \subseteq Objectives
<1> DEFINE a == hand[inspected + 1]
<1>1. /\ phase = "inspect" /\ inspected < Len(hand) /\ inspected' = inspected + 1
      /\ UNCHANGED <<client, optimum, phase, hand, dual>>
  BY DEF Inspect
<1>2. /\ TypeInv /\ optimum =< primal /\ NodesAreReferenced /\ HandInv /\ FirstChildLeads
      /\ NothingIsBetter /\ NothingIsLost /\ BestBoundIsBound
  BY <1>1 DEF Inv
<1>3. hand \in Seq(Addresses) /\ Len(hand) \in Nat /\ DOMAIN hand = 1 .. Len(hand) /\ inspected \in 0 .. Len(hand)
  BY <1>2, LenProperties DEF TypeInv
<1>4. inspected \in 0 .. 1 /\ inspected' \in 1 .. Len(hand) /\ inspected + 1 \in 1 .. Len(hand)
  BY <1>1, <1>2, <1>3 DEF HandInv
<1>5. a \in Addresses /\ a \in ToSet(hand)
  BY <1>3, <1>4, ElementOfSeq DEF ToSet
<1>6. a \in DOMAIN node
  BY <1>1, <1>2, <1>5 DEF NodesAreReferenced
<1>7. inspected + 1 \in inspected + 1 .. Len(hand)
  BY <1>3, <1>4
<1>8. a \notin ToSet(queue) \cup doomed /\ optimum =< node[a].opt
  BY <1>2, <1>7 DEF HandInv, NothingIsBetter
<1>9. ASSUME NEW i \in inspected' + 1 .. Len(hand)
      PROVE  i \in inspected + 1 .. Len(hand) /\ hand[i] # a /\ hand[i] \in ToSet(hand)
  <2>1. i \in inspected + 1 .. Len(hand) /\ i \in 1 .. Len(hand) /\ i # inspected + 1
    BY <1>1, <1>3, <1>4
  <2> QED
    BY <1>2, <1>3, <1>4, <2>1 DEF HandInv, IsInjective, ToSet
<1>10. node[a] \in AllNodes
  BY <1>2, <1>6 DEF TypeInv
<1>11. node[a].obj \in Objectives /\ node[a].opt \in Objectives /\ node[a].obj =< node[a].opt
  BY <1>10 DEF AllNodes
<1>12. \A i \in inspected + 1 .. Len(hand) : i = inspected + 1 \/ i \in inspected' + 1 .. Len(hand)
  BY <1>1, <1>3, <1>4
<1>13. {optimum, savedObjective, bestBound, primal} \subseteq Objectives
  BY <1>2 DEF TypeInv
<1>14. \A i \in 1 .. inspected' : i = inspected + 1 \/ hand[i] \in ToSet(queue) \cup doomed
  <2>1. \A i \in 1 .. inspected' : i = inspected + 1 \/ i \in 1 .. inspected
    BY <1>1, <1>4
  <2> QED
    BY <1>2, <2>1 DEF HandInv
<1> HIDE DEF a
<1> QED
  BY <1>1, <1>2, <1>3, <1>4, <1>5, <1>6, <1>7, <1>8, <1>9, <1>11, <1>12, <1>13, <1>14 DEF a

\* The node is put in front of the list.
LEMMA QueueKeeps ==
  ASSUME Inv, Inspect, QueueExploredNode(hand[inspected + 1])
  PROVE  Inv'
<1> DEFINE a == hand[inspected + 1]
<1>1. /\ TypeInv /\ optimum =< primal /\ NodesAreReferenced /\ HandInv /\ FirstChildLeads
      /\ NothingIsBetter /\ NothingIsLost /\ BestBoundIsBound
      /\ phase = "inspect" /\ inspected \in 0 .. 1 /\ Len(hand) \in Nat
      /\ DOMAIN hand = 1 .. Len(hand)
      /\ a \in Addresses /\ a \in ToSet(hand) /\ a \notin ToSet(queue) \cup doomed
      /\ inspected' = inspected + 1 /\ inspected' \in 1 .. Len(hand)
      /\ UNCHANGED <<client, optimum, phase, hand, dual>>
  BY InspectedNode
<1>2. /\ \A i \in inspected' + 1 .. Len(hand) : i \in inspected + 1 .. Len(hand) /\ hand[i] # a
      /\ \A i \in inspected + 1 .. Len(hand) : i = inspected + 1 \/ i \in inspected' + 1 .. Len(hand)
      /\ node[a].obj \in Objectives /\ optimum =< node[a].opt
      /\ {optimum, savedObjective, bestBound, primal} \subseteq Objectives
  BY InspectedNode
<1>3. /\ queue' = <<a>> \o queue /\ nActive' = nActive + 1 /\ bestBound' = Min({bestBound, Obj(a)})
      /\ UNCHANGED <<node, doomed, savedObjective, feasible, primal>>
  BY DEF QueueExploredNode, best
<1> HIDE DEF a
<1>4. /\ queue' \in Seq(Addresses) /\ Len(queue') = Len(queue) + 1 /\ queue'[1] = a /\ queue' # <<>>
      /\ ToSet(queue') = ToSet(queue) \cup {a} /\ IsInjective(queue')
  <2>1. queue \in Seq(Addresses) /\ IsInjective(queue)
    BY <1>1 DEF TypeInv, NodesAreReferenced
  <2> QED
    BY <1>1, <1>3, <2>1, PushedElement
<1>5. bestBound' \in Objectives /\ bestBound' =< bestBound /\ bestBound' =< Obj(a)
  <2> DEFINE S == {bestBound, Obj(a)}
  <2>1. S \in SUBSET Nat /\ S # {} /\ S \subseteq Objectives /\ bestBound \in S /\ Obj(a) \in S
    BY <1>2, ObjectivesAreNaturals DEF Obj
  <2> HIDE DEF S
  <2>2. Min(S) \in S /\ \A x \in S : Min(S) =< x
    BY <2>1, MinOfNaturals
  <2> QED
    BY <1>3, <2>1, <2>2 DEF S
<1>6. TypeInv'
  BY <1>1, <1>3, <1>4, <1>5 DEF TypeInv
<1>7. NodesAreReferenced'
  BY <1>1, <1>3, <1>4 DEF NodesAreReferenced
<1>8. HandInv'
  <2>1. \A i \in 1 .. inspected' : i = inspected + 1 \/ hand[i] \in ToSet(queue) \cup doomed
    BY InspectedNode
  <2>2. \A i \in 1 .. inspected' : hand[i] \in ToSet(queue') \cup doomed
    BY <1>4, <2>1 DEF a
  <2> QED
    BY <1>1, <1>2, <1>3, <1>4, <2>2 DEF HandInv
<1>9. FirstChildLeads'
  BY <1>1, <1>3, <1>4 DEF FirstChildLeads, a
<1>10. NothingIsBetter'
  BY <1>1, <1>2, <1>3, <1>4 DEF NothingIsBetter
<1>11. NothingIsLost'
  <2>1. CASE savedObjective = optimum
    BY <1>1, <1>3, <2>1 DEF NothingIsLost
  <2>2. CASE \E b \in ToSet(queue) : node[b].opt = optimum
    BY <1>1, <1>3, <1>4, <2>2 DEF NothingIsLost
  <2>3. CASE \E i \in inspected + 1 .. Len(hand) : node[hand[i]].opt = optimum
    BY <1>1, <1>2, <1>3, <1>4, <2>3 DEF NothingIsLost, a
  <2> QED
    BY <1>1, <2>1, <2>2, <2>3 DEF NothingIsLost
<1>12. BestBoundIsBound'
  <2> SUFFICES ASSUME NEW b \in ToSet(queue') PROVE bestBound' =< node[b].obj
    BY <1>3 DEF BestBoundIsBound, Obj
  <2>1. CASE b = a
    BY <1>5, <2>1 DEF Obj
  <2>2. CASE b # a
    <3>1. b \in ToSet(queue) /\ bestBound =< node[b].obj
      BY <1>1, <1>4, <2>2 DEF BestBoundIsBound, Obj
    <3>2. node[b].obj \in Objectives
      BY <1>1, <3>1 DEF TypeInv, NodesAreReferenced, AllNodes
    <3>3. node[b].obj \in Nat /\ bestBound \in Nat /\ bestBound' \in Nat
      BY <1>2, <1>5, <3>2, ObjectivesAreNaturals
    <3> QED
      BY <1>5, <3>1, <3>3
  <2> QED
    BY <2>1, <2>2
<1> QED
  BY <1>1, <1>3, <1>6, <1>7, <1>8, <1>9, <1>10, <1>11, <1>12 DEF Inv

\* The node is cut off, and deleted at the end of the iteration.
LEMMA CutOffKeeps ==
  ASSUME Inv, Inspect, CutOff(hand[inspected + 1]), ~ MayImprove(Obj(hand[inspected + 1]))
  PROVE  Inv'
<1> DEFINE a == hand[inspected + 1]
<1>1. /\ TypeInv /\ optimum =< primal /\ NodesAreReferenced /\ HandInv /\ FirstChildLeads
      /\ NothingIsBetter /\ NothingIsLost /\ BestBoundIsBound
      /\ phase = "inspect" /\ inspected \in 0 .. 1 /\ Len(hand) \in Nat
      /\ DOMAIN hand = 1 .. Len(hand)
      /\ a \in Addresses /\ a \in ToSet(hand) /\ a \notin ToSet(queue) \cup doomed
      /\ inspected' = inspected + 1 /\ inspected' \in 1 .. Len(hand)
      /\ UNCHANGED <<client, optimum, phase, hand, dual>>
  BY InspectedNode
<1>2. /\ \A i \in inspected' + 1 .. Len(hand) : i \in inspected + 1 .. Len(hand) /\ hand[i] # a
      /\ \A i \in inspected + 1 .. Len(hand) : i = inspected + 1 \/ i \in inspected' + 1 .. Len(hand)
      /\ node[a].obj \in Nat /\ node[a].opt \in Nat /\ node[a].obj =< node[a].opt
      /\ {optimum, savedObjective} \subseteq Nat
  BY InspectedNode, ObjectivesAreNaturals
<1>3. /\ doomed' = doomed \cup {a}
      /\ UNCHANGED <<node, queue, nActive, savedObjective, feasible, primal, bestBound>>
  BY DEF CutOff, heap, best
<1>4. savedObjective =< node[a].obj
  BY <1>2, NoImprovement DEF MayImprove, Obj
<1> HIDE DEF a
<1>5. TypeInv'
  BY <1>1, <1>3 DEF TypeInv
<1>6. NodesAreReferenced' /\ HandInv'
  <2>1. \A i \in 1 .. inspected' : i = inspected + 1 \/ hand[i] \in ToSet(queue) \cup doomed
    BY InspectedNode
  <2>2. \A i \in 1 .. inspected' : hand[i] \in ToSet(queue) \cup doomed'
    BY <1>3, <2>1 DEF a
  <2> QED
    BY <1>1, <1>2, <1>3, <2>2 DEF NodesAreReferenced, HandInv
<1>7. FirstChildLeads'
  BY <1>1, <1>3 DEF FirstChildLeads, a
<1>8. NothingIsBetter' /\ BestBoundIsBound'
  BY <1>1, <1>2, <1>3 DEF NothingIsBetter, BestBoundIsBound, Obj
<1>9. NothingIsLost'
  <2>1. CASE savedObjective = optimum \/ \E b \in ToSet(queue) : node[b].opt = optimum
    BY <1>1, <1>3, <2>1 DEF NothingIsLost
  <2>2. CASE \E i \in inspected + 1 .. Len(hand) : node[hand[i]].opt = optimum
    <3>1. CASE node[a].opt = optimum
      <4>1. optimum =< savedObjective
        BY <1>1 DEF NothingIsBetter
      <4>2. savedObjective = optimum
        BY <1>2, <1>4, <3>1, <4>1
      <4> QED
        BY <1>1, <1>3, <4>2 DEF NothingIsLost
    <3>2. CASE node[a].opt # optimum
      BY <1>1, <1>2, <1>3, <2>2, <3>2 DEF NothingIsLost, a
    <3> QED
      BY <3>1, <3>2
  <2> QED
    BY <1>1, <2>1, <2>2 DEF NothingIsLost
<1> QED
  BY <1>1, <1>3, <1>5, <1>6, <1>7, <1>8, <1>9 DEF Inv

\* The solution of the node is saved, and the list is stripped.
LEMMA SaveKeeps ==
  ASSUME Inv, Inspect, SaveSolution(hand[inspected + 1]),
         MayImprove(Obj(hand[inspected + 1])), node[hand[inspected + 1]].feasible
  PROVE  Inv'
<1> DEFINE a == hand[inspected + 1]
<1>1. /\ TypeInv /\ optimum =< primal /\ NodesAreReferenced /\ HandInv /\ FirstChildLeads
      /\ NothingIsBetter /\ NothingIsLost /\ BestBoundIsBound
      /\ phase = "inspect" /\ inspected \in 0 .. 1 /\ Len(hand) \in Nat /\ inspected < Len(hand)
      /\ DOMAIN hand = 1 .. Len(hand)
      /\ a \in Addresses /\ a \in ToSet(hand) /\ a \in DOMAIN node /\ a \notin ToSet(queue) \cup doomed
      /\ inspected' = inspected + 1 /\ inspected' \in 1 .. Len(hand)
      /\ UNCHANGED <<client, optimum, phase, hand, dual>>
  BY InspectedNode
<1>2. /\ \A i \in inspected' + 1 .. Len(hand) : i \in inspected + 1 .. Len(hand) /\ hand[i] # a /\ hand[i] \in ToSet(hand)
      /\ \A i \in inspected + 1 .. Len(hand) : i = inspected + 1 \/ i \in inspected' + 1 .. Len(hand)
      /\ node[a].obj \in Objectives /\ node[a].opt \in Objectives /\ node[a].obj =< node[a].opt
      /\ {optimum, savedObjective, primal} \subseteq Objectives
  BY InspectedNode
<1>3. PICK value \in IF Obj(a) = Infeasible THEN {Infeasible} ELSE optimum .. Obj(a) :
        /\ savedObjective' = value /\ feasible' = TRUE /\ primal' = Min({primal, value})
        /\ StripQueue(value)
        /\ doomed' = doomed \cup {a}
        /\ UNCHANGED bestBound
  BY DEF SaveSolution
<1>4. /\ {optimum, savedObjective, primal, node[a].obj, node[a].opt, Infeasible} \subseteq Nat
      /\ \A x \in Objectives : x =< Infeasible
  BY <1>2, ObjectivesAreNaturals
<1>5. /\ optimum =< savedObjective /\ optimum =< primal /\ primal =< savedObjective
      /\ optimum =< node[a].opt
      /\ \A b \in ToSet(queue) : optimum =< node[b].opt
      /\ \A i \in inspected + 1 .. Len(hand) : optimum =< node[hand[i]].opt
  BY <1>1, InspectedNode DEF NothingIsBetter
<1>6. node[a] \in AllNodes
  BY <1>1 DEF TypeInv
<1>7. node[a].obj =< savedObjective
  BY <1>2, <1>4 DEF MayImprove, Improves, Obj
<1> HIDE DEF a
<1>8. value \in Objectives /\ value \in Nat /\ optimum =< value /\ value =< savedObjective
  <2>1. CASE Obj(a) = Infeasible
    <3>1. value = Infeasible /\ savedObjective = Infeasible
      BY <1>2, <1>3, <1>4, <1>7, <2>1 DEF Obj
    <3> QED
      BY <1>2, <1>4, <1>5, <3>1, ObjectivesAreNaturals
  <2>2. CASE Obj(a) # Infeasible
    <3>1. value \in optimum .. node[a].obj
      BY <1>3, <2>2 DEF Obj
    <3>2. value \in Nat /\ optimum =< value /\ value =< node[a].obj /\ node[a].obj =< Infeasible
      BY <1>2, <1>4, <3>1
    <3>3. value \in Objectives
      BY <1>4, <3>2 DEF Objectives
    <3> QED
      BY <1>4, <1>7, <3>2, <3>3
  <2> QED
    BY <2>1, <2>2
<1>9. node[a].opt = optimum => value = optimum
  <2> SUFFICES ASSUME node[a].opt = optimum PROVE value = optimum
    OBVIOUS
  <2>1. CASE Obj(a) = Infeasible
    <3>1. value = Infeasible /\ optimum =< Infeasible /\ Infeasible =< optimum
      BY <1>2, <1>3, <1>4, <2>1 DEF Obj
    <3> QED
      BY <1>4, <3>1
  <2>2. CASE Obj(a) # Infeasible
    <3>1. node[a].obj = node[a].opt
      BY <1>6, <2>2 DEF AllNodes, Obj, a
    <3>2. value \in optimum .. node[a].obj
      BY <1>3, <2>2 DEF Obj
    <3> QED
      BY <1>4, <1>8, <3>1, <3>2
  <2> QED
    BY <2>1, <2>2
<1>10. /\ queue' \in Seq(Addresses) /\ IsInjective(queue')
       /\ ToSet(queue') \subseteq ToSet(queue)
       /\ \A b \in ToSet(queue) : Improves(Obj(b), value) => b \in ToSet(queue')
       /\ queue # <<>> => queue' # <<>> /\ queue'[1] = queue[1] /\ queue[1] \in ToSet(queue')
       /\ DOMAIN node' = DOMAIN node \ (ToSet(queue) \ ToSet(queue'))
       /\ node' \in [DOMAIN node' -> AllNodes] /\ \A b \in DOMAIN node' : node'[b] = node[b]
       /\ nActive' = Len(queue') /\ nActive' \in Nat
  BY <1>1, <1>3, <1>8, StripKeeps
<1>11. DOMAIN node = ToSet(queue) \cup ToSet(hand) /\ ToSet(queue) \cap doomed = {}
  BY <1>1 DEF NodesAreReferenced
<1>12. \A b \in ToSet(hand) : b \in ToSet(queue) => b \in ToSet(queue')
  <2> SUFFICES ASSUME NEW i \in 1 .. Len(hand), hand[i] \in ToSet(queue) PROVE hand[i] \in ToSet(queue')
    BY <1>1 DEF ToSet
  <2>1. i \notin inspected + 1 .. Len(hand)
    BY <1>1 DEF HandInv
  <2>2. i = 1 /\ inspected = 1
    BY <1>1, <2>1
  <2>3. hand[1] \notin doomed
    BY <1>11, <2>2
  <2>4. queue # <<>> /\ hand[1] = queue[1]
    BY <1>1, <2>2, <2>3 DEF FirstChildLeads
  <2> QED
    BY <1>10, <2>2, <2>4
<1>13. DOMAIN node' = ToSet(queue') \cup ToSet(hand)
  BY <1>10, <1>11, <1>12
<1>14. \A b \in ToSet(queue') \cup ToSet(hand) : node'[b] = node[b]
  BY <1>10, <1>13
<1>15. primal' \in Objectives /\ optimum =< primal' /\ primal' =< value
  <2> DEFINE S == {primal, value}
  <2>1. S \in SUBSET Nat /\ S # {} /\ S \subseteq Objectives /\ value \in S /\ \A x \in S : optimum =< x
    BY <1>2, <1>4, <1>5, <1>8
  <2> HIDE DEF S
  <2>2. Min(S) \in S /\ \A x \in S : Min(S) =< x
    BY <2>1, MinOfNaturals
  <2> QED
    BY <1>3, <2>1, <2>2 DEF S
<1>16. TypeInv'
  <2>1. DOMAIN node' \subseteq Addresses
    BY <1>1, <1>10 DEF TypeInv
  <2> QED
    BY <1>1, <1>3, <1>8, <1>10, <1>15, <2>1 DEF TypeInv
<1>17. NodesAreReferenced'
  BY <1>1, <1>3, <1>10, <1>11, <1>13 DEF NodesAreReferenced
<1>18. HandInv'
  <2>1. \A i \in 1 .. inspected' : i = inspected + 1 \/ hand[i] \in ToSet(queue) \cup doomed
    BY InspectedNode
  <2>2. \A i \in 1 .. inspected' : hand[i] \in ToSet(hand)
    BY <1>1 DEF ToSet
  <2>3. \A i \in 1 .. inspected' : hand[i] \in ToSet(queue') \cup doomed'
    BY <1>3, <1>12, <2>1, <2>2 DEF a
  <2> QED
    BY <1>1, <1>2, <1>3, <1>10, <2>3 DEF HandInv
<1>19. FirstChildLeads'
  BY <1>1, <1>3 DEF FirstChildLeads, a
<1>20. NothingIsBetter'
  <2>1. \A b \in ToSet(queue') : optimum' =< node'[b].opt
    BY <1>1, <1>5, <1>10, <1>14
  <2>2. \A i \in inspected' + 1 .. Len(hand) : optimum' =< node'[hand'[i]].opt
    BY <1>1, <1>2, <1>5, <1>14
  <2> QED
    BY <1>1, <1>3, <1>8, <1>15, <2>1, <2>2 DEF NothingIsBetter
<1>21. NothingIsLost'
  <2>1. CASE value = optimum
    BY <1>1, <1>3, <2>1 DEF NothingIsLost
  <2>2. CASE value # optimum
    <3>1. savedObjective # optimum /\ node[a].opt # optimum
      BY <1>4, <1>8, <1>9, <2>2
    <3>2. ASSUME NEW b \in ToSet(queue), node[b].opt = optimum PROVE b \in ToSet(queue')
      <4>1. node[b].obj \in Nat /\ node[b].obj =< node[b].opt
        BY <1>1, <1>11, ObjectivesAreNaturals DEF TypeInv, AllNodes
      <4>2. ~(value =< node[b].obj)
        BY <1>4, <1>8, <2>2, <3>2, <4>1
      <4>3. Improves(Obj(b), value)
        BY <1>8, <4>1, <4>2, NoImprovement DEF Obj
      <4> QED
        BY <1>10, <4>3
    <3>3. CASE \E b \in ToSet(queue) : node[b].opt = optimum
      BY <1>1, <1>14, <3>2, <3>3 DEF NothingIsLost
    <3>4. CASE \E i \in inspected + 1 .. Len(hand) : node[hand[i]].opt = optimum
      <4>1. PICK i \in inspected + 1 .. Len(hand) : node[hand[i]].opt = optimum
        BY <3>4
      <4>2. i \in inspected' + 1 .. Len(hand)
        BY <1>2, <3>1, <4>1 DEF a
      <4> QED
        BY <1>1, <1>2, <1>14, <4>1, <4>2 DEF NothingIsLost
    <3> QED
      BY <1>1, <3>1, <3>3, <3>4 DEF NothingIsLost
  <2> QED
    BY <2>1, <2>2
<1>22. BestBoundIsBound'
  BY <1>1, <1>3, <1>10, <1>14 DEF BestBoundIsBound, Obj
<1> QED
  BY <1>1, <1>15, <1>16, <1>17, <1>18, <1>19, <1>20, <1>21, <1>22 DEF Inv

LEMMA InspectInv == Inv /\ Inspect => Inv'
<1> SUFFICES ASSUME Inv, Inspect PROVE Inv'
  OBVIOUS
<1> DEFINE a == hand[inspected + 1]
<1>1. \/ MayImprove(Obj(a)) /\ node[a].feasible /\ SaveSolution(a)
      \/ MayImprove(Obj(a)) /\ ~ node[a].feasible /\ QueueExploredNode(a)
      \/ ~ MayImprove(Obj(a)) /\ CutOff(a)
  BY DEF Inspect
<1> QED
  BY <1>1, QueueKeeps, CutOffKeeps, SaveKeeps

\* The end of an iteration: only nodes that no list refers to are deleted.
LEMMA DiscardInv == Inv /\ Discard => Inv' /\ (dual =< optimum => dual' =< optimum')
<1> SUFFICES ASSUME Inv, Discard PROVE Inv' /\ (dual =< optimum => dual' =< optimum')
  OBVIOUS
<1>1. /\ phase = "inspect" /\ inspected = Len(hand)
      /\ dual' = IF Len(hand) = 2 /\ bestBound =< primal THEN Max({dual, bestBound}) ELSE dual
      /\ node' = Restrict(node, DOMAIN node \ doomed)
      /\ phase' = "loop" /\ hand' = <<>> /\ inspected' = 0 /\ doomed' = {}
      /\ UNCHANGED <<client, optimum, queue, nActive, savedObjective, feasible, primal, bestBound>>
  BY DEF Discard, best
<1>2. /\ TypeInv /\ optimum =< primal /\ NodesAreReferenced /\ HandInv /\ FirstChildLeads
      /\ NothingIsBetter /\ NothingIsLost /\ BestBoundIsBound
  BY <1>1 DEF Inv
<1>3. /\ DOMAIN node' = DOMAIN node \ doomed /\ \A b \in DOMAIN node' : node'[b] = node[b]
      /\ node' \in [DOMAIN node' -> AllNodes]
  BY <1>1, <1>2 DEF Restrict, TypeInv
<1>4. /\ hand' \in Seq(Addresses) /\ Len(hand') = 0 /\ ToSet(hand') = {} /\ IsInjective(hand')
      /\ \A i \in inspected' + 1 .. Len(hand') : FALSE
  <2>1. hand' \in Seq(Addresses) /\ Len(hand') = 0 /\ DOMAIN hand' = {}
    BY <1>1
  <2>2. \A i \in inspected' + 1 .. Len(hand') : FALSE
    BY <1>1, <2>1
  <2> QED
    BY <2>1, <2>2 DEF ToSet, IsInjective
<1>5. DOMAIN node = ToSet(queue) \cup ToSet(hand) /\ ToSet(queue) \cap doomed = {}
  BY <1>1, <1>2 DEF NodesAreReferenced
<1>6. Len(hand) \in Nat /\ DOMAIN hand = 1 .. Len(hand) /\ \A i \in inspected + 1 .. Len(hand) : FALSE
  <2>1. Len(hand) \in Nat /\ DOMAIN hand = 1 .. Len(hand)
    BY <1>2, LenProperties DEF TypeInv
  <2> QED
    BY <1>1, <2>1
<1>7. ToSet(hand) \subseteq ToSet(queue) \cup doomed /\ doomed \subseteq ToSet(hand)
  BY <1>1, <1>2, <1>6 DEF HandInv, ToSet
<1>8. DOMAIN node' = ToSet(queue') \cup ToSet(hand') /\ \A b \in ToSet(queue) : node'[b] = node[b]
  BY <1>1, <1>3, <1>4, <1>5, <1>7
<1>9. TypeInv' /\ (dual =< optimum => dual' =< optimum')
  <2>1. /\ optimum \in Nat /\ bestBound \in Nat /\ primal \in Nat /\ savedObjective \in Nat
        /\ dual \in Int /\ bestBound \in Int
    BY <1>2, ObjectivesAreNaturals DEF TypeInv, Unbounded
  <2>4. DOMAIN node' \subseteq Addresses /\ phase' \in Phases /\ inspected' \in 0 .. Len(hand')
    <3>1. DOMAIN node' \subseteq Addresses
      BY <1>2, <1>3 DEF TypeInv
    <3>2. phase' \in Phases
      BY <1>1 DEF Phases
    <3>3. inspected' = 0 /\ Len(hand') = 0
      BY <1>1, <1>4
    <3> QED
      BY <3>1, <3>2, <3>3
  <2>2. CASE Len(hand) = 2 /\ bestBound =< primal
    <3>1. Max({dual, bestBound}) \in {dual, bestBound}
      <4>1. \A x, y \in Int : Max({x, y}) \in {x, y}
        BY MaxOfTwo
      <4> QED
        BY <2>1, <4>1
    <3>2. dual' \in Objectives \cup {Unbounded}
      BY <1>1, <1>2, <2>2, <3>1 DEF TypeInv
    <3>3. bestBound =< optimum
      <4>1. CASE savedObjective = optimum
        BY <1>2, <2>1, <2>2, <4>1 DEF NothingIsBetter
      <4>2. CASE \E b \in ToSet(queue) : node[b].opt = optimum
        <5>1. PICK b \in ToSet(queue) : node[b].opt = optimum
          BY <4>2
        <5>2. node[b].obj \in Nat /\ node[b].obj =< node[b].opt
          BY <1>2, <1>5, ObjectivesAreNaturals DEF TypeInv, AllNodes
        <5>3. bestBound =< node[b].obj
          BY <1>1, <1>2 DEF BestBoundIsBound, Obj
        <5> QED
          BY <2>1, <5>1, <5>2, <5>3
      <4> QED
        BY <1>1, <1>2, <1>6, <4>1, <4>2 DEF NothingIsLost
    <3>4. dual =< optimum => dual' =< optimum'
      BY <1>1, <2>1, <2>2, <3>1, <3>3
    <3>5. TypeInv'
      BY <1>1, <1>2, <1>3, <1>4, <2>4, <3>2 DEF TypeInv
    <3> QED
      BY <3>4, <3>5
  <2>3. CASE ~(Len(hand) = 2 /\ bestBound =< primal)
    BY <1>1, <1>2, <1>3, <1>4, <2>3, <2>4 DEF TypeInv
  <2> QED
    BY <2>2, <2>3
<1>10. NodesAreReferenced' /\ FirstChildLeads'
  BY <1>1, <1>2, <1>8 DEF NodesAreReferenced, FirstChildLeads
<1>11. HandInv'
  BY <1>1, <1>4 DEF HandInv
<1>12. NothingIsBetter' /\ BestBoundIsBound'
  BY <1>1, <1>2, <1>4, <1>8 DEF NothingIsBetter, BestBoundIsBound, Obj
<1>13. NothingIsLost'
  BY <1>1, <1>2, <1>6, <1>8 DEF NothingIsLost
<1> QED
  BY <1>1, <1>2, <1>9, <1>10, <1>11, <1>12, <1>13 DEF Inv

LEMMA LeaveLoopInv == Inv /\ LeaveLoop => Inv' /\ dual' = dual /\ optimum' = optimum
<1> SUFFICES ASSUME Inv, LeaveLoop PROVE Inv' /\ dual' = dual /\ optimum' = optimum
  OBVIOUS
<1>1. /\ phase = "loop" /\ phase' = "final"
      /\ UNCHANGED <<client, optimum, node, queue, nActive, hand, inspected, doomed,
                     savedObjective, feasible, primal, bestBound, dual>>
  BY DEF LeaveLoop, heap, best
<1>2. TypeInv'
  BY <1>1 DEF Inv, TypeInv, Phases
<1>3. (NodesAreReferenced /\ HandInv /\ FirstChildLeads)'
  BY <1>1 DEF Inv, NodesAreReferenced, HandInv, FirstChildLeads
<1>4. (NothingIsBetter /\ NothingIsLost /\ BestBoundIsBound)'
  BY <1>1 DEF Inv, NothingIsBetter, NothingIsLost, BestBoundIsBound, Obj
<1> QED
  BY <1>1, <1>2, <1>3, <1>4 DEF Inv

\* A node is taken from the list, and the best bound is that of the others.
LEMMA UnlinkedNode ==
  ASSUME Inv, phase = "loop", NEW i \in DOMAIN queue, Unlink(i)
  PROVE  /\ queue[i] \in ToSet(queue) /\ queue[i] \in DOMAIN node /\ DOMAIN node = ToSet(queue)
         /\ queue[i] \in Addresses
         /\ queue' \in Seq(Addresses) /\ IsInjective(queue')
         /\ queue[i] \notin ToSet(queue') /\ ToSet(queue) = ToSet(queue') \cup {queue[i]}
         /\ nActive' = Len(queue') /\ nActive' \in Nat
         /\ bestBound' \in Objectives /\ \A c \in ToSet(queue') : bestBound' =< node[c].obj
<1>1. TypeInv /\ NodesAreReferenced /\ HandInv
  BY DEF Inv
<1>2. /\ queue \in Seq(Addresses) /\ IsInjective(queue) /\ nActive = Len(queue)
      /\ DOMAIN node = ToSet(queue) \cup ToSet(hand) /\ hand = <<>> /\ node \in [DOMAIN node -> AllNodes]
      /\ DOMAIN node \subseteq Addresses /\ savedObjective \in Objectives
  BY <1>1 DEF TypeInv, NodesAreReferenced, HandInv
<1>3. DOMAIN node = ToSet(queue) /\ queue[i] \in ToSet(queue)
  BY <1>2 DEF ToSet
<1>4. /\ queue' = RemoveAt(queue, i) /\ nActive' = nActive - 1
      /\ bestBound' = Min({savedObjective} \cup {Obj(b) : b \in ToSet(queue')})
  BY DEF Unlink
<1>5. /\ queue' \in Seq(Addresses) /\ IsInjective(queue')
      /\ queue[i] \notin ToSet(queue') /\ ToSet(queue) = ToSet(queue') \cup {queue[i]}
      /\ Len(queue) \in Nat \ {0} /\ Len(queue') = Len(queue) - 1
  BY <1>2, <1>4, RemovedElement
<1>6. nActive' = Len(queue') /\ nActive' \in Nat
  BY <1>2, <1>4, <1>5
<1>7. bestBound' \in Objectives /\ \A c \in ToSet(queue') : bestBound' =< node[c].obj
  <2> DEFINE S == {savedObjective} \cup {Obj(b) : b \in ToSet(queue')}
  <2>1. \A c \in ToSet(queue') : node[c].obj \in Objectives
    BY <1>2, <1>3, <1>5 DEF AllNodes
  <2>2. S \subseteq Objectives /\ S # {} /\ \A c \in ToSet(queue') : node[c].obj \in S
    BY <1>2, <2>1 DEF Obj
  <2> HIDE DEF S
  <2>3. S \in SUBSET Nat
    BY <2>2, ObjectivesAreNaturals
  <2>4. Min(S) \in S /\ \A x \in S : Min(S) =< x
    BY <2>2, <2>3, MinOfNaturals
  <2> QED
    BY <1>4, <2>2, <2>4 DEF S
<1> QED
  BY <1>2, <1>3, <1>5, <1>6, <1>7

\* The two children have the solutions of their parent, and one of them has its place.
LEMMA BranchInv ==
  ASSUME Inv, Optimize, Branch
  PROVE  Inv'
<1>1. /\ phase = "loop" /\ DOMAIN node # Addresses
      /\ UNCHANGED <<client, optimum, inspected, doomed, savedObjective, feasible, primal, dual>>
  BY DEF Optimize, best
<1>2. /\ TypeInv /\ optimum =< primal /\ NodesAreReferenced /\ HandInv /\ FirstChildLeads
      /\ NothingIsBetter /\ NothingIsLost /\ BestBoundIsBound
  BY <1>1 DEF Inv
<1> DEFINE Split(i, a, b) ==
             /\ Unlink(i)
             /\ \E u, v \in Smaller(node[a].unfixed) : \E x \in Nodes(u), y \in Nodes(v) :
                  /\ Min({x.opt, y.opt}) = node[a].opt
                  /\ node' = [c \in DOMAIN node \cup {b} |-> CASE c = a -> x [] c = b -> y [] OTHER -> node[c]]
             /\ hand' = <<a, b>> /\ phase' = "inspect"
<1>3. \E i \in DOMAIN queue, b \in {Min(Addresses \ DOMAIN node)} : \E a \in {queue[i]} : Split(i, a, b)
  BY Zenon DEF Branch
<1>4. PICK i \in DOMAIN queue, b \in {Min(Addresses \ DOMAIN node)} : Split(i, queue[i], b)
  <2> HIDE DEF Split
  <2> QED
    BY <1>3
<1> DEFINE a == queue[i]
<1>5. PICK u \in Smaller(node[a].unfixed), v \in Smaller(node[a].unfixed) :
        \E x \in Nodes(u), y \in Nodes(v) :
        /\ Min({x.opt, y.opt}) = node[a].opt
        /\ node' = [c \in DOMAIN node \cup {b} |-> CASE c = a -> x [] c = b -> y [] OTHER -> node[c]]
  BY <1>4, Zenon
<1>5a. PICK x \in Nodes(u), y \in Nodes(v) :
        /\ Min({x.opt, y.opt}) = node[a].opt
        /\ node' = [c \in DOMAIN node \cup {b} |-> CASE c = a -> x [] c = b -> y [] OTHER -> node[c]]
  BY <1>5
<1>6. /\ a \in DOMAIN node /\ DOMAIN node = ToSet(queue) /\ a \in Addresses
      /\ queue' \in Seq(Addresses) /\ IsInjective(queue')
      /\ a \notin ToSet(queue') /\ ToSet(queue) = ToSet(queue') \cup {a}
      /\ nActive' = Len(queue') /\ nActive' \in Nat
      /\ bestBound' \in Objectives /\ \A c \in ToSet(queue') : bestBound' =< node[c].obj
  <2>1. Unlink(i)
    BY <1>4
  <2> QED
    BY <1>1, <1>4, <2>1, UnlinkedNode
<1>7. hand' = <<a, b>> /\ phase' = "inspect"
  BY <1>4
<1> HIDE DEF Split, a
<1>8. DOMAIN node \subseteq Addresses /\ node \in [DOMAIN node -> AllNodes]
  BY <1>2 DEF TypeInv
<1>9. b \in Addresses /\ b \notin DOMAIN node
  <2> DEFINE S == Addresses \ DOMAIN node
  <2>1. S \in SUBSET Nat /\ S # {}
    BY <1>1, <1>8, AddressesType
  <2> HIDE DEF S
  <2>2. Min(S) \in S
    BY <2>1, MinOfNaturals
  <2>3. b = Min(S)
    BY DEF S
  <2> QED
    BY <2>2, <2>3 DEF S
<1>10. x \in AllNodes /\ y \in AllNodes
  <2>1. node[a].unfixed \in Nat
    BY <1>6, <1>8 DEF AllNodes
  <2>2. u \in Nat /\ v \in Nat
    BY <2>1 DEF Smaller
  <2> QED
    BY <2>2, NodesAreNodes
<1>11. /\ DOMAIN node' = DOMAIN node \cup {b} /\ node'[a] = x /\ node'[b] = y
       /\ \A c \in ToSet(queue') : node'[c] = node[c]
  BY <1>5a, <1>6, <1>9
<1>12. /\ hand' \in Seq(Addresses) /\ Len(hand') = 2 /\ hand'[1] = a /\ hand'[2] = b /\ ToSet(hand') = {a, b}
       /\ IsInjective(hand')
  <2>1. hand' \in Seq(Addresses) /\ Len(hand') = 2 /\ hand'[1] = a /\ hand'[2] = b /\ DOMAIN hand' = {1, 2}
    BY <1>6, <1>7, <1>9
  <2>2. a # b
    BY <1>6, <1>9
  <2> QED
    BY <2>1, <2>2 DEF ToSet, IsInjective
<1>13. inspected = 0 /\ doomed = {} /\ \A k \in inspected' + 1 .. Len(hand') : k = 1 \/ k = 2
  <2>1. inspected = 0 /\ doomed = {}
    <3>1. hand = <<>> /\ doomed = {} /\ inspected \in 0 .. Len(hand)
      BY <1>1, <1>2 DEF HandInv, TypeInv
    <3> QED
      BY <3>1
  <2> QED
    BY <1>1, <1>12, <2>1
<1>14. TypeInv'
  <2>1. DOMAIN node' \subseteq Addresses /\ node' \in [DOMAIN node' -> AllNodes]
    BY <1>5a, <1>8, <1>9, <1>10
  <2>2. inspected' \in 0 .. Len(hand') /\ phase' \in Phases
    BY <1>1, <1>7, <1>12, <1>13 DEF Phases
  <2> QED
    BY <1>1, <1>2, <1>6, <1>12, <2>1, <2>2 DEF TypeInv
<1>15. NodesAreReferenced'
  <2>1. DOMAIN node' = ToSet(queue') \cup ToSet(hand')
    BY <1>6, <1>11, <1>12
  <2> QED
    BY <1>1, <1>6, <1>13, <2>1 DEF NodesAreReferenced
<1>16. HandInv' /\ FirstChildLeads'
  <2>1. a \notin ToSet(queue') /\ b \notin ToSet(queue')
    BY <1>6, <1>9
  <2>2. \A k \in inspected' + 1 .. Len(hand') : hand'[k] \notin ToSet(queue') \cup doomed'
    BY <1>1, <1>12, <1>13, <2>1
  <2>3. \A k \in 1 .. inspected' : hand'[k] \in ToSet(queue') \cup doomed'
    BY <1>1, <1>13
  <2> QED
    BY <1>1, <1>7, <1>12, <1>13, <2>2, <2>3 DEF HandInv, FirstChildLeads
<1>17. /\ x.opt \in Nat /\ y.opt \in Nat /\ node[a].opt \in Nat /\ optimum \in Nat
       /\ node[a].opt \in {x.opt, y.opt} /\ node[a].opt =< x.opt /\ node[a].opt =< y.opt
       /\ optimum =< node[a].opt
  <2> DEFINE S == {x.opt, y.opt}
  <2>1. x.opt \in Nat /\ y.opt \in Nat /\ node[a].opt \in Nat /\ optimum \in Nat
    BY <1>2, <1>6, <1>8, <1>10, ObjectivesAreNaturals DEF AllNodes, TypeInv
  <2>2. S \in SUBSET Nat /\ S # {} /\ x.opt \in S /\ y.opt \in S
    BY <2>1
  <2> HIDE DEF S
  <2>3. Min(S) \in S /\ \A z \in S : Min(S) =< z
    BY <2>2, MinOfNaturals
  <2>4. optimum =< node[a].opt
    BY <1>2, <1>6 DEF NothingIsBetter
  <2>5. node[a].opt = Min(S)
    BY <1>5a DEF S
  <2> QED
    BY <2>1, <2>2, <2>3, <2>4, <2>5 DEF S
<1>18. NothingIsBetter'
  <2>1. optimum =< x.opt /\ optimum =< y.opt
    BY <1>17
  <2>2. \A k \in inspected' + 1 .. Len(hand') : optimum =< node'[hand'[k]].opt
    BY <1>11, <1>12, <1>13, <2>1
  <2> QED
    BY <1>1, <1>2, <1>6, <1>11, <2>2 DEF NothingIsBetter
<1>19. NothingIsLost'
  <2>1. CASE savedObjective = optimum
    BY <1>1, <2>1 DEF NothingIsLost
  <2>2. CASE \E c \in ToSet(queue) : node[c].opt = optimum
    <3>1. CASE \E c \in ToSet(queue') : node[c].opt = optimum
      BY <1>1, <1>11, <3>1 DEF NothingIsLost
    <3>2. CASE node[a].opt = optimum
      <4>1. node'[hand'[1]].opt = optimum \/ node'[hand'[2]].opt = optimum
        BY <1>11, <1>12, <1>17, <3>2
      <4>2. 1 \in inspected' + 1 .. Len(hand') /\ 2 \in inspected' + 1 .. Len(hand')
        BY <1>1, <1>12, <1>13
      <4> QED
        BY <1>1, <4>1, <4>2 DEF NothingIsLost
    <3> QED
      BY <1>6, <2>2, <3>1, <3>2
  <2>3. ~ \E k \in inspected + 1 .. Len(hand) : node[hand[k]].opt = optimum
    <3>1. hand = <<>>
      BY <1>1, <1>2 DEF HandInv
    <3> QED
      BY <1>13, <3>1
  <2> QED
    BY <1>1, <1>2, <2>1, <2>2, <2>3 DEF NothingIsLost
<1>20. BestBoundIsBound'
  BY <1>6, <1>11 DEF BestBoundIsBound, Obj
<1> QED
  BY <1>1, <1>2, <1>14, <1>15, <1>16, <1>18, <1>19, <1>20 DEF Inv

\* The search stops with an error when there is nothing to branch on.
LEMMA NothingToBranchOnInv ==
  ASSUME Inv, Optimize, NothingToBranchOn
  PROVE  Inv'
<1>1. /\ phase = "loop"
      /\ UNCHANGED <<client, optimum, inspected, doomed, savedObjective, feasible, primal, dual>>
  BY DEF Optimize, best
<1>2. PICK i \in DOMAIN queue : Unlink(i) /\ phase' = "error" /\ UNCHANGED <<node, hand>>
  BY DEF NothingToBranchOn
<1>3. queue' \in Seq(Addresses) /\ nActive' \in Nat /\ bestBound' \in Objectives
  BY <1>1, <1>2, UnlinkedNode
<1>4. TypeInv' /\ (optimum =< primal)'
  BY <1>1, <1>2, <1>3 DEF Inv, TypeInv, Phases
<1> QED
  BY <1>2, <1>4 DEF Inv

LEMMA OptimizeInv == Inv /\ Optimize => Inv' /\ dual' = dual /\ optimum' = optimum
<1> QED
  BY BranchInv, NothingToBranchOnInv DEF Optimize

\* Where the search has not been cut short, the saved solution that is certified is optimal.
\* For a maximization this depends on the loop having been left at its end: the test of the
\* constructor is an epsilon weaker than that of the loop.
LEMMA CertifyInv ==
  Inv /\ Certify =>
    /\ Inv'
    /\ (client.sense = "max" => SearchIsOver) => (dual =< optimum => dual' =< optimum')
<1> SUFFICES ASSUME Inv, Certify
             PROVE  /\ Inv'
                    /\ (client.sense = "max" => SearchIsOver) => (dual =< optimum => dual' =< optimum')
  OBVIOUS
<1> DEFINE Interrupted == \/ LastTest(bestBound, savedObjective)
                          \/ LastTie(bestBound, savedObjective) /\ ~ feasible /\ nActive > 0
<1>1. /\ phase = "final"
      /\ UNCHANGED <<client, optimum, node, queue, nActive, hand, inspected, doomed,
                     savedObjective, feasible, primal>>
  BY DEF Certify, heap, best
<1>2. \/ Interrupted /\ phase' = "interrupted" /\ UNCHANGED <<bestBound, dual>>
      \/ /\ ~ Interrupted /\ phase' = "optimal" /\ bestBound' = savedObjective
         /\ dual' = Max({dual, savedObjective})
  BY DEF Certify
<1> HIDE DEF Interrupted
<1>3. /\ TypeInv /\ optimum =< primal /\ NodesAreReferenced /\ HandInv /\ FirstChildLeads
      /\ NothingIsBetter /\ NothingIsLost /\ BestBoundIsBound
  BY <1>1 DEF Inv
<1>4. /\ optimum \in Nat /\ bestBound \in Nat /\ savedObjective \in Nat /\ dual \in Int /\ savedObjective \in Int
      /\ savedObjective \in Objectives /\ dual \in Objectives \cup {Unbounded}
  BY <1>3, ObjectivesAreNaturals DEF TypeInv, Unbounded
<1>5. Max({dual, savedObjective}) \in {dual, savedObjective}
  <2>1. \A x, y \in Int : Max({x, y}) \in {x, y}
    BY MaxOfTwo
  <2> QED
    BY <1>4, <2>1
<1>6. bestBound' \in Objectives /\ dual' \in Objectives \cup {Unbounded} /\ phase' \in Phases
  <2>1. bestBound \in Objectives
    BY <1>3 DEF TypeInv
  <2> QED
    BY <1>2, <1>4, <1>5, <2>1 DEF Phases
<1>7. TypeInv'
  BY <1>1, <1>3, <1>6 DEF TypeInv
<1>8. (NodesAreReferenced /\ HandInv /\ FirstChildLeads /\ NothingIsBetter /\ NothingIsLost)'
  BY <1>1, <1>2, <1>3 DEF NodesAreReferenced, HandInv, FirstChildLeads, NothingIsBetter, NothingIsLost
<1>9. BestBoundIsBound'
  BY <1>1, <1>2, <1>3 DEF BestBoundIsBound, Obj
<1>10. hand = <<>> /\ \A i \in inspected + 1 .. Len(hand) : FALSE
  <2>1. hand = <<>> /\ inspected \in 0 .. Len(hand)
    BY <1>1, <1>3 DEF HandInv, TypeInv
  <2> QED
    BY <2>1
<1>11. ASSUME ~ Interrupted, client.sense = "max" => SearchIsOver PROVE savedObjective = optimum
  <2>1. queue = <<>> \/ savedObjective =< bestBound
    <3>1. CASE client.sense = "max"
      <4>1. nActive = 0 \/ ~ Improves(bestBound, savedObjective)
        BY <1>1, <1>11, <3>1 DEF SearchIsOver
      <4>2. nActive = 0 => queue = <<>>
        BY <1>1, <1>3, EmptySeq DEF NodesAreReferenced, TypeInv
      <4> QED
        BY <1>4, <4>1, <4>2, NoImprovement
    <3>2. CASE client.sense # "max"
      <4>1. client.sense = "min"
        BY <1>3, <3>2, ClientsType DEF TypeInv
      <4>2. ~ Improves(bestBound, savedObjective)
        BY <1>11, <4>1 DEF Interrupted, LastTest, Improves
      <4> QED
        BY <1>4, <4>2, NoImprovement
    <3> QED
      BY <3>1, <3>2
  <2>2. CASE \E b \in ToSet(queue) : node[b].opt = optimum
    <3>1. PICK b \in ToSet(queue) : node[b].opt = optimum
      BY <2>2
    <3>2. savedObjective =< bestBound
      BY <2>1, <3>1 DEF ToSet
    <3>3. node[b].obj \in Nat /\ node[b].obj =< node[b].opt
      BY <1>1, <1>3, ObjectivesAreNaturals DEF TypeInv, NodesAreReferenced, AllNodes
    <3>4. bestBound =< node[b].obj /\ optimum =< savedObjective
      BY <1>1, <1>3 DEF BestBoundIsBound, NothingIsBetter, Obj
    <3> QED
      BY <1>4, <3>1, <3>2, <3>3, <3>4
  <2> QED
    BY <1>1, <1>3, <1>10, <2>2 DEF NothingIsLost
<1>12. ASSUME client.sense = "max" => SearchIsOver, dual =< optimum PROVE dual' =< optimum'
  BY <1>1, <1>2, <1>4, <1>5, <1>11, <1>12
<1> QED
  BY <1>1, <1>3, <1>7, <1>8, <1>9, <1>12 DEF Inv

LEMMA NextInv ==
  Inv /\ [Next]_vars =>
    /\ Inv'
    /\ (client.sense = "max" => SearchIsOver) => (dual =< optimum => dual' =< optimum')
<1> SUFFICES ASSUME Inv, [Next]_vars
             PROVE  /\ Inv'
                    /\ (client.sense = "max" => SearchIsOver) => (dual =< optimum => dual' =< optimum')
  OBVIOUS
<1>1. CASE Inspect
  <2>1. UNCHANGED <<optimum, dual>>
    BY <1>1 DEF Inspect
  <2> QED
    BY <1>1, <2>1, InspectInv
<1>2. CASE Discard
  BY <1>2, DiscardInv
<1>3. CASE LeaveLoop
  BY <1>3, LeaveLoopInv
<1>4. CASE Optimize
  BY <1>4, OptimizeInv
<1>5. CASE Certify
  BY <1>5, CertifyInv
<1>6. CASE UNCHANGED vars
  <2>1. UNCHANGED <<client, optimum, phase, node, queue, nActive, hand, inspected, doomed,
                    savedObjective, feasible, primal, bestBound, dual>>
    BY <1>6 DEF vars, heap, best
  <2>2. TypeInv' <=> TypeInv
    BY <2>1 DEF TypeInv
  <2>3. (NodesAreReferenced /\ HandInv /\ FirstChildLeads)' <=> NodesAreReferenced /\ HandInv /\ FirstChildLeads
    BY <2>1 DEF NodesAreReferenced, HandInv, FirstChildLeads
  <2>4. (NothingIsBetter /\ NothingIsLost /\ BestBoundIsBound)' <=> NothingIsBetter /\ NothingIsLost /\ BestBoundIsBound
    BY <2>1 DEF NothingIsBetter, NothingIsLost, BestBoundIsBound, Obj
  <2> QED
    BY <2>1, <2>2, <2>3, <2>4 DEF Inv
<1> QED
  BY <1>1, <1>2, <1>3, <1>4, <1>5, <1>6 DEF Next, Done
-----------------------------------------------------------------------------
(* What is promised.                                                       *)

LEMMA Invariance == Spec => []Inv
<1> QED
  BY InitInv, NextInv, PTL DEF Spec

\* The nodes in use are those of the list and those of the iteration, for every number of nodes
\* and in every order in which they are inspected: StripQueue() deletes no node that Optimize()
\* still refers to, and no node is deleted twice or forgotten.
THEOREM NodesStayReferenced == Spec => []NodesAreReferenced
<1>1. Inv => NodesAreReferenced
  BY DEF Inv, NodesAreReferenced
<1> QED
  BY <1>1, Invariance, PTL

\* Whatever is cut off, stripped or discarded: an optimal solution is saved, or there is a node
\* left that leads to it, until the scheme gives up with an error.
THEOREM SearchLosesNothing == Spec => []NothingIsLost
<1>1. Inv => NothingIsLost
  BY DEF Inv, NothingIsLost
<1> QED
  BY <1>1, Invariance, PTL

\* No maximization leaves the loop of Optimize() by a limit or a stop.
NotCutShort ==
  client.sense = "max" /\ phase = "loop" /\ Continues =>
    ~ client.mayHalt /\ DOMAIN node # Addresses

\* While a maximization is not cut short, the constructor finds it at its end.
LEMMA SearchIsOverStep ==
  Inv /\ NotCutShort /\ (client.sense = "max" => SearchIsOver) /\ [Next]_vars =>
    (client.sense = "max" => SearchIsOver)'
<1> SUFFICES ASSUME Inv, NotCutShort, client.sense = "max" => SearchIsOver, [Next]_vars,
                    client'.sense = "max"
             PROVE  SearchIsOver'
  OBVIOUS
<1>1. client' = client
  BY DEF Next, Inspect, Discard, LeaveLoop, Optimize, Certify, Done, vars
<1>2. CASE LeaveLoop
  <2>1. ~ Continues
    BY <1>1, <1>2 DEF LeaveLoop, NotCutShort
  <2>2. UNCHANGED <<client, nActive, bestBound, savedObjective>>
    BY <1>2 DEF LeaveLoop, heap, best
  <2>3. nActive \in Nat
    BY DEF Inv, TypeInv
  <2>4. nActive = 0 \/ ~ Improves(bestBound, savedObjective)
    BY <2>1, <2>3 DEF Continues
  <2> QED
    BY <2>2, <2>4 DEF SearchIsOver, Improves
<1>3. CASE UNCHANGED vars
  <2>1. UNCHANGED <<client, phase, nActive, bestBound, savedObjective>>
    BY <1>3 DEF vars, heap, best
  <2> QED
    BY <1>1, <2>1 DEF SearchIsOver, Improves
<1>4. CASE Inspect \/ Discard \/ Certify \/ Optimize
  <2>1. phase' # "final"
    BY <1>4 DEF Inspect, Discard, Certify, Optimize, Branch, NothingToBranchOn
  <2> QED
    BY <2>1 DEF SearchIsOver
<1> QED
  BY <1>2, <1>3, <1>4 DEF Next, Done

\* The published bounds enclose the optimum at any time, for minimizations even if they are
\* interrupted.  An interrupted maximization may certify a solution that is not optimal.
THEOREM BoundsEncloseTheOptimum == Spec /\ []NotCutShort => []BoundsEnclose
<1> DEFINE BoundInv == (client.sense = "max" => SearchIsOver) /\ dual =< optimum
<1>1. Init => BoundInv
  BY InitInv DEF Init, SearchIsOver
<1>2. Inv /\ BoundInv /\ NotCutShort /\ [Next]_vars => BoundInv'
  BY NextInv, SearchIsOverStep
<1>3. Inv /\ BoundInv => BoundsEnclose
  BY DEF Inv, BoundsEnclose
<1> HIDE DEF BoundInv
<1> QED
  BY <1>1, <1>2, <1>3, Invariance, PTL DEF Spec

\* A client that minimizes needs no hypothesis.
COROLLARY MinimizationsAreEnclosed ==
  ASSUME \A c \in Clients : c.sense = "min"
  PROVE  Spec => []BoundsEnclose
<1>1. Inv => NotCutShort
  BY DEF Inv, TypeInv, NotCutShort
<1> QED
  BY <1>1, Invariance, BoundsEncloseTheOptimum, PTL
=============================================================================
