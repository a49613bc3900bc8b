----------------------------- MODULE SpanningTree -----------------------------
(***************************************************************************)
(* What the spanning tree methods of lib_src/solveMinTree.cpp share: a     *)
(* mixed graph with arc lengths and mandatory arcs (those with a lower     *)
(* capacity bound), the objective, the predecessor labels, the subgraph.   *)
(*                                                                         *)
(* Reduced lengths are lengths like any other here.                        *)
(***************************************************************************)
EXTENDS MixedGraph, FiniteSetsExt

CONSTANT r              \* the root

ASSUME RootType == r \in Nodes

Inf == 1000      \* InfFloat: larger than any sum of lengths

VARIABLES len,           \* Length()
          usable,        \* the arcs with UCap() > 0
          mandatory,     \* the arcs with LCap() > 0
          directed,      \* IsDirected()
          cycle, sign,   \* MST_ONE_CYCLE; -1 with MST_MAX
          method,        \* TMethMST
          pc,            \* where the solver is
          pred, sub,     \* predecessor labels; the arcs of the subgraph
          sum, rank      \* the length and the number of the arcs that are chosen

instance == <<len, usable, mandatory, directed, cycle, sign, method>>
outcome == <<pred, sub, sum, rank>>

Blocking(d) == directed /\ d[2] = 1

\* The darts that leave v and no loops.
Leaving(v) == {d \in Darts : d[1] \in usable /\ StartNode(d) = v /\ EndNode(d) # v}

\* To maximize the length is to minimize its negative.
Cost(d) == sign * len[d[1]]

IsMandatory(d) == d[1] \in mandatory

Cheapest(D, cost(_)) == {d \in D : \A e \in D : cost(d) <= cost(e)}

TotalLength(A) ==
  LET total[B \in SUBSET A] ==
        IF B = {} THEN 0 ELSE LET b == CHOOSE a \in B : TRUE IN len[b] + total[B \ {b}]
  IN  total[A]

\* A method that fails returns an infinite length.
Failure == sign * Inf

-----------------------------------------------------------------------------
\* The trees with the nodes in V, as sets of arcs.
Reached(A, V, x, Follows(_, _, _)) ==
  LET near[k \in Nat] ==
        IF k = 0 THEN {x}
        ELSE LET S == near[k - 1]
             IN  S \cup {v \in V : \E a \in A, y \in S : Follows(a, y, v)}
  IN  near[Cardinality(V)]

Joins(a, y, v) == {From[a], To[a]} = {y, v}

Leads(a, y, v) == From[a] = y /\ To[a] = v

Inside(V) == {a \in Arcs : From[a] \in V /\ To[a] \in V /\ From[a] # To[a]}

Trees(V) ==
  {A \in SUBSET Inside(V) : /\ Cardinality(A) = Cardinality(V) - 1
                            /\ \A x \in V : Reached(A, V, x, Joins) = V}

SpanningTrees == Trees(Nodes)

AtRoot == {a \in Arcs : r \in {From[a], To[a]} /\ From[a] # To[a]}

OneCycleTrees ==
  {A \cup {a, b} : A \in Trees(Nodes \ {r}), a \in AtRoot, b \in AtRoot}

Arborescences == {A \in SpanningTrees : Reached(A, Nodes, r, Leads) = Nodes}

OneCycleArborescences == {A \cup {a} : A \in Arborescences, a \in {b \in AtRoot : To[b] = r}}

\* What a call asks for.
Solutions ==
  LET all == IF method = "EDMONDS" /\ directed
             THEN IF cycle THEN OneCycleArborescences ELSE Arborescences
             ELSE IF cycle THEN {A \in OneCycleTrees : Cardinality(A) = N} ELSE SpanningTrees
  IN  {A \in all : mandatory \subseteq A /\ A \subseteq usable}

Optima ==
  LET length == [A \in Solutions |-> sign * TotalLength(A)]
      least == Min({length[A] : A \in DOMAIN length})
  IN  {A \in DOMAIN length : length[A] = least}
=============================================================================
