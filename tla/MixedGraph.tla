------------------------------ MODULE MixedGraph ------------------------------
(***************************************************************************)
(* A graph as the solvers see it (include/abstractMixedGraph.h): the arc a *)
(* is the dart <<a, 0>>, its reverse arc the dart <<a, 1>>; the code has   *)
(* the indices 2*a and 2*a+1, and turns an arc round with "a^1".           *)
(***************************************************************************)
EXTENDS Integers, FiniteSets

CONSTANTS N,            \* number of nodes
          Arcs,         \* the arcs
          From, To      \* their start and end nodes

Nodes == 0 .. N - 1

ASSUME GraphType ==
  /\ N \in Nat \ {0} /\ IsFiniteSet(Arcs)
  /\ From \in [Arcs -> Nodes] /\ To \in [Arcs -> Nodes]

NoNode == N    \* a label larger than that of any node

NoArc == <<>>

Darts == Arcs \X {0, 1}

Opposite(d) == <<d[1], 1 - d[2]>>

StartNode(d) == IF d[2] = 0 THEN From[d[1]] ELSE To[d[1]]

EndNode(d) == StartNode(Opposite(d))

DartsFrom(v) == {d \in Darts : StartNode(d) = v}
=============================================================================
