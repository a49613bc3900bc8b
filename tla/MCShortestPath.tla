---------------------------- MODULE MCShortestPath ----------------------------
(* Four nodes; the arcs 12, 23, 31 form a cycle, the arcs 12, 21 another one. *)
EXTENDS ShortestPath

MCArcs == {"01", "02", "12", "21", "23", "31"}

MCFrom == [a \in MCArcs |-> CASE a \in {"01", "02"} -> 0 [] a = "12" -> 1
                              [] a \in {"21", "23"} -> 2 [] OTHER -> 3]

MCTo == [a \in MCArcs |-> CASE a \in {"01", "21", "31"} -> 1 [] a \in {"02", "12"} -> 2
                            [] OTHER -> 3]

Large == MCArcs \ {"21"}

Tail == {"01", "12", "21", "23"}

Forward(A) == {<<a, 0>> : a \in A}

Extended(l, x) == [a \in MCArcs |-> IF a = "21" THEN x ELSE l[a]]

Both(L) == {[d \in Darts |-> Extended(l, 2)[d[1]]] : l \in [Large -> L]}

Residual(L) ==
  {[d \in Darts |-> IF d[2] = 0 THEN Extended(l, -1)[d[1]] ELSE -Extended(l, -1)[d[1]]] :
     l \in [Large -> L]}

(* Dijkstra's method from one or two sources on undirected graphs. *)
Settings == [len : Both({0, 2}), eligible : {Large \X {0, 1}}, method : {"DIJKSTRA"},
             sources : {{0}, {0, 3}}, targets : {{}, {2, 3}}]

(* Lengths below zero, by no more than the tolerance and by more. *)
NegativeSettings == [len : Both({2, -1}) \cup Both({2, -2}), eligible : {Forward(Large)}, method : {"DIJKSTRA"},
                     sources : {{0}}, targets : {{}}]

(* Label correcting methods on a directed graph, on a residual network where the arc 12 has
   capacity left in both directions, and on a cycle with an arc that leaves it. *)
Corrections ==
  [len : Residual({2, -1}), eligible : {Forward(Large), Forward(Large) \cup {<<"12", 1>>}, Forward(Tail)},
   method : {"BELLMAN", "FIFO"}, sources : {{0}}, targets : {{}}]
  \cup [len : Residual({2, -1}), eligible : {Forward(Large)}, method : {"FIFO"},
        sources : {Nodes}, targets : {{}}]

(* A graph without cycles and one with a cycle. *)
Orders == [len : Residual({2, -1}), eligible : {Forward(Large), Forward(Large \ {"31"})},
           method : {"DAG"}, sources : {{0}, {2}}, targets : {{}}]

MCCalls == Settings \cup NegativeSettings \cup Corrections \cup Orders

MCPotentials == {-1, 0, 1, 2}

(* A heap operation that refers to a node which has left the heap: a length is a little
   less than zero. *)
MCTiny == [len : Both({0, 2, -1}), eligible : {Forward(Large)}, method : {"DIJKSTRA"},
           sources : {{0}}, targets : {{}}]
=============================================================================
