------------------------------- MODULE Network -------------------------------
(***************************************************************************)
(* What the maximum flow methods of lib_src/solveMaxFlow.cpp share: a      *)
(* directed graph with capacities, a flow (the subgraph multiplicities),   *)
(* the divergence of every node, which is kept up to date by Push(), and   *)
(* the distance labels (the node colours).                                 *)
(*                                                                         *)
(* Capacities are finite here.                                             *)
(***************************************************************************)
EXTENDS MixedGraph

CONSTANTS s, t          \* source and target

ASSUME TerminalsType == s \in Nodes /\ t \in Nodes /\ s # t

\* The two lists of arcs that a relabel operation fills share their links, so that a
\* loop, which goes to both, makes it throw an exception.
ASSUME NoLoops == \A a \in Arcs : From[a] # To[a]

VARIABLES ucap, lcap,      \* capacity bounds
          flow,            \* Sub()
          div,             \* Divergence()
          dist,            \* node colours
          method,          \* TMethMXF
          pc,              \* where the solver is
          lower, upper,    \* bounds of the module guard
          failed           \* an exception was thrown

network == <<ucap, lcap, flow, div, dist, method, pc, lower, upper, failed>>

\* How much flow can still be pushed along d.
Capacity(f, d) == IF d[2] = 1 THEN f[d[1]] - lcap[d[1]] ELSE ucap[d[1]] - f[d[1]]

ResCap(d) == Capacity(flow, d)

Pushed(f, d, x) == [f EXCEPT ![d[1]] = IF d[2] = 0 THEN @ + x ELSE @ - x]

Push(d, x) == /\ flow' = Pushed(flow, d, x)
              /\ div' = [div EXCEPT ![StartNode(d)] = @ - x, ![EndNode(d)] = @ + x]

Least(x, y) == IF x < y THEN x ELSE y

-----------------------------------------------------------------------------
\* The flow, the divergences and the labels when a solver is called.
Legal == \A a \in Arcs : lcap[a] <= flow[a] /\ flow[a] <= ucap[a]

Balanced == \A v \in Nodes \ {s, t} : div[v] = 0
=============================================================================
