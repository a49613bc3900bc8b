------------------------------- MODULE MinTree -------------------------------
(***************************************************************************)
(* abstractMixedGraph::MinTree (lib_src/solveMinTree.cpp): the methods of  *)
(* GreedyTree and Branching behind one interface.                          *)
(***************************************************************************)
EXTENDS GreedyTree, Branching

CONSTANTS Lengths,     \* the lengths to choose from, for every arc
          Missing,     \* sets of arcs that have no capacity
          Mandatory,   \* sets of mandatory arcs
          MaxFixed,    \* bound on the mandatory arcs at the root of a one cycle tree, for
                       \* the method of Kruskal
          Calls        \* the calls to try, as <<method, cycle, sign, directed>>

Methods == {"PRIM", "PRIM2", "KRUSKAL", "EDMONDS"}

ASSUME CallsType ==
  /\ Lengths \in [Arcs -> SUBSET Int] /\ MaxFixed \in Nat
  /\ Missing \subseteq SUBSET Arcs /\ Mandatory \subseteq SUBSET Arcs
  /\ Calls \subseteq Methods \X BOOLEAN \X {1, -1} \X BOOLEAN

vars == <<instance, pc, outcome, greedy, shrinking>>

\* Mandatory arcs that a method can take account of: only the one of Kruskal finds a cycle
\* of them.
Applicable ==
  /\ mandatory \subseteq usable
  /\ cycle => Cardinality(mandatory \cap AtRoot) <= IF method = "KRUSKAL" THEN MaxFixed ELSE 2
  /\ method # "KRUSKAL" =>
       \E A \in SpanningTrees : mandatory \ (IF cycle THEN AtRoot ELSE {}) \subseteq A
  /\ directed => /\ \A a, b \in mandatory : To[a] = To[b] => a = b
                 /\ cycle \/ \A a \in mandatory : To[a] # r

\* MinTree() replaces a method that does not apply.
Init ==
  /\ len \in {f \in [Arcs -> UNION {Lengths[a] : a \in Arcs}] : \A a \in Arcs : f[a] \in Lengths[a]}
  /\ usable \in {Arcs \ M : M \in Missing} /\ mandatory \in Mandatory
  /\ \E c \in Calls :
       /\ cycle = c[2] /\ sign = c[3] /\ directed = c[4]
       /\ method = IF c[1] = "EDMONDS" /\ ~directed /\ (cycle \/ mandatory # {})
                   THEN "KRUSKAL" ELSE c[1]
  /\ Applicable
  /\ pc = "start"
  /\ pred = [v \in Nodes |-> NoArc] /\ sub = {} /\ sum = 0 /\ rank = 0
  /\ dist = [v \in Nodes |-> Inf] /\ queue = {} /\ first = r /\ todo = {}
  /\ picks = <<NoArc, NoArc>> /\ fixed = 0 /\ set = [v \in Nodes |-> {v}]
  /\ inArc = <<>> /\ modLength = <<>> /\ entering = <<>> /\ outer = <<>>
  /\ scanNode = 0 /\ nCycles = 0

Next == \/ GreedyStep /\ UNCHANGED shrinking
        \/ EdmondsStep /\ UNCHANGED greedy

Spec == Init /\ [][Next]_vars

-----------------------------------------------------------------------------
\* The predecessor labels are the tree in the subgraph, directed away from the root: every
\* arc is the label of the node it leads to, and the labels lead back to the root.
LabelsAreTheTree ==
  /\ sub = {pred[v][1] : v \in {w \in Nodes : pred[w] # NoArc}}
  /\ \A v \in Nodes : pred[v] = NoArc => v = r /\ ~cycle
  /\ \A v \in Nodes : pred[v] # NoArc => EndNode(pred[v]) = v /\ ~Blocking(pred[v])
  /\ LET back[k \in Nat] ==
           IF k = 0 THEN Nodes
           ELSE {IF v = r THEN r ELSE StartNode(pred[v]) : v \in back[k - 1]}
     IN  back[N] = {r}

\* The solver returns the length of a shortest (or longest) tree of the kind that is asked
\* for, and leaves such a tree both in the subgraph and in the predecessor labels; it fails
\* if and only if there is none.
TreeIsOptimal ==
  pc = "done" => IF Solutions = {} THEN sum = Failure
                 ELSE sub \in Optima /\ sum = TotalLength(sub) /\ LabelsAreTheTree

\* The arcs that have been chosen.
Chosen == IF method = "KRUSKAL" THEN sub \ (IF cycle THEN AtRoot ELSE {})
          ELSE {pred[v][1] : v \in {w \in Nodes : dist[w] = -Inf /\ w \notin queue
                                                     /\ pred[w] # NoArc}}

\* No choice of a greedy method has to be taken back: there is an optimum with all the arcs
\* chosen so far.
ChoicesExtend ==
  pc \in {"expand", "greedy"} /\ Solutions # {} => \E A \in Optima : Chosen \subseteq A

\* The graph with the cycles shrunk: an arc into every node such that all lead back to the
\* root, and what it costs with the arcs on the cycles.
Outermost == {v \in 0 .. N + nCycles - 1 : outer[v] = v} \ {r}

Selections ==
  {f \in [Outermost -> UNION {entering[v] : v \in Outermost}] :
     /\ \A v \in Outermost : f[v] \in entering[v]
     /\ LET back[k \in Nat] ==
              IF k = 0 THEN Outermost
              ELSE {Top(StartNode(f[v])) : v \in back[k - 1] \ {r}}
        IN  back[N] = {}}

SelectionCost(f) ==
  MapThenSumSet(LAMBDA v : modLength[inArc[v]], {v \in NestedNodes : outer[v] # v})
    + MapThenSumSet(LAMBDA v : modLength[f[v]], Outermost)

\* To shrink a cycle changes nothing about the problem: the shortest selection in the graph
\* with its cycles shrunk has the length of the optimum of the graph itself.
ShrinkingIsExact ==
  pc = "shrink" /\ mandatory = {} /\ ~cycle =>
    IF Solutions = {} THEN Selections = {}
    ELSE \A A \in Optima :
           TotalLength(A) = sign * Min({sign * SelectionCost(f) : f \in Selections})
\* No choice loses an optimum: neither an arc that a greedy method takes, nor a cycle that
\* Edmonds' method shrinks.
NoOptimumIsLost == ChoicesExtend /\ ShrinkingIsExact
=============================================================================
