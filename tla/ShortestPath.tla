----------------------------- MODULE ShortestPath -----------------------------
(***************************************************************************)
(* The shortest path methods of lib_src/solveSPTree.cpp: SPX_Dijkstra,     *)
(* SPX_BellmanFord, NegativeCycle (with SPX_FIFOLabelCorrecting, which     *)
(* calls it) and the shortest path mode of DAGSearch.                      *)
(*                                                                         *)
(* Every arc of a call has a length for each direction, original or        *)
(* reduced.  A label that is InfFloat in the code is missing here.  The    *)
(* order in which a node lists its arcs, a heap its equals and a queue its *)
(* members is open.                                                        *)
(***************************************************************************)
EXTENDS MixedGraph

CONSTANTS Calls,      \* the calls to try: records with the length of every dart, the
                      \* eligible darts, the method, the sources, the targets
          Epsilon,    \* CT.epsilon
          Potentials  \* node potentials to compare the labels with

Methods == {"DIJKSTRA", "BELLMAN", "FIFO", "DAG"}

ASSUME CallsType ==
  /\ Epsilon \in Nat /\ Potentials \subseteq Int
  /\ \A c \in Calls :
       /\ c.len \in [Darts -> Int] /\ c.eligible \subseteq Darts /\ c.method \in Methods
       /\ c.sources \subseteq Nodes /\ c.targets \subseteq Nodes

VARIABLES call,         \* the call
          pc,           \* where the solver is
          dist,         \* labels ...
          labelled,     \* ... of the nodes that have one
          pred,         \* predecessor arcs
          queue,        \* nodes that wait in the heap or queue, or are active
          here, todo,   \* the node whose arcs are read, and the darts that are left
          pass,         \* the counters i and itCount
          updates,      \* Updates
          degree,       \* idg: eligible arcs into a node that are to be read
          found,        \* the target that has been reached
          root,         \* a node on a cycle of negative length
          error         \* what an exception tells

vars == <<call, pc, dist, labelled, pred, queue, here, todo, pass, updates, degree, found,
          root, error>>

len == call.len

method == call.method

EligibleFrom(v) == DartsFrom(v) \cap call.eligible

Init ==
  /\ call \in Calls
  /\ pc = "start"
  /\ dist = [v \in Nodes |-> 0] /\ labelled = {} /\ pred = [v \in Nodes |-> NoArc]
  /\ queue = {} /\ here = NoNode /\ todo = {}
  /\ pass = 1 /\ updates = FALSE
  /\ degree = [v \in Nodes |-> 0]
  /\ found = NoNode /\ root = NoNode /\ error = "none"

\* Variant: the length of the reverse arc is taken.
OfferOpposite(d) == dist[StartNode(d)] + len[Opposite(d)]

\* The label of the end node by way of d.
Offer(d) == dist[StartNode(d)] + len[d]

Improves(d) == EndNode(d) \notin labelled \/ Offer(d) < dist[EndNode(d)]

Label(d) ==
  /\ dist' = [dist EXCEPT ![EndNode(d)] = Offer(d)]
  /\ labelled' = labelled \cup {EndNode(d)}
  /\ pred' = [pred EXCEPT ![EndNode(d)] = d]

Throw(what) ==
  /\ error' = what /\ pc' = "done"
  /\ UNCHANGED <<call, dist, labelled, pred, queue, here, todo, pass, updates, degree, found, root>>

Finish ==
  /\ pc' = "done"
  /\ UNCHANGED <<call, dist, labelled, pred, queue, here, todo, pass, updates, degree, found,
                 root, error>>

-----------------------------------------------------------------------------
\* SPX_Dijkstra.
DijkstraStart ==
  /\ pc = "start" /\ method = "DIJKSTRA"
  /\ labelled' = call.sources /\ queue' = call.sources
  /\ pc' = "search"
  /\ UNCHANGED <<call, dist, pred, here, todo, pass, updates, degree, found, root, error>>

\* Variant: any node is taken.
NearestAny == queue

Nearest == {v \in queue : \A w \in queue : dist[v] <= dist[w]}

\* Variant: the node stays in the heap, as with Peek().
Peeked(u) == queue

\* Delete().
Deleted(u) == queue \ {u}

DijkstraTake ==
  /\ pc = "search" /\ method = "DIJKSTRA" /\ todo = {}
  /\ \E u \in Nearest :
       /\ queue' = Deleted(u) /\ here' = u
       /\ IF u \in call.targets THEN found' = u /\ pc' = "done" /\ todo' = {}
          ELSE todo' = EligibleFrom(u) /\ UNCHANGED <<found, pc>>
  /\ UNCHANGED <<call, dist, labelled, pred, pass, updates, degree, root, error>>

DijkstraSkip ==
  /\ pc = "search" /\ method = "DIJKSTRA"
  /\ \E d \in todo : ~Improves(d) /\ todo' = todo \ {d}
  /\ UNCHANGED <<call, pc, dist, labelled, pred, queue, here, pass, updates, degree, found,
                 root, error>>

\* Only an arc that would improve a label is checked.
NegativeLength ==
  /\ pc = "search" /\ method = "DIJKSTRA"
  /\ \E d \in todo : Improves(d) /\ len[d] < -Epsilon
  /\ Throw("negative length")

Settled == labelled \ queue

\* ChangeKey() of a node that is not in the heap any more.
NoSuchItem ==
  /\ pc = "search" /\ method = "DIJKSTRA"
  /\ \E d \in todo : Improves(d) /\ len[d] >= -Epsilon /\ EndNode(d) \in Settled
  /\ Throw("no such item")

\* Insert() or ChangeKey().
DijkstraLabel ==
  /\ pc = "search" /\ method = "DIJKSTRA"
  /\ \E d \in todo : /\ Improves(d) /\ len[d] >= -Epsilon /\ EndNode(d) \notin Settled
                     /\ Label(d)
                     /\ queue' = queue \cup {EndNode(d)}
                     /\ todo' = todo \ {d}
  /\ UNCHANGED <<call, pc, here, pass, updates, degree, found, root, error>>

DijkstraEnd ==
  /\ pc = "search" /\ method = "DIJKSTRA" /\ todo = {} /\ queue = {}
  /\ Finish

-----------------------------------------------------------------------------
\* SPX_BellmanFord.
BellmanStart ==
  /\ pc = "start" /\ method = "BELLMAN"
  /\ labelled' = call.sources
  /\ todo' = call.eligible
  /\ pc' = "search"
  /\ UNCHANGED <<call, dist, pred, queue, here, pass, updates, degree, found, root, error>>

\* The arc by which a node has got its label is not used in the other direction.
Usable(d) == pred[StartNode(d)] # NoArc => d # Opposite(pred[StartNode(d)])

BellmanSkip ==
  /\ pc = "search" /\ method = "BELLMAN"
  /\ \E d \in todo : /\ StartNode(d) \notin labelled \/ ~Improves(d) \/ ~Usable(d)
                     /\ todo' = todo \ {d}
  /\ UNCHANGED <<call, pc, dist, labelled, pred, queue, here, pass, updates, degree, found,
                 root, error>>

BellmanLabel ==
  /\ pc = "search" /\ method = "BELLMAN"
  /\ \E d \in todo : /\ StartNode(d) \in labelled /\ Improves(d) /\ Usable(d)
                     /\ Label(d)
                     /\ todo' = todo \ {d}
  /\ updates' = TRUE
  /\ UNCHANGED <<call, pc, queue, here, pass, degree, found, root, error>>

\* Variant: one pass less.
LastPassEarly == N - 1

\* The last pass.
LastPass == 2 * N - 1

BellmanPass ==
  /\ pc = "search" /\ method = "BELLMAN" /\ todo = {}
  /\ updates /\ pass < LastPass
  /\ pass' = pass + 1 /\ updates' = FALSE
  /\ todo' = call.eligible
  /\ UNCHANGED <<call, pc, dist, labelled, pred, queue, here, degree, found, root, error>>

\* Whether the last pass has changed a label or not.
BellmanFails ==
  /\ pc = "search" /\ method = "BELLMAN" /\ todo = {}
  /\ pass = LastPass
  /\ Throw("negative cycle")

BellmanEnd ==
  /\ pc = "search" /\ method = "BELLMAN" /\ todo = {}
  /\ ~updates /\ pass < LastPass
  /\ Finish

-----------------------------------------------------------------------------
\* NegativeCycle: an active node is one whose label has changed since it was scanned.
FIFOStart ==
  /\ pc = "start" /\ method = "FIFO"
  /\ labelled' = call.sources /\ queue' = call.sources
  /\ here' = -1
  /\ pc' = "search"
  /\ UNCHANGED <<call, dist, pred, todo, pass, updates, degree, found, root, error>>

\* The active nodes that are still to come in this pass.
Ahead == {v \in queue : v > here}

FIFOTake ==
  /\ pc = "search" /\ method = "FIFO" /\ todo = {}
  /\ \E v \in Ahead : /\ \A w \in Ahead : v <= w
                      /\ here' = v
                      /\ queue' = queue \ {v}
                      /\ todo' = EligibleFrom(v)
  /\ UNCHANGED <<call, pc, dist, labelled, pred, pass, updates, degree, found, root, error>>

FIFOSkip ==
  /\ pc = "search" /\ method = "FIFO"
  /\ \E d \in todo : (~Improves(d) \/ ~Usable(d)) /\ todo' = todo \ {d}
  /\ UNCHANGED <<call, pc, dist, labelled, pred, queue, here, pass, updates, degree, found,
                 root, error>>

Activated(v) == queue \cup {v}

FIFOLabel ==
  /\ pc = "search" /\ method = "FIFO"
  /\ \E d \in todo : /\ Improves(d) /\ Usable(d)
                     /\ Label(d)
                     /\ queue' = Activated(EndNode(d))
                     /\ todo' = todo \ {d}
  /\ IF pass < 2 * N THEN updates' = TRUE /\ root' = root
                     ELSE root' = here /\ updates' = updates
  /\ UNCHANGED <<call, pc, here, pass, degree, found, error>>

FIFOPass ==
  /\ pc = "search" /\ method = "FIFO" /\ todo = {} /\ Ahead = {}
  /\ updates
  /\ pass' = pass + 1 /\ updates' = FALSE
  /\ here' = -1
  /\ UNCHANGED <<call, pc, dist, labelled, pred, queue, todo, degree, found, root, error>>

FIFOEnd ==
  /\ pc = "search" /\ method = "FIFO" /\ todo = {} /\ Ahead = {}
  /\ ~updates /\ root = NoNode
  /\ Finish

\* n arcs back from a node whose label depends on a cycle there is a node of the cycle.
CycleNode ==
  LET back[k \in Nat] == IF k = 0 THEN root ELSE StartNode(pred[back[k - 1]])
  IN  back[N]

FIFOFails ==
  /\ pc = "search" /\ method = "FIFO" /\ todo = {} /\ Ahead = {}
  /\ ~updates /\ root # NoNode
  /\ root' = CycleNode
  /\ error' = "negative cycle" /\ pc' = "done"
  /\ UNCHANGED <<call, dist, labelled, pred, queue, here, todo, pass, updates, degree, found>>

-----------------------------------------------------------------------------
\* DAGSearch, to find a shortest path tree.
DAGStart ==
  /\ pc = "start" /\ method = "DAG"
  /\ degree' = [v \in Nodes |-> Cardinality({d \in call.eligible : EndNode(d) = v})]
  /\ queue' = {v \in Nodes : degree'[v] = 0}
  /\ labelled' = call.sources
  /\ pass' = 0
  /\ pc' = "search"
  /\ UNCHANGED <<call, dist, pred, here, todo, updates, found, root, error>>

DAGTake ==
  /\ pc = "search" /\ method = "DAG" /\ todo = {}
  /\ \E u \in queue : queue' = queue \ {u} /\ here' = u /\ todo' = EligibleFrom(u)
  /\ pass' = pass + 1
  /\ UNCHANGED <<call, pc, dist, labelled, pred, updates, degree, found, root, error>>

DAGRead ==
  /\ pc = "search" /\ method = "DAG"
  /\ \E d \in todo :
       /\ IF here \in labelled /\ Improves(d) THEN Label(d) ELSE UNCHANGED <<dist, labelled, pred>>
       /\ degree' = [degree EXCEPT ![EndNode(d)] = @ - 1]
       /\ queue' = IF degree'[EndNode(d)] = 0 THEN queue \cup {EndNode(d)} ELSE queue
       /\ todo' = todo \ {d}
  /\ UNCHANGED <<call, pc, here, pass, updates, found, root, error>>

\* "pass" counts the nodes that have been taken.
DAGFails ==
  /\ pc = "search" /\ method = "DAG" /\ todo = {} /\ queue = {} /\ pass < N
  /\ Throw("recurrent")

DAGEnd ==
  /\ pc = "search" /\ method = "DAG" /\ todo = {} /\ queue = {} /\ pass = N
  /\ Finish

-----------------------------------------------------------------------------
Next == \/ DijkstraStart \/ DijkstraTake \/ DijkstraSkip \/ NegativeLength \/ NoSuchItem
        \/ DijkstraLabel \/ DijkstraEnd
        \/ BellmanStart \/ BellmanSkip \/ BellmanLabel \/ BellmanPass \/ BellmanFails
        \/ BellmanEnd
        \/ FIFOStart \/ FIFOTake \/ FIFOSkip \/ FIFOLabel \/ FIFOPass \/ FIFOEnd
        \/ FIFOFails
        \/ DAGStart \/ DAGTake \/ DAGRead \/ DAGFails \/ DAGEnd

Spec == Init /\ [][Next]_vars /\ WF_vars(Next)

-----------------------------------------------------------------------------
Least(S) == CHOOSE x \in S : \A y \in S : x <= y

\* The length of a shortest walk with at most k arcs from a source to v, if there is one.
ShortestWalks ==
  LET walk[k \in Nat] ==
        IF k = 0 THEN [v \in Nodes |-> IF v \in call.sources THEN {0} ELSE {}]
        ELSE LET w == walk[k - 1]
                 all(v) == w[v] \cup UNION {{x + len[d] : x \in w[StartNode(d)]} :
                                              d \in {e \in call.eligible : EndNode(e) = v}}
             IN  [v \in Nodes |-> IF all(v) = {} THEN {} ELSE {Least(all(v))}]
  IN  [k \in {N - 1, N} |-> walk[k]]

\* A walk that gets shorter in the n-th step has passed a cycle of negative length.
HasNegativeCycle == ShortestWalks[N] # ShortestWalks[N - 1]

HasCycle ==
  LET after[k \in Nat] == IF k = 0 THEN Nodes
                          ELSE {EndNode(d) : d \in {e \in call.eligible : StartNode(e) \in after[k - 1]}}
  IN  after[N] # {}

\* The predecessor of v on its path, v itself where the path starts.
Before(p, v) == IF p[v] = NoArc THEN v ELSE StartNode(p[v])

\* Every search that ends well has found the distances: of all the nodes, or of the target
\* that it has met, which is a nearest one; the predecessor arcs give paths of that length.
LabelsAreDistances ==
  pc = "done" /\ error = "none" =>
    LET distance == ShortestWalks[N - 1]
        exact == IF found = NoNode THEN Nodes ELSE {found}
        back[k \in Nat] == IF k = 0 THEN exact ELSE {Before(pred, v) : v \in back[k - 1]}
    IN  /\ \A v \in exact : distance[v] = IF v \in labelled THEN {dist[v]} ELSE {}
        /\ method = "DIJKSTRA" =>
             \A t \in call.targets : \A x \in distance[t] : found # NoNode /\ dist[found] <= x
        /\ \A v \in exact \cap labelled : pred[v] # NoArc => dist[v] = Offer(pred[v])
        /\ \A v \in back[N] \cap labelled : v \in call.sources /\ dist[v] = 0

\* The label correcting methods fail if and only if there is a cycle of negative length, and
\* the node that is reported is on one, along the predecessor arcs; the search of a graph in
\* topological order fails if and only if there is a cycle.
CyclesAreFound ==
  pc = "done" =>
    /\ method \in {"BELLMAN", "FIFO"} => (error = "negative cycle") = HasNegativeCycle
    /\ method = "DAG" => (error = "recurrent") = HasCycle
    /\ root # NoNode =>
         LET back[k \in Nat] ==
               IF k = 0 THEN <<root, 0>>
               ELSE LET b == back[k - 1]
                        d == pred[b[1]]
                    IN  IF k > 1 /\ b[1] = root THEN b ELSE <<StartNode(d), b[2] + len[d]>>
         IN  back[N][1] = root /\ back[N][2] < 0

\* A search ends with the distances, or with a negative cycle if and only if there is one.
ResultIsExact == LabelsAreDistances /\ CyclesAreFound

\* Lower bounds for the distances.
Feasible(c, pi) ==
  /\ \A v \in c.sources : pi[v] <= 0
  /\ \A d \in c.eligible : pi[EndNode(d)] <= pi[StartNode(d)] + c.len[d]

FeasiblePotentials ==
  [c \in Calls |-> {pi \in [Nodes -> Potentials] : Feasible(c, pi)}]

\* However the arcs are scanned, no label ever gets below a lower bound of the distance: a
\* label that is wrong for the moment is too large.
NoLabelIsTooShort ==
  \A pi \in FeasiblePotentials[call] : \A v \in labelled : pi[v] <= dist[v]

\* With lengths that are not negative, the label of a node that has left the heap is final:
\* no arc that has been read offers a shorter way, no arc that will be read concerns it, and
\* no heap operation refers to it.
SettledIsFinal ==
  method = "DIJKSTRA" /\ pc # "start" /\ (\A d \in call.eligible : len[d] >= 0) =>
    /\ error = "none"
    /\ \A d \in call.eligible \ todo :
         StartNode(d) \in Settled \ {found} =>
           EndNode(d) \in labelled /\ dist[EndNode(d)] <= Offer(d)
    /\ \A d \in todo : EndNode(d) \in Settled => ~Improves(d)
    /\ \A v \in Settled, w \in queue : dist[v] <= dist[w]

\* Every search ends, also if there are cycles of negative length.
SearchEnds == <>(pc = "done")

\* Lengths that are below zero by no more than the tolerance do no harm.
ToleranceHolds ==
  method = "DIJKSTRA" /\ (\A d \in call.eligible : len[d] >= -Epsilon) => error = "none"
=============================================================================
