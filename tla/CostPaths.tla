------------------------------ MODULE CostPaths ------------------------------
(***************************************************************************)
(* What the minimum cost flow methods of lib_src/solveMCFlow.cpp share: a  *)
(* network with arc lengths and node demands, the flow and divergences     *)
(* which the maximum flow methods have, too, node potentials, and labels   *)
(* and predecessor arcs of the last search.                                *)
(*                                                                         *)
(* Then the methods that augment along paths and cycles: MCF_BusackerGowen *)
(* and MCF_EdmondsKarp, which increase a flow between two nodes,           *)
(* MCF_CapacityScaling, which also does without scaling, and the           *)
(* cancelling of negative cycles and of cycles with minimum mean length.   *)
(*                                                                         *)
(* Lengths are multiplied by a number that all the fractions divide which  *)
(* the scaling methods work with.                                          *)
(***************************************************************************)
EXTENDS MaxFlow

CONSTANTS Tasks,       \* the calls to try: records with capacities, length and demand of
                       \* the network, flow, potentials and labels before the call, method
          Orders,      \* orders of the incidence lists: sequences of all darts
          InfFloat,    \* more than any length or weight
          Absent,      \* registers that have not been allocated
          Stoppable    \* the methods that users may stop

ASSUME InfFloatType == InfFloat \in Nat \ {0}

ASSUME TasksType ==
  Tasks \subseteq [ucap : [Arcs -> Nat], lcap : [Arcs -> Nat], flow : [Arcs -> Nat],
                   len : [Arcs -> Int], dem : [Nodes -> Int], pi : [Nodes -> Int],
                   label : {Absent} \cup [Nodes -> Int],
                   method : {"EDMONDS_KARP", "BUSACKER_GOWEN", "CAPA", "SAP", "CYCLE", "MEAN",
                             "COST", "TIGHT", "SIMPLEX", "PHASE1", "BFLOW"}]

VARIABLES task,           \* the call; of a maximum flow, when there is none
          stage,          \* where the solver is
          running,        \* CT.SolverRunning()
          pi,             \* potentials
          label, pred,    \* distance labels and predecessor arcs of the last search
          low, high,      \* bounds of the module guard
          ret             \* the weight that is returned

cost == <<task, stage, running, pi, label, pred, low, high, ret>>

len == task.len

dem == task.dem

Weight(f) == Sum([a \in Arcs |-> f[a] * len[a]], Arcs)

Deficiency(v) == dem[v] - div[v]

RedLength(p, d) == (IF d[2] = 0 THEN len[d[1]] ELSE -len[d[1]]) + p[StartNode(d)] - p[EndNode(d)]

Reduced(p) == [d \in Darts |-> RedLength(p, d)]

NoPotentials == [v \in Nodes |-> 0]

\* residualArcs.
Residual(x) == {d \in Darts : ResCap(d) > x}

\* Compatible(): complementary slackness.
Compatible(p) == \A d \in Residual(0) : RedLength(p, d) >= 0

\* MCF_DualObjective().
DualObjective(p) ==
  LET gain(a) == LET x == RedLength(p, <<a, 0>>) IN IF x > 0 THEN lcap[a] * x ELSE ucap[a] * x
  IN  Sum([v \in Nodes |-> dem[v] * p[v]], Nodes) + Sum([a \in Arcs |-> gain(a)], Arcs)

\* UpdatePotentials().
Updated(p, d, cut) == [v \in Nodes |-> p[v] + Least(d[v], cut)]

Greatest(x, y) == IF x > y THEN x ELSE y

\* SetBounds(): bounds only get better; to cross them is an error.
SetBounds(x, y) == /\ low' = Greatest(low, x) /\ high' = Least(high, y)
                   /\ failed' = (failed \/ x > high \/ y < low)

SetLowerBound(x) == SetBounds(x, high)

SetUpperBound(x) == SetBounds(low, x)

ListOf(order, v) == SelectSeq(order, LAMBDA d : StartNode(d) = v)

\* The arcs from x to y along the predecessor arcs; a cycle if x = y.
Trail(p, x, y) ==
  LET back[v \in Nodes, k \in 0 .. N] ==
        LET d == p[v]
        IN  IF k = 0 \/ StartNode(d) = x THEN <<d>> ELSE Append(back[StartNode(d), k - 1], d)
  IN  back[y, N]

\* Push the amount x along the darts of p, which may be a path or a cycle.
PushOn(p, x) == /\ flow' = Augmented(p, x)
                /\ div' = Divergence(flow')

\* The end of a call in which no flow meets the demands.
Infeasible == /\ SetBounds(InfFloat, InfFloat) /\ ret' = InfFloat
              /\ stage' = "verify"
-----------------------------------------------------------------------------
\* NegativeCycle() by arcs in A of length l: all nodes are scanned in up to 2n passes.
\* In a pass, the darts of an active node are read in the given order.
NegativeCycle(l, A, order) ==
  LET read(x, d) ==
        LET v == StartNode(d)
            w == EndNode(d)
            offer == x.label[v] + l[d]
        IN  IF d \in A /\ offer < x.label[w] /\ x.pred[v] # Opposite(d)
            THEN [x EXCEPT !.label[w] = offer, !.pred[w] = d, !.active = @ \cup {w},
                           !.updates = @ \/ x.pass < 2 * N,
                           !.root = IF x.pass < 2 * N THEN @ ELSE v]
            ELSE x
      scan(x, v) ==
        IF v \in x.active
        THEN FoldLeft(read, [x EXCEPT !.active = @ \ {v}], ListOf(order, v)) ELSE x
      sweep(x) == FoldLeft(scan, [x EXCEPT !.pass = @ + 1, !.updates = FALSE],
                           [i \in 1 .. N |-> i - 1])
      run[k \in 0 .. 2 * N] ==
        IF k = 0 THEN [label |-> NoPotentials, pred |-> [v \in Nodes |-> NoArc], active |-> Nodes,
                       pass |-> 0, updates |-> TRUE, root |-> NoNode]
        ELSE LET x == run[k - 1] IN IF x.updates THEN sweep(x) ELSE x
      end == run[2 * N]
      back[k \in Nat] == IF k = 0 THEN end.root ELSE StartNode(end.pred[back[k - 1]])
  IN  [label |-> end.label, pred |-> end.pred,
       root |-> IF end.root = NoNode THEN NoNode ELSE back[N]]

\* The lengths of shortest paths from the nodes in S by arcs in A of length l, none of them
\* on a negative cycle.
Distances(l, A, S) ==
  LET after[k \in 0 .. N] ==
        IF k = 0 THEN [v \in Nodes |-> IF v \in S THEN 0 ELSE InfFloat]
        ELSE LET before == after[k - 1]
             IN  [v \in Nodes |->
                    Min({before[v]} \cup {before[StartNode(d)] + l[d] :
                           d \in {e \in A : EndNode(e) = v /\ before[StartNode(e)] # InfFloat}})]
  IN  after[N]

\* The paths to the node w that a search may have found, when it has given the labels d.
ShortestTo(w, d, l, A, S) ==
  LET tight == {e \in A : d[StartNode(e)] # InfFloat /\ d[EndNode(e)] = d[StartNode(e)] + l[e]}
      to[x \in Nodes \X SUBSET Nodes] ==
        IF x[1] \in S THEN {<<>>}
        ELSE LET Y == x[2] \cup {x[1]}
             IN  UNION {{Append(p, e) : p \in to[<<StartNode(e), Y>>]} :
                          e \in {f \in tight : EndNode(f) = x[1] /\ StartNode(f) \notin Y}}
  IN  to[<<w, {}>>]
-----------------------------------------------------------------------------
VARIABLES rest,       \* delta of an st-flow, defPlus: what remains to be sent
          limit       \* delta of capacity scaling: smaller amounts do not count

sending == <<rest, limit>>

Between == {"EDMONDS_KARP", "BUSACKER_GOWEN"}     \* MCF_ST_DIJKSTRA, MCF_ST_SAP

Scaled == {"CAPA", "SAP"}                         \* MCF_CapacityScaling(true), (false)

Cancelling == {"CYCLE", "MEAN"}

-----------------------------------------------------------------------------
\* The potentials are tested; if they do not fit, they are set to distances from s.
StartBetween ==
  /\ stage = "start" /\ task.method \in Between
  /\ rest' = Deficiency(t)
  /\ LET l == Reduced(pi)
         A == Residual(0)
         d == Distances(l, A, {s})
     IN  IF task.method = "BUSACKER_GOWEN" \/ Compatible(pi)
         THEN stage' = "path" /\ pi' = pi
         ELSE IF \E e \in A : d[StartNode(e)] # InfFloat /\ d[EndNode(e)] > d[StartNode(e)] + l[e]
         THEN stage' = "rejected" /\ pi' = pi
         ELSE stage' = "path" /\ pi' = d
  /\ UNCHANGED <<network, task, running, label, pred, low, high, ret, limit>>

\* Variant: the labels of all nodes are added, those beyond the target, too.
UpdatedUncut(p, d, x) == Updated(p, d, InfFloat)

UpdatedTo(p, d, x) == Updated(p, d, x)

\* Both methods send as much as they can along a shortest path; that of Edmonds and Karp
\* keeps the reduced lengths from getting negative.
AugmentBetween ==
  /\ stage = "path" /\ task.method \in Between /\ rest > 0
  /\ LET d == Distances(Reduced(pi), Residual(0), {s})
     IN  /\ d[t] # InfFloat
         /\ \E p \in ShortestTo(t, d, Reduced(pi), Residual(0), {s}) :
              LET x == Least(rest, FindCap(p))
              IN  PushOn(p, x) /\ rest' = rest - x
         /\ IF task.method = "EDMONDS_KARP"
            THEN SetLowerBound(DualObjective(pi)) /\ pi' = UpdatedTo(pi, d, d[t])
            ELSE UNCHANGED <<low, high, failed, pi>>
  /\ UNCHANGED <<ucap, lcap, dist, method, pc, lower, upper>>
  /\ UNCHANGED <<task, stage, running, label, pred, ret, limit>>

NoPathBetween ==
  /\ stage = "path" /\ task.method \in Between /\ rest > 0
  /\ Distances(Reduced(pi), Residual(0), {s})[t] = InfFloat
  /\ Infeasible
  /\ UNCHANGED <<ucap, lcap, flow, div, dist, method, pc, lower, upper>>
  /\ UNCHANGED <<task, running, pi, label, pred, sending>>

\* Busacker and Gowen's method computes potentials only now.
FinishBetween ==
  /\ stage = "path" /\ task.method \in Between /\ rest <= 0
  /\ pi' = IF task.method = "EDMONDS_KARP" THEN pi
           ELSE Distances(Reduced(NoPotentials), Residual(0), Nodes)
  /\ SetBounds(DualObjective(pi'), Weight(flow)) /\ ret' = Weight(flow)
  /\ stage' = "verify"
  /\ UNCHANGED <<ucap, lcap, flow, div, dist, method, pc, lower, upper>>
  /\ UNCHANGED <<task, running, label, pred, sending>>

-----------------------------------------------------------------------------
StartScaled ==
  /\ stage = "start" /\ task.method \in Scaled
  /\ rest' = Sum([v \in Nodes |-> Greatest(Deficiency(v), 0)], Nodes)
  /\ LET capacity == Max({0} \cup {ucap[a] : a \in Arcs})
     IN  limit' = IF task.method = "CAPA" /\ capacity > 0 THEN capacity - 1 ELSE 0
  /\ stage' = "saturate"
  /\ UNCHANGED <<network, task, running, pi, label, pred, low, high, ret>>

Saturable == Residual(limit)

\* A phase begins: arcs of negative reduced length are saturated.  Those that are not part
\* of this phase are left.
SaturatePhase ==
  /\ stage = "saturate" /\ running
  /\ LET full == {d \in Saturable : RedLength(pi, d) < 0}
     IN  flow' = [a \in Arcs |-> IF <<a, 0>> \in full THEN ucap[a]
                                 ELSE IF <<a, 1>> \in full THEN lcap[a] ELSE flow[a]]
  /\ div' = Divergence(flow')
  /\ stage' = "path"
  /\ UNCHANGED <<ucap, lcap, dist, method, pc, lower, upper, failed>>
  /\ UNCHANGED <<task, running, pi, label, pred, low, high, ret, sending>>

\* supersaturatedNodes, deficientNodes.
Supersaturated == {v \in Nodes : -Deficiency(v) > limit}

Deficient == {v \in Nodes : Deficiency(v) > limit}

PhaseDistances == Distances(Reduced(pi), Residual(limit), Supersaturated)

Searching == task.method = "CAPA" \/ rest > 0

\* The path is followed back to the first node with an excess, however small.
FromExcess(p) ==
  LET k == Max({i \in DOMAIN p : Deficiency(StartNode(p[i])) < 0})
  IN  SubSeq(p, k, Len(p))

\* One iteration, towards a nearest deficient node.
AugmentPhase ==
  /\ stage = "path" /\ task.method \in Scaled /\ running /\ Searching
  /\ SetLowerBound(DualObjective(pi))
  /\ LET d == PhaseDistances
     IN  \E w \in Deficient :
           /\ d[w] # InfFloat /\ \A v \in Deficient : d[w] <= d[v]
           /\ \E q \in ShortestTo(w, d, Reduced(pi), Residual(limit), Supersaturated) :
                LET p == FromExcess(q)
                    x == Min({FindCap(p), Deficiency(w), -Deficiency(StartNode(Head(p)))})
                IN  /\ PushOn(p, x)
                    /\ rest' = IF task.method = "SAP" THEN rest - x ELSE rest
           /\ pi' = UpdatedTo(pi, d, d[w])
  /\ UNCHANGED <<ucap, lcap, dist, method, pc, lower, upper>>
  /\ UNCHANGED <<task, stage, running, label, pred, ret, limit>>

\* Variant: rounded up.
HalvedUp(x) == (x + 1) \div 2

Halved(x) == x \div 2

\* There is no path any more, or nothing to be sent, or the solver has been stopped.
EndPathPhase ==
  /\ stage = "path" /\ task.method \in Scaled
  /\ running /\ Searching => \A w \in Deficient : PhaseDistances[w] = InfFloat
  /\ IF running /\ Searching THEN SetLowerBound(DualObjective(pi))
     ELSE UNCHANGED <<low, high, failed>>
  /\ limit' = Halved(limit)
  /\ stage' = IF limit = 0 THEN "balance" ELSE "saturate"
  /\ UNCHANGED <<ucap, lcap, flow, div, dist, method, pc, lower, upper>>
  /\ UNCHANGED <<task, running, pi, label, pred, ret, rest>>

EndScaled ==
  /\ stage = "balance" \/ (stage = "saturate" /\ ~running)
  /\ IF \E v \in Nodes : Deficiency(v) # 0 THEN Infeasible
     ELSE /\ SetBounds(DualObjective(pi), Weight(flow)) /\ ret' = Weight(flow)
          /\ stage' = "verify"
  /\ UNCHANGED <<ucap, lcap, flow, div, dist, method, pc, lower, upper>>
  /\ UNCHANGED <<task, running, pi, label, pred, sending>>

-----------------------------------------------------------------------------
StartCancelling ==
  /\ stage = "start" /\ task.method \in Cancelling
  /\ SetLowerBound(DualObjective(pi))
  /\ pi' = IF task.method = "CYCLE" THEN NoPotentials ELSE pi
  /\ stage' = "cancel"
  /\ UNCHANGED <<ucap, lcap, flow, div, dist, method, pc, lower, upper>>
  /\ UNCHANGED <<task, running, label, pred, ret, sending>>

\* MinimumMeanCycle(): Karp's method by arcs in A.  "walks" holds the lengths of the shortest
\* walks with 0, 1, ... arcs to each node, and their last arcs.
MinimumMeanCycle(A, order) ==
  LET none == [v \in Nodes |-> NoArc]
      extend(w, x, d) ==
        LET offer == w.label[StartNode(d)] + RedLength(NoPotentials, d)
        IN  IF d \in A /\ w.label[StartNode(d)] # InfFloat /\ offer < x.label[EndNode(d)]
            THEN [x EXCEPT !.label[EndNode(d)] = offer, !.pred[EndNode(d)] = d] ELSE x
      extended(w) == FoldLeft(LAMBDA x, d : extend(w, x, d),
                              [label |-> [v \in Nodes |-> InfFloat], pred |-> none], order)
      walks[k \in 0 .. N] ==
        IF k = 0 THEN << [label |-> NoPotentials, pred |-> none] >>
        ELSE LET q == walks[k - 1] IN Append(q, extended(Last(q)))
      walk == walks[N]
      long == Last(walk).label
      mean(v) == Max({(long[v] - walk[k + 1].label[v]) \div (N - k) :
                        k \in {j \in 0 .. N - 1 : walk[j + 1].label[v] # InfFloat}})
      ends == {v \in Nodes : long[v] # InfFloat}
      least == Min({mean(v) : v \in ends})
      \* the arcs back from the end of the walk, until a node is met again
      export[k \in 0 .. N] ==
        IF k = 0 THEN [root |-> Min({v \in ends : mean(v) = least}), pred |-> none]
        ELSE LET x == export[k - 1]
                 d == walk[N - k + 2].pred[x.root]
             IN  IF x.pred[x.root] # NoArc THEN x
                 ELSE [root |-> StartNode(d), pred |-> [x.pred EXCEPT ![x.root] = d]]
  IN  IF ends = {} THEN [root |-> NoNode, pred |-> none, mean |-> InfFloat]
      ELSE export[N] @@ [mean |-> least]

\* The cycle that is cancelled, if there is one, with the labels that are left.
FoundCycle(order) ==
  IF task.method = "CYCLE" THEN NegativeCycle(Reduced(pi), Residual(0), order)
  ELSE LET c == MinimumMeanCycle(Residual(0), order)
       IN  [root |-> IF c.mean >= 0 THEN NoNode ELSE c.root, pred |-> c.pred, label |-> label]

\* As much flow as possible is sent along the cycle.
CancelCycle ==
  /\ stage = "cancel" /\ running
  /\ SetUpperBound(Weight(flow))
  /\ \E order \in Orders : \E c \in {FoundCycle(order)} :
       /\ c.root # NoNode
       /\ \E p \in {Trail(c.pred, c.root, c.root)} : PushOn(p, FindCap(p))
       /\ label' = c.label
  /\ pi' = NoPotentials
  /\ UNCHANGED <<ucap, lcap, dist, method, pc, lower, upper>>
  /\ UNCHANGED <<task, stage, running, pred, ret, sending>>

\* No cycle of negative length is left.
NoCycle ==
  /\ stage = "cancel" /\ running
  /\ SetUpperBound(Weight(flow))
  /\ \E order \in Orders : \E c \in {FoundCycle(order)} : c.root = NoNode /\ label' = c.label
  /\ pi' = NoPotentials
  /\ stage' = IF task.method = "CYCLE" THEN "cancelled" ELSE "labels"
  /\ UNCHANGED <<ucap, lcap, flow, div, dist, method, pc, lower, upper>>
  /\ UNCHANGED <<task, running, pred, ret, sending>>

\* Karp's method leaves no labels.
FindLabels ==
  /\ stage = "labels" /\ running
  /\ \E order \in Orders : label' = NegativeCycle(Reduced(pi), Residual(0), order).label
  /\ stage' = "cancelled"
  /\ UNCHANGED <<network, task, running, pi, pred, low, high, ret, sending>>

StopCancelling ==
  /\ stage \in {"cancel", "labels"} /\ ~running
  /\ stage' = "cancelled"
  /\ UNCHANGED <<network, task, running, pi, label, pred, low, high, ret, sending>>

\* The labels that are there give the potentials; without any, an exception is thrown.
EndCancelling ==
  /\ stage = "cancelled"
  /\ IF label = Absent
     THEN failed' = TRUE /\ stage' = "rejected" /\ UNCHANGED <<pi, low, high, ret>>
     ELSE /\ pi' = Updated(pi, label, 0)
          /\ SetLowerBound(DualObjective(pi'))
          /\ ret' = Weight(flow) /\ stage' = "verify"
  /\ UNCHANGED <<ucap, lcap, flow, div, dist, method, pc, lower, upper>>
  /\ UNCHANGED <<task, running, label, pred, sending>>

PathStep == \/ StartBetween \/ AugmentBetween \/ NoPathBetween \/ FinishBetween
            \/ StartScaled \/ SaturatePhase \/ AugmentPhase \/ EndPathPhase \/ EndScaled
            \/ StartCancelling \/ CancelCycle \/ NoCycle \/ FindLabels \/ StopCancelling \/ EndCancelling
=============================================================================
