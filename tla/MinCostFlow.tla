----------------------------- MODULE MinCostFlow -----------------------------
(***************************************************************************)
(* MinCostSTFlow and MinCostBFlow (lib_src/solveMCFlow.cpp): the minimum   *)
(* cost flow methods behind their two interfaces, the maximum flow that    *)
(* may come first, the search of an admissible b-flow, the stop of the     *)
(* user, and the check of the result.                                      *)
(*                                                                         *)
(* The lines of maximum flows go on by themselves if there is no task.     *)
(***************************************************************************)
EXTENDS NetworkSimplex

flowVars == <<vars, cost, sending, scaling, simplex>>

NoTask == [method |-> "none"]

\* Before a call.  The admissible b-flow and the maximum flow come first where they are needed.
CostInit ==
  /\ task \in Tasks
  /\ ucap = task.ucap /\ lcap = task.lcap /\ flow = task.flow /\ Legal
  /\ div = Divergence(flow)
  /\ dist = [v \in Nodes |-> NoNode] /\ method = "FIFO" /\ failed = FALSE
  /\ pc = IF task.method = "BFLOW" THEN "start" ELSE "off"
  /\ lower = 0 /\ upper = Sum(ucap, Arcs)
  /\ Q = {} /\ admissible = [v \in Nodes |-> {}] /\ u = s /\ canRelabel = FALSE
  /\ delta = 0 /\ todo = {} /\ val = 0 /\ scale = 0 /\ aux = <<>>
  /\ stage = CASE task.method = "BFLOW" -> "maxflow"
               [] task.method \in Between \cup Scaled -> "start"
               [] OTHER -> "phase1"
  /\ pi = task.pi /\ label = task.label

MaxFlowInit == Init /\ task = NoTask /\ stage = "none" /\ pi = NoPotentials /\ label = Absent

FlowInit ==
  /\ CostInit \/ MaxFlowInit
  /\ running = TRUE /\ pred = NoArcs(Nodes) /\ low = -InfFloat /\ high = InfFloat /\ ret = InfFloat
  /\ rest = 0 /\ limit = 0
  /\ epsilon = 0 /\ Active = {} /\ Admissible = <<>>
  /\ root = 0 /\ at = 0 /\ next = <<>> /\ queue = <<>> /\ edgeCount = 0 /\ inArc = NoArcs(Ids)
  /\ outer = <<>> /\ nCycles = 0 /\ thread = <<>> /\ depth = <<>>

-----------------------------------------------------------------------------
\* MCF_ST_BFLOW: a maximum flow is computed, before the default method solves the problem.
SwitchToBFlow ==
  /\ stage = "maxflow" /\ pc = "done"
  /\ pc' = "off" /\ stage' = "phase1"
  /\ task' = [task EXCEPT !.method = "SIMPLEX"]
  /\ UNCHANGED <<ucap, lcap, flow, div, dist, method, lower, upper, failed, local, paths>>
  /\ UNCHANGED <<running, pi, label, pred, low, high, ret, sending, scaling, simplex>>

\* The flows within given capacities.
LegalFlows(hi, lo) ==
  {f \in [Arcs -> 0 .. Max({hi[a] : a \in Arcs})] : \A a \in Arcs : lo[a] <= f[a] /\ f[a] <= hi[a]}

\* All of them, with their divergences.
Candidates ==
  UNION {{[ucap |-> b[1], lcap |-> b[2], flow |-> f, div |-> Divergence(f)] : f \in LegalFlows(b[1], b[2])} :
           b \in {<<c.ucap, c.lcap>> : c \in Tasks}}

LegalNow == {r \in Candidates : r.ucap = ucap /\ r.lcap = lcap}

\* What the nodes lack.
Shortage(d) == MapThenSumSet(LAMBDA v : Greatest(dem[v] - d[v], 0), Nodes)

\* digraphToDigraph::Perfect().
Perfect(d) == Shortage(d) = 0

\* AdmissibleBFlow(): a maximum flow from the nodes with too much to those with too little.
AdmissibleBFlow ==
  /\ stage = "phase1"
  /\ \E least \in {Min({Shortage(r.div) : r \in LegalNow})} :
       \E r \in LegalNow : Shortage(r.div) = least /\ flow' = r.flow /\ div' = r.div
  /\ IF ~Perfect(div')
     THEN SetBounds(InfFloat, InfFloat) /\ stage' = "done"
     ELSE /\ UNCHANGED <<low, high, failed>>
          /\ stage' = IF task.method = "PHASE1" THEN "verify" ELSE "start"
  /\ UNCHANGED <<ucap, lcap, dist, method, pc, lower, upper>>
  /\ UNCHANGED <<task, running, pi, label, pred, ret, sending, scaling, simplex>>

\* The user stops the solver: the methods that look at this do so before each step.
Stop ==
  /\ running /\ task.method \in Stoppable
  /\ stage \in {"cancel", "labels", "measure", "pivot"}
  /\ running' = FALSE
  /\ UNCHANGED <<network, task, stage, pi, label, pred, low, high, ret, sending, scaling, simplex>>

\* The optional check of the result.  Only b-flow methods may have been stopped.
CheckCost ==
  /\ stage = "verify"
  /\ failed' = (failed \/ (running /\ ~Compatible(pi))
                       \/ (task.method \notin Between /\ \E v \in Nodes : Deficiency(v) # 0))
  /\ stage' = "done"
  /\ UNCHANGED <<ucap, lcap, flow, div, dist, method, pc, lower, upper>>
  /\ UNCHANGED <<task, running, pi, label, pred, low, high, ret, sending, scaling, simplex>>

CostNext ==
  /\ \/ SwitchToBFlow \/ AdmissibleBFlow \/ Stop \/ CheckCost
     \/ PathStep /\ UNCHANGED <<scaling, simplex>>
     \/ ScalingStep /\ UNCHANGED simplex
     \/ SimplexStep
  /\ UNCHANGED <<local, paths>>

MaxFlowNext == Next /\ UNCHANGED <<cost, sending, scaling, simplex>>

\* The call returns.
Over == \/ stage = "none" /\ pc \in {"done", "stopped"}
        \/ stage \in {"done", "rejected"}

FlowNext == MaxFlowNext \/ CostNext \/ (Over /\ UNCHANGED flowVars)

\* A solver that has not come to its end takes another step.  For the minimum cost flow
\* methods, "enabled" is spelt out: until the end, a step is always possible, and each step
\* changes something.
FlowFairness ==
  /\ WF_flowVars(MaxFlowNext \/ SwitchToBFlow)
  /\ []<>(stage \in {"none", "maxflow", "done", "rejected"}) \/ []<><<CostNext>>_flowVars

FlowSpec == FlowInit /\ [][FlowNext]_flowVars /\ FlowFairness

-----------------------------------------------------------------------------
\* The least weight of a flow that meets the demands, for each network with its demands.
Problem(c) == [ucap |-> c.ucap, lcap |-> c.lcap, len |-> c.len, dem |-> c.dem]

WeightOf(c, f) == Sum([a \in Arcs |-> f[a] * c.len[a]], Arcs)

LeastWeights ==
  {[problem |-> c,
    weight |-> Min({InfFloat} \cup {WeightOf(c, r.flow) :
                      r \in {x \in Candidates : x.ucap = c.ucap /\ x.lcap = c.lcap /\ x.div = c.dem}})] :
     c \in {Problem(x) : x \in Tasks}}

CostOptimum == (CHOOSE r \in LeastWeights : r.problem = Problem(task)).weight

\* Every method ends with a flow that meets the demands, and, unless it is stopped, with the
\* cheapest one: the potentials that are returned prove this, both bounds are the weight, and
\* the check of the result finds nothing.  It tells that there is no such flow if and only
\* if there is none.  Edmonds and Karp's method rejects a flow which itself can get cheaper.
FlowIsCheapest ==
  /\ stage = "done" /\ CostOptimum = InfFloat => ret = InfFloat /\ low = InfFloat /\ high = InfFloat
  /\ stage = "done" /\ CostOptimum # InfFloat =>
       /\ Legal /\ div = dem /\ div = Divergence(flow)
       /\ task.method # "PHASE1" =>
            /\ ~failed /\ ret = Weight(flow)
            /\ running => ret = CostOptimum /\ Compatible(pi) /\ low = ret /\ high = ret
  /\ stage = "rejected" =>
       /\ ~failed /\ task.method = "EDMONDS_KARP"
       /\ \E r \in LegalNow : r.div = div /\ Weight(r.flow) < Weight(flow)

\* The bounds that the module guards publish enclose the optimum all the time.
ValuesAreEnclosed == /\ stage \in {"none", "maxflow"} => ValueIsEnclosed
                     /\ stage # "none" => low <= CostOptimum /\ CostOptimum <= high

-----------------------------------------------------------------------------
\* The paths that Busacker and Gowen's method takes leave no cycle of negative length.
NoNegativeCycle ==
  LET d == Distances(Reduced(NoPotentials), Residual(0), Nodes)
  IN  \A e \in Residual(0) : d[EndNode(e)] <= d[StartNode(e)] + RedLength(NoPotentials, e)

\* The free arcs are part of no cycle, in either direction.
FreeArcsAreForest ==
  LET free == {a \in Arcs : IsFree(<<a, 0>>)}
      near(S) == S \cup {EndNode(d) : d \in {e \in free \X {0, 1} : StartNode(e) \in S}}
      comp[S \in SUBSET Nodes] == IF near(S) = S THEN S ELSE comp[near(S)]
  IN  Cardinality(free) + Cardinality({comp[{v}] : v \in Nodes}) = N

\* From every node of the tree, flow can be sent to the root, so that no sequence of pivots
\* without any progress comes back to the same tree; all tree arcs have reduced length zero,
\* and all other arcs are at a capacity bound; the thread lists the trees in preorder, and
\* the depths are right.
BasisIsStrong ==
  LET parent(v) == StartNode(pred[v])
      listed[v \in Nodes] == IF thread[v] = NoNode THEN <<v>> ELSE <<v>> \o listed[thread[v]]
      above[v \in Nodes] == IF depth[v] = 0 THEN {v} ELSE {v} \cup above[parent(v)]
      top[v \in Nodes] == IF depth[v] = 0 THEN v ELSE top[parent(v)]
  IN  /\ \A v \in Nodes : pred[v] # NoArc =>
           /\ EndNode(pred[v]) = v /\ ResCap(Opposite(pred[v])) > 0 /\ RedLength(pi, pred[v]) = 0
           /\ depth[v] = depth[parent(v)] + 1
      /\ \A v \in Nodes : depth[v] = 0 <=> pred[v] = NoArc
      /\ \A d \in Darts : IsFree(d) => pred[EndNode(d)] = d \/ pred[StartNode(d)] = Opposite(d)
      /\ \A v \in Nodes : thread[v] # NoNode => parent(thread[v]) \in above[v]
      /\ \A v \in Nodes : depth[v] = 0 => ToSet(listed[v]) = {w \in Nodes : top[w] = v}

\* What each method keeps true about potentials and flow while it runs: reduced lengths of
\* arcs that count in this phase are not negative, or not more than half of epsilon; the
\* arcs of an active node that can be used are listed; the basis of the simplex method is a
\* strongly feasible tree with its potentials and its thread.
SlacknessIsKept ==
  /\ stage = "path" /\ task.method = "EDMONDS_KARP" => Compatible(pi)
  /\ stage = "path" /\ task.method = "BUSACKER_GOWEN" => NoNegativeCycle
  /\ stage = "path" /\ task.method \in Scaled => \A d \in Residual(limit) : RedLength(pi, d) >= 0
  /\ stage = "discharge" =>
       /\ \A d \in Residual(0) : RedLength(pi, d) >= -(epsilon \div 2)
       /\ \A v \in Active : {d \in Negative(flow, pi) : StartNode(d) = v} \subseteq ToSet(Admissible[v])
  /\ stage = "shrink" => FreeArcsAreForest
  /\ stage = "pivot" => BasisIsStrong

\* Every method ends, whether it is stopped or not.
SolversEnd == <>Over
=============================================================================
