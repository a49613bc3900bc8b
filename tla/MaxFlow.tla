------------------------------- MODULE MaxFlow -------------------------------
(***************************************************************************)
(* abstractMixedGraph::MaxFlow (lib_src/solveMaxFlow.cpp): the methods of  *)
(* PushRelabel and AugmentingPaths behind one interface, and the check of  *)
(* the result.                                                             *)
(***************************************************************************)
EXTENDS PushRelabel, AugmentingPaths

CONSTANTS Caps,       \* the upper capacity bounds to choose from, for every arc
          LowCaps,    \* the lower capacity bounds
          Methods     \* the methods to try

ASSUME CapsType == /\ Caps \in [Arcs -> SUBSET Nat] /\ LowCaps \subseteq Nat
                   /\ \A a \in Arcs : IsFiniteSet(Caps[a])
ASSUME MethodsType == Methods \subseteq Preflows \cup Augmentations

vars == <<network, local, paths>>

Sum(f, S) == MapThenSumSet(LAMBDA a : f[a], S)

Divergence(f) ==
  [v \in Nodes |-> Sum(f, {a \in Arcs : To[a] = v}) - Sum(f, {a \in Arcs : From[a] = v})]

\* CutCapacity(): of the arcs between the nodes in S and the others.
CutCapacity(hi, lo, S) == Sum(hi, {a \in Arcs : From[a] \in S /\ To[a] \notin S})
                            - Sum(lo, {a \in Arcs : From[a] \notin S /\ To[a] \in S})

AllCaps == UNION {Caps[a] : a \in Arcs}

\* What an arc may carry.
Amounts == 0 .. Max(AllCaps)

UpperBounds == {c \in [Arcs -> AllCaps] : \A a \in Arcs : c[a] \in Caps[a]}

\* What the methods compute: the capacity of a minimum cut.
MinCutCapacity ==
  [c \in UpperBounds \X [Arcs -> LowCaps] |->
     Min({CutCapacity(c[1], c[2], S \cup {s}) : S \in SUBSET (Nodes \ {s, t})})]

Optimum == MinCutCapacity[<<ucap, lcap>>]

\* Any st-flow may be there before the call.
Init ==
  /\ ucap \in UpperBounds /\ lcap \in [Arcs -> LowCaps]
  /\ flow \in [Arcs -> Amounts] /\ Legal
  /\ div = Divergence(flow) /\ div \in [Nodes -> Int] /\ Balanced
  /\ dist = [v \in Nodes |-> NoNode]
  /\ method \in Methods
  /\ pc = "start" /\ failed = FALSE
  /\ lower = 0 /\ upper = Sum(ucap, Arcs)
  /\ Q = {} /\ admissible = [v \in Nodes |-> {}] /\ u = s /\ canRelabel = FALSE
  /\ delta = 0 /\ todo = {}
  /\ val = 0 /\ scale = 0 /\ aux = <<>>

\* After a preflow method, a search labels the cut.
Search ==
  /\ pc = "search" /\ method \in Preflows
  /\ dist' = Depth(0)
  /\ pc' = "verify"
  /\ UNCHANGED <<ucap, lcap, flow, div, method, lower, upper, failed>>
  /\ UNCHANGED <<local, paths>>

\* The optional check of the result.
Verify ==
  /\ pc = "verify"
  /\ failed' = (failed \/ ~Balanced \/ div[t] # CutCapacity(ucap, lcap, {v \in Nodes : dist[v] < NoNode}))
  /\ pc' = "done"
  /\ UNCHANGED <<ucap, lcap, flow, div, dist, method, lower, upper, local, paths>>

Next == \/ PreflowStep /\ UNCHANGED paths
        \/ AugmentingStep /\ UNCHANGED local
        \/ Search \/ Verify

\* The solver runs until it has a result.
Fairness == WF_vars(Next)

Spec == Init /\ [][Next]_vars /\ Fairness

-----------------------------------------------------------------------------
\* Every method ends with an st-flow within the capacities, also when it is interrupted;
\* the divergences are those of the flow.  If it ends by itself, no st-flow has a larger
\* value, and the labels are a cut which proves that.
FlowIsMaximum ==
  /\ pc \in {"search", "explored", "stopped", "verify", "done"} =>
       Legal /\ Balanced /\ div = Divergence(flow)
  /\ pc = "done" => ~failed /\ div[t] = Optimum

\* What the module guard tells the user while the solver runs: no flow has a value that
\* is larger than the upper bound, and there is one of the value of the lower bound.
ValueIsEnclosed == lower <= Optimum /\ Optimum <= upper

\* No method loses sight of an active node, an admissible arc, or a path through the layers.
NothingIsForgotten == WorkIsKnown /\ BlockingIsExact
=============================================================================
