--------------------------- MODULE AugmentingPaths ---------------------------
(***************************************************************************)
(* The methods of lib_src/solveMaxFlow.cpp that augment along shortest     *)
(* paths: MXF_EdmondsKarp, MXF_CapacityScaling and MXF_Dinic, the latter   *)
(* with the layeredAuxNetwork of lib_src/auxiliaryNetwork.cpp.  They test  *)
(* CT.SolverRunning() and may be stopped by the user.                      *)
(*                                                                         *)
(* A breadth first search is one step; in which order it meets the arcs is *)
(* open, so that it yields any of the shortest paths.                      *)
(***************************************************************************)
EXTENDS Network, SequencesExt, FiniteSetsExt

VARIABLES val,      \* flow value that is reported
          scale,    \* only arcs with more residual capacity are eligible
          aux       \* layeredAuxNetwork: the arcs into a node (into), their number without
                    \* the dead ones (degree), the path that is augmented (path, by amount)

paths == <<val, scale, aux>>

Augmentations == {"SAP", "SAP_SCALE", "DINIC"}

\* The labels of a breadth first search along darts with more than x units of residual
\* capacity.
Depth(x) ==
  LET near[k \in Nat] ==
        IF k = 0 THEN {s}
        ELSE LET S == near[k - 1]
             IN  S \cup {EndNode(d) : d \in {e \in Darts : StartNode(e) \in S /\ ResCap(e) > x}}
  IN  [v \in Nodes |-> Cardinality({k \in Nodes : v \notin near[k]})]

\* The eligible darts from a layer to the next one.
Layered(x) == {d \in Darts : ResCap(d) > x /\ dist[EndNode(d)] = dist[StartNode(d)] + 1}

\* The paths from s to t by arcs in A, which lead from a layer to the next one.
PathsBy(A) ==
  LET to[v \in Nodes] ==
        IF v = s THEN {<<>>}
        ELSE UNION {{Append(p, d) : p \in to[StartNode(d)]} : d \in {e \in A : EndNode(e) = v}}
  IN  to[t]

FindCap(p) == Min({ResCap(p[i]) : i \in DOMAIN p})

\* Augment(): the divergences in between do not change.
Augmented(p, x) == FoldLeft(LAMBDA f, d : Pushed(f, d, x), flow, p)

Augment(p, x) ==
  /\ flow' = Augmented(p, x)
  /\ div' = [div EXCEPT ![s] = @ - x, ![t] = @ + x]
  /\ val' = val + x

\* The flow that leaves the source when the solver is called.
Leaving == MapThenSumSet(LAMBDA a : flow[a], {a \in Arcs : From[a] = s})

AugmentStart ==
  /\ pc = "start" /\ method \in Augmentations
  /\ val' = Leaving /\ lower' = val'
  /\ scale' = IF method = "SAP_SCALE" THEN Max({ucap[a] : a \in Arcs} \cup {1}) - 1 ELSE 0
  /\ pc' = "search"
  /\ UNCHANGED <<ucap, lcap, flow, div, dist, method, upper, failed, aux>>

\* Variant: the value that has been reached is reported as an upper bound.
InterruptWithBound ==
  /\ pc = "search" /\ method \in Augmentations
  /\ pc' = "stopped" /\ upper' = val
  /\ UNCHANGED <<ucap, lcap, flow, div, dist, method, lower, failed>>
  /\ UNCHANGED paths

\* The user stops the solver before a search.
Interrupt ==
  /\ pc = "search" /\ method \in Augmentations
  /\ pc' = "stopped"
  /\ UNCHANGED <<ucap, lcap, flow, div, dist, method, lower, upper, failed>>
  /\ UNCHANGED paths

\* Labels beyond the target may be missing in the code, which does not use them.
Explore ==
  /\ pc = "search" /\ method \in Augmentations
  /\ dist' = Depth(scale)
  /\ pc' = "explored"
  /\ UNCHANGED <<ucap, lcap, flow, div, method, lower, upper, failed>> /\ UNCHANGED paths

AugmentAlong ==
  /\ pc = "explored" /\ dist[t] # NoNode /\ method # "DINIC"
  /\ \E p \in PathsBy(Layered(scale)) : Augment(p, FindCap(p))
  /\ lower' = val'
  /\ pc' = "search"
  /\ UNCHANGED <<ucap, lcap, dist, method, upper, failed, scale, aux>>

\* Variant: the last phase of capacity scaling is left out.
RescaleEndsEarly ==
  /\ pc = "explored" /\ dist[t] = NoNode /\ scale > 0
  /\ scale' = scale \div 2
  /\ pc' = IF scale' = 0 THEN "verify" ELSE "search"
  /\ UNCHANGED <<ucap, lcap, flow, div, dist, method, lower, upper, failed, val, aux>>

Rescale ==
  /\ pc = "explored" /\ dist[t] = NoNode /\ scale > 0
  /\ scale' = scale \div 2
  /\ pc' = "search"
  /\ UNCHANGED <<ucap, lcap, flow, div, dist, method, lower, upper, failed, val, aux>>

\* The labels of the search that has failed are the cut.
Finish ==
  /\ pc = "explored" /\ dist[t] = NoNode /\ scale = 0
  /\ upper' = val
  /\ pc' = "verify"
  /\ UNCHANGED <<ucap, lcap, flow, div, dist, method, lower, failed>> /\ UNCHANGED paths

-----------------------------------------------------------------------------
\* Dinic's method: the search ends in the layer of the target.
BuildLayers ==
  /\ pc = "explored" /\ dist[t] # NoNode /\ method = "DINIC"
  /\ LET into(v) == {d \in Layered(0) : EndNode(d) = v /\ dist[StartNode(d)] < dist[t]}
     IN  aux' = [into |-> [v \in Nodes |-> into(v)],
                 degree |-> [v \in Nodes |-> Cardinality(into(v))],
                 path |-> <<>>, amount |-> 0]
  /\ pc' = "block"
  /\ UNCHANGED <<ucap, lcap, flow, div, dist, method, lower, upper, failed, val, scale>>

Blocked(v) == v # s /\ aux.degree[v] = 0

Dead(d) == Blocked(StartNode(d)) \/ ResCap(d) = 0

\* FindPath() goes back from the target.  It takes the first arc of a list that is not dead;
\* it will not look at the arcs before it again, which is right as a dead arc stays dead.
FindPath ==
  /\ pc = "block" /\ ~Blocked(t) /\ aux.path = <<>>
  /\ \E p \in PathsBy({d \in Darts : d \in aux.into[EndNode(d)] /\ ~Dead(d)}) :
       /\ aux' = [aux EXCEPT !.path = p, !.amount = FindCap(p)]
       /\ val' = val + FindCap(p)
  /\ UNCHANGED <<network, scale>>

\* Variant: only the end node of the saturated arc loses an arc.
TopErasureOnly(f, d) == [aux.degree EXCEPT ![EndNode(d)] = @ - 1]

\* The degrees when the arc d is saturated by the flow f.  When its end node has no arcs
\* left, the node is blocked, and its residual arcs are deleted as well, and so on.
TopErasure(f, d) ==
  LET less == [aux.degree EXCEPT ![EndNode(d)] = @ - 1]
      lost(v, D) == Cardinality({e \in aux.into[v] : StartNode(e) \in D /\ Capacity(f, e) > 0})
      dead[k \in Nat] ==
        IF k = 0 THEN {v \in {EndNode(d)} : less[v] = 0}
        ELSE LET D == dead[k - 1]
             IN  D \cup {v \in Nodes : less[v] > 0 /\ less[v] = lost(v, D)}
  IN  [v \in Nodes |-> less[v] - lost(v, dead[N])]

\* The arcs of the path are augmented one by one, from the target on.
Block ==
  /\ pc = "block" /\ aux.path # <<>>
  /\ LET d == Last(aux.path)
         f == Pushed(flow, d, aux.amount)
     IN  /\ Push(d, aux.amount)
         /\ aux' = [aux EXCEPT !.path = Front(@),
                               !.degree = IF Capacity(f, d) = 0 THEN TopErasure(f, d) ELSE @]
  /\ UNCHANGED <<ucap, lcap, dist, method, pc, lower, upper, failed, val, scale>>

EndPhase ==
  /\ pc = "block" /\ Blocked(t) /\ aux.path = <<>>
  /\ lower' = val
  /\ pc' = "search"
  /\ UNCHANGED <<ucap, lcap, flow, div, dist, method, upper, failed, val, scale, aux>>

AugmentingStep ==
  \/ AugmentStart \/ Interrupt \/ Explore \/ AugmentAlong \/ Rescale \/ Finish
  \/ BuildLayers \/ FindPath \/ Block \/ EndPhase

-----------------------------------------------------------------------------
\* Between two paths, the nodes that are not blocked are those that a path from the source
\* leads to: FindPath() does not run off the end of a list; and when the target is blocked,
\* no path of the layers is left, so that the next search ends in a later layer.
BlockingIsExact ==
  pc = "block" /\ aux.path = <<>> =>
    LET behind[v \in Nodes] ==
          v = s \/ \E d \in aux.into[v] : ResCap(d) > 0 /\ behind[StartNode(d)]
    IN  \A v \in Nodes \ {s} : /\ Blocked(v) <=> ~behind[v]
                               /\ ~Blocked(v) => \E d \in aux.into[v] : ~Dead(d)
=============================================================================
