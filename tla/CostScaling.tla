----------------------------- MODULE CostScaling -----------------------------
(***************************************************************************)
(* MCF_CostScaling (lib_src/solveMCFlow.cpp): the method of Goldberg and   *)
(* Tarjan.  In each phase the reduced lengths of residual arcs get half as *)
(* negative as they may have been, by pushing flow along arcs of negative  *)
(* reduced length, and by reducing potentials.                             *)
(*                                                                         *)
(* The active nodes wait in a heap.  Their keys, the node colours, are all *)
(* zero for ever, so any of them may be next.                              *)
(***************************************************************************)
EXTENDS CostPaths

CONSTANT tolerance     \* CT.tolerance

VARIABLES epsilon,     \* how negative a reduced length may be
          Active,      \* Q: nodes that receive more than they should
          Admissible   \* the arcs a node has still to try, in this order

scaling == <<epsilon, Active, Admissible>>

CostScalings == {"COST", "TIGHT"}

Worst == Max({0} \cup {-RedLength(pi, d) : d \in Residual(0)})

StartScaling ==
  /\ stage = "start" /\ task.method \in CostScalings
  /\ SetUpperBound(Weight(flow))
  /\ Admissible' = [v \in Nodes |-> <<>>]
  /\ stage' = "measure"
  /\ UNCHANGED <<ucap, lcap, flow, div, dist, method, pc, lower, upper>>
  /\ UNCHANGED <<task, running, pi, label, pred, ret, sending, epsilon, Active>>

\* The next epsilon, and potentials for it.  By the mean length of a cycle, which is added
\* to the lengths (and not subtracted, so that the search ends with whatever labels it has
\* then); or from the potentials that are there.
MeasureTight(order) ==
  LET mean == MinimumMeanCycle(Residual(0), order).mean
      shifted == [d \in Darts |-> RedLength(NoPotentials, d) + (IF mean < 0 THEN mean ELSE 0)]
  IN  /\ epsilon' = IF mean < 0 THEN -mean ELSE 0
      /\ label' = NegativeCycle(shifted, Residual(0), order).label
      /\ pi' = Updated(NoPotentials, label', 0)

\* Potentials that are near to optimal ones are replaced in the end.
MeasureLoose(order) ==
  /\ epsilon' = IF N * Worst < tolerance THEN 0 ELSE Worst
  /\ IF epsilon' # 0 THEN UNCHANGED <<label, pi>>
     ELSE /\ label' = NegativeCycle(Reduced(NoPotentials), Residual(0), order).label
          /\ pi' = Updated(NoPotentials, label', 0)

Measure ==
  /\ stage = "measure" /\ running
  /\ \E order \in Orders :
       IF task.method = "TIGHT" THEN MeasureTight(order) ELSE MeasureLoose(order)
  /\ SetLowerBound(DualObjective(pi'))
  /\ IF epsilon' = 0 THEN stage' = "verify" /\ ret' = Weight(flow)
     ELSE stage' = "push" /\ UNCHANGED ret
  /\ UNCHANGED <<ucap, lcap, flow, div, dist, method, pc, lower, upper>>
  /\ UNCHANGED <<task, running, pred, sending, Active, Admissible>>

StopScaling ==
  /\ stage = "measure" /\ ~running
  /\ ret' = Weight(flow) /\ stage' = "verify"
  /\ UNCHANGED <<network, task, running, pi, label, pred, low, high, sending, scaling>>

Negative(f, p) == {d \in Darts : Capacity(f, d) > 0 /\ RedLength(p, d) < 0}

Overflowing(f) == {v \in Nodes : Divergence(f)[v] > dem[v]}

\* No admissible arc is left then.
SaturateNegative ==
  /\ stage = "push"
  /\ LET full == Negative(flow, pi)
     IN  flow' = [a \in Arcs |-> IF <<a, 0>> \in full THEN ucap[a]
                                 ELSE IF <<a, 1>> \in full THEN lcap[a] ELSE flow[a]]
  /\ div' = Divergence(flow') /\ Active' = Overflowing(flow')
  /\ stage' = "discharge"
  /\ UNCHANGED <<ucap, lcap, dist, method, pc, lower, upper, failed>>
  /\ UNCHANGED <<task, running, pi, label, pred, low, high, ret, sending, epsilon, Admissible>>

\* The excess of v is pushed along the arcs of its list.  An arc is listed again if it is not
\* saturated.
Discharged(v) ==
  LET try[k \in 0 .. 2 * Cardinality(Arcs) + 1] ==
        IF k = 0 THEN [flow |-> flow, list |-> Admissible[v]]
        ELSE LET x == try[k - 1]
                 d == Head(x.list)
                 amount == Least(Capacity(x.flow, d), Divergence(x.flow)[v] - dem[v])
                 f == Pushed(x.flow, d, amount)
             IN  IF x.list = <<>> \/ v \notin Overflowing(x.flow) THEN x
                 ELSE IF d \notin Negative(x.flow, pi) THEN [x EXCEPT !.list = Tail(@)]
                 ELSE [flow |-> f, list |-> Tail(x.list) \o (IF Capacity(f, d) > 0 THEN <<d>> ELSE <<>>)]
  IN  try[2 * Cardinality(Arcs) + 1]

Added(list, D) == list \o SetToSeq(D \ ToSet(list))

\* Variant: the arcs that a relabel operation makes admissible are not listed.
ListedNot(lists, f, p, v) == lists

\* The arcs at v that are admissible after a relabel operation.
Listed(lists, f, p, v) ==
  LET new == {d \in Negative(f, p) : v \in {StartNode(d), EndNode(d)}}
  IN  [w \in Nodes |-> Added(lists[w], {d \in new : StartNode(d) = w})]

\* One node is discharged; it is relabelled if there is a rest, and waits again.
DischargeNode ==
  /\ stage = "discharge"
  /\ \E v \in Active : \E x \in {Discharged(v)} :
       LET lists == [Admissible EXCEPT ![v] = x.list]
           relabel == v \in Overflowing(x.flow)
       IN  /\ flow' = x.flow /\ div' = Divergence(x.flow)
           /\ pi' = IF relabel THEN [pi EXCEPT ![v] = @ - epsilon \div 2] ELSE pi
           /\ Admissible' = IF relabel THEN Listed(lists, x.flow, pi', v) ELSE lists
  /\ Active' = Overflowing(flow')
  /\ UNCHANGED <<ucap, lcap, dist, method, pc, lower, upper, failed>>
  /\ UNCHANGED <<task, stage, running, label, pred, low, high, ret, sending, epsilon>>

EndPhaseOfScaling ==
  /\ stage = "discharge" /\ Active = {}
  /\ SetUpperBound(Weight(flow))
  /\ stage' = "measure"
  /\ UNCHANGED <<ucap, lcap, flow, div, dist, method, pc, lower, upper>>
  /\ UNCHANGED <<task, running, pi, label, pred, ret, sending, scaling>>

ScalingStep == \/ StartScaling \/ Measure \/ StopScaling \/ SaturateNegative \/ DischargeNode
               \/ EndPhaseOfScaling
=============================================================================
