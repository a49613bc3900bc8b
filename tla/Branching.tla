------------------------------- MODULE Branching -------------------------------
(***************************************************************************)
(* MST_Edmonds (lib_src/solveMinTree.cpp): every node but the root selects *)
(* a shortest entering arc; a cycle of selected arcs is shrunk to a node   *)
(* of its own, for which the lengths of the entering arcs are modified;    *)
(* then the cycles are expanded again in reverse order.                    *)
(*                                                                         *)
(* The nodes of the graph and the cycles are numbered together; the nested *)
(* family S of the code is given by the cycle a node is directly in.       *)
(***************************************************************************)
EXTENDS SpanningTree, TLC

VARIABLES inArc,       \* the entering arc of a node or cycle
          modLength,   \* modified length of every dart
          entering,    \* the queues Q: the arcs that enter a node or cycle
          outer,       \* the cycle a node is in, or itself
          scanNode,    \* where to look for the next node
          nCycles      \* number of cycles

shrinking == <<inArc, modLength, entering, outer, scanNode, nCycles>>

NestedNodes == 0 .. 2 * N - 1

\* Infinite lengths absorb what is added to them.
Minus(x, y) == IF x \in {Inf, -Inf} THEN x ELSE x - y

\* A node and the cycles around it.
Around(v) ==
  LET around[x \in NestedNodes] ==
        IF outer[x] = x THEN {x} ELSE {x} \cup around[outer[x]]
  IN  around[v]

\* S.Set(): the outermost one.
Top(v) == CHOOSE x \in Around(v) : outer[x] = x

EdmondsStart ==
  /\ pc = "start" /\ method = "EDMONDS"
  /\ modLength' = [d \in Darts |-> IF IsMandatory(d) THEN -sign * Inf ELSE len[d[1]]]
  /\ entering' = [v \in NestedNodes |->
                    IF v \in Nodes \ {r}
                    THEN {d \in Darts : Opposite(d) \in Leaving(v) /\ ~Blocking(d)}
                    ELSE {}]
  /\ inArc' = [v \in NestedNodes |-> NoArc]
  /\ outer' = [v \in NestedNodes |-> v]
  /\ scanNode' = 0 /\ nCycles' = 0 /\ rank' = 0
  /\ pc' = "shrink"
  /\ UNCHANGED <<instance, pred, sub, sum>>

\* The nodes that still select an entering arc, in this order.
Unscanned == {v \in scanNode .. N + nCycles - 1 : v # r /\ outer[v] = v}

\* The shortest arcs that enter v.
Selectable(v) ==
  {d \in entering[v] : modLength[d] # Failure /\
                       \A e \in entering[v] : sign * modLength[d] <= sign * modLength[e]}

\* The nodes on the way back from u along the selected arcs, up to v.
Backward(u, v, selected) ==
  LET back[k \in 0 .. 2 * N] ==
        IF k = 0 THEN {u}
        ELSE back[k - 1] \cup {Top(StartNode(selected[w])) :
                                 w \in {x \in back[k - 1] : x # v /\ selected[x] # NoArc}}
  IN  back[2 * N]

\* Variant: the lengths of the arcs that enter the cycle are not modified.
ModifiedNot(C, selected) == modLength

\* The arc a that enters w on the cycle C would replace the selected one.
Modified(C, selected) ==
  [d \in Darts |->
     LET w == Top(EndNode(d))
     IN  IF w \in C /\ d \in entering[w] /\ Top(StartNode(d)) \notin C /\ modLength[d] # -sign * Inf
         THEN IF modLength[selected[w]] = -sign * Inf THEN sign * Inf
              ELSE Minus(modLength[d], sign * modLength[selected[w]])
         ELSE modLength[d]]

\* The cycle C becomes a node, entered by the arcs that do not start in C.
Shrink(C, selected) ==
  LET c == N + nCycles
      new == {d \in UNION {entering[w] : w \in C} : Top(StartNode(d)) \notin C}
  IN  /\ modLength' = Modified(C, selected)
      /\ entering' = [v \in NestedNodes |-> IF v \in C THEN {} ELSE IF v = c THEN new ELSE entering[v]]
      /\ outer' = [v \in NestedNodes |-> IF v \in C THEN c ELSE outer[v]]
      /\ nCycles' = nCycles + 1
      /\ rank' = rank

SelectArc ==
  /\ pc = "shrink" /\ Unscanned # {}
  /\ LET v == Min(Unscanned)
     IN  \E d \in Selectable(v) :
           LET selected == [inArc EXCEPT ![v] = d]
               C == Backward(Top(StartNode(d)), v, selected)
           IN  /\ inArc' = selected
               /\ scanNode' = v + 1
               /\ IF v \in C THEN Shrink(C, selected)
                  ELSE rank' = rank + 1 /\ UNCHANGED <<modLength, entering, outer, nCycles>>
  /\ UNCHANGED <<instance, pc, pred, sub, sum>>

\* All nodes have an arc, or there is none for the next one.
ShrinkEnds ==
  /\ pc = "shrink"
  /\ Unscanned # {} => Selectable(Min(Unscanned)) = {}
  /\ pc' = "split"
  /\ UNCHANGED <<instance, outcome, shrinking>>

Members(c) == {v \in NestedNodes : outer[v] = c /\ v # c}

\* Variant: the arc that enters the cycle is given to its first node.
InheritFirst(c) == Min(Members(c))

\* The node on the cycle c that the arc enters.
Inherits(c) == CHOOSE v \in Members(c) : v \in Around(EndNode(inArc[c]))

\* A cycle that no arc enters loses its longest arc.
Longest(c) ==
  {v \in Members(c) : \A w \in Members(c) :
     sign * modLength[inArc[w]] <= sign * modLength[inArc[v]]}

\* The outermost cycles come first: they have the largest numbers.
ExpandCycle ==
  /\ pc = "split" /\ nCycles > 0
  /\ LET c == N + nCycles - 1
     IN  /\ outer' = [v \in NestedNodes |-> IF v \in Members(c) THEN v ELSE outer[v]]
         /\ IF inArc[c] = NoArc THEN \E v \in Longest(c) : inArc' = [inArc EXCEPT ![v] = NoArc]
            ELSE inArc' = [inArc EXCEPT ![Inherits(c)] = inArc[c]]
  /\ nCycles' = nCycles - 1
  /\ UNCHANGED <<instance, pc, outcome, modLength, entering, scanNode>>

\* The arcs into the root.
RootArcs == {d \in Darts : Opposite(d) \in Leaving(r) /\ ~Blocking(d)}

CloseCycle ==
  /\ pc = "split" /\ nCycles = 0
  /\ LET D == IF cycle THEN {d \in RootArcs : \A e \in RootArcs :
                                sign * modLength[d] <= sign * modLength[e]} ELSE {}
     IN  \/ D = {} /\ UNCHANGED <<inArc, rank>>
         \/ \E d \in D : inArc' = [inArc EXCEPT ![r] = d] /\ rank' = rank + 1
  /\ pc' = "sum"
  /\ UNCHANGED <<instance, pred, sub, sum, modLength, entering, outer, scanNode, nCycles>>

EdmondsEnd ==
  /\ pc = "sum"
  /\ pred' = [v \in Nodes |-> inArc[v]]
  /\ sum' = IF rank = (IF cycle THEN N ELSE N - 1)
            THEN MapThenSumSet(LAMBDA v : len[inArc[v][1]], {v \in Nodes : inArc[v] # NoArc})
            ELSE Failure
  /\ pc' = "add"
  /\ UNCHANGED <<instance, sub, rank, shrinking>>

EdmondsStep == \/ EdmondsStart \/ SelectArc \/ ShrinkEnds \/ ExpandCycle \/ CloseCycle
               \/ EdmondsEnd
=============================================================================
