--------------------------- MODULE NetworkSimplex ---------------------------
(***************************************************************************)
(* MCF_NWSimplex (lib_src/solveMCFlow.cpp) with the class networkSimplex   *)
(* (lib_src/networkSimplex.cpp): cycles of free arcs are cancelled, a      *)
(* spanning tree is built from whose nodes flow can be sent to the root,   *)
(* and this tree, its thread index, its depths and its potentials are kept *)
(* up to date while arcs enter and leave it.                               *)
(*                                                                         *)
(* All pricing rules give an arc of negative reduced length while there is *)
(* one.  Here, any such arc may be next.                                   *)
(***************************************************************************)
EXTENDS CostScaling

VARIABLES root, at, next,      \* the depth first search: root, node, and what is left to read
          queue, edgeCount,    \* the arcs that wait, and how many of them belong to this round
          inArc,               \* the arc that enters a node or a contracted cycle
          outer,               \* the cycle that contains a node or a cycle, or itself
          nCycles,             \* the cycles that have been contracted
          thread, depth        \* the next node of the tree in preorder, the distance from its root

simplex == <<root, at, next, queue, edgeCount, inArc, outer, nCycles, thread, depth>>

Ids == 0 .. 2 * N - 1      \* nodes and contracted cycles

NoArcs(S) == [x \in S |-> NoArc]

IsFree(d) == ResCap(d) > 0 /\ ResCap(Opposite(d)) > 0

-----------------------------------------------------------------------------
\* MCF_NWSimplexCancelFree(): a depth first search by free arcs.
StartSimplex ==
  /\ stage = "start" /\ task.method = "SIMPLEX"
  /\ pred' = NoArcs(Nodes) /\ root' = 0 /\ at' = 0
  /\ \E order \in Orders : next' = [v \in Nodes |-> ListOf(order, v)]
  /\ stage' = "free"
  /\ UNCHANGED <<network, task, running, pi, label, low, high, ret, sending, scaling>>
  /\ UNCHANGED <<queue, edgeCount, inArc, outer, nCycles, thread, depth>>

Usable(d) == IsFree(d) /\ pred[at] # Opposite(d)

OnPath(v) == v = root \/ pred[v] # NoArc

SkipArc ==
  /\ stage = "free" /\ root < N /\ next[at] # <<>> /\ ~Usable(Head(next[at]))
  /\ next' = [next EXCEPT ![at] = Tail(@)]
  /\ UNCHANGED <<network, cost, sending, scaling>>
  /\ UNCHANGED <<root, at, queue, edgeCount, inArc, outer, nCycles, thread, depth>>

\* The arc is not read before the search returns.
Descend ==
  /\ stage = "free" /\ root < N /\ next[at] # <<>>
  /\ LET d == Head(next[at])
         w == EndNode(d)
     IN  /\ Usable(d) /\ ~OnPath(w)
         /\ pred' = [pred EXCEPT ![w] = d] /\ at' = w
  /\ UNCHANGED <<network, task, stage, running, pi, label, low, high, ret, sending, scaling>>
  /\ UNCHANGED <<root, next, queue, edgeCount, inArc, outer, nCycles, thread, depth>>

Length(p) == FoldLeft(LAMBDA x, d : x + RedLength(NoPotentials, d), 0, p)

\* The cycle in that direction in which it is not longer.
Cheaper(p) == IF Length(p) > 0 THEN Reverse([i \in DOMAIN p |-> Opposite(p[i])]) ELSE p

\* Back to the node where the cycle was entered.  The path up to there remains.
CancelFreeCycle ==
  /\ stage = "free" /\ root < N /\ next[at] # <<>>
  /\ LET d == Head(next[at])
         w == EndNode(d)
         p == Cheaper(Trail([pred EXCEPT ![w] = d], w, w))
         met == {EndNode(p[i]) : i \in DOMAIN p} \ {w}
     IN  /\ Usable(d) /\ OnPath(w)
         /\ PushOn(p, FindCap(p))
         /\ pred' = [v \in Nodes |-> IF v \in met THEN NoArc ELSE pred[v]]
         /\ at' = w
  /\ UNCHANGED <<ucap, lcap, dist, method, pc, lower, upper, failed>>
  /\ UNCHANGED <<task, stage, running, pi, label, low, high, ret, sending, scaling>>
  /\ UNCHANGED <<root, next, queue, edgeCount, inArc, outer, nCycles, thread, depth>>

Retreat ==
  /\ stage = "free" /\ root < N /\ next[at] = <<>> /\ at # root
  /\ pred' = [pred EXCEPT ![at] = NoArc]
  /\ at' = StartNode(pred[at])
  /\ next' = [next EXCEPT ![at'] = Tail(@)]
  /\ UNCHANGED <<network, task, stage, running, pi, label, low, high, ret, sending, scaling>>
  /\ UNCHANGED <<root, queue, edgeCount, inArc, outer, nCycles, thread, depth>>

NextRoot ==
  /\ stage = "free" /\ root < N /\ next[at] = <<>> /\ at = root
  /\ root' = root + 1 /\ at' = root + 1
  /\ UNCHANGED <<network, cost, sending, scaling>>
  /\ UNCHANGED <<next, queue, edgeCount, inArc, outer, nCycles, thread, depth>>

-----------------------------------------------------------------------------
\* MCF_NWSimplexStrongTree(): arcs which flow can be sent back along, free arcs first.
StartTree ==
  /\ stage = "free" /\ root = N
  /\ \E order \in Orders :
       queue' = SelectSeq(order, IsFree)
                  \o SelectSeq(order, LAMBDA d : ResCap(Opposite(d)) > 0 /\ ResCap(d) = 0)
  /\ edgeCount' = Len(queue')
  /\ inArc' = NoArcs(Ids) /\ outer' = [x \in Ids |-> x] /\ nCycles' = 0
  /\ stage' = "shrink"
  /\ UNCHANGED <<network, task, running, pi, label, pred, low, high, ret, sending, scaling>>
  /\ UNCHANGED <<root, at, next, thread, depth>>

\* S.Set(): the outermost cycle.
Top(x) == LET up[y \in Ids] == IF outer[y] = y THEN y ELSE up[outer[y]] IN up[x]

\* The nodes and cycles from x back along the entering arcs in A, up to y.
Back(A, x, y) ==
  LET back[w \in Ids, k \in 0 .. 2 * N] ==
        <<w>> \o IF w = y \/ A[w] = NoArc \/ k = 0 THEN <<>> ELSE back[Top(StartNode(A[w])), k - 1]
  IN  back[x, 2 * N]

\* After a contraction, all arcs that wait are read once more.
NewRound(x) == Len(x)

ReadQueue ==
  /\ stage = "shrink" /\ queue # <<>> /\ edgeCount > 0
  /\ LET d == Head(queue)
         x == Top(StartNode(d))
         y == Top(EndNode(d))
         A == [inArc EXCEPT ![y] = d]
         p == Back(A, x, y)
     IN  \/ /\ x = y
            /\ queue' = Tail(queue) /\ edgeCount' = edgeCount - 1
            /\ UNCHANGED <<inArc, outer, nCycles>>
         \/ /\ x # y /\ inArc[y] # NoArc
            /\ queue' = Append(Tail(queue), d) /\ edgeCount' = edgeCount - 1
            /\ UNCHANGED <<inArc, outer, nCycles>>
         \/ /\ x # y /\ inArc[y] = NoArc /\ Last(p) # y
            /\ inArc' = A
            /\ queue' = Tail(queue) /\ edgeCount' = edgeCount - 1
            /\ UNCHANGED <<outer, nCycles>>
         \/ /\ x # y /\ inArc[y] = NoArc /\ Last(p) = y
            /\ inArc' = A
            /\ outer' = [w \in Ids |-> IF w \in ToSet(p) THEN N + nCycles ELSE outer[w]]
            /\ nCycles' = nCycles + 1
            /\ queue' = Tail(queue) /\ edgeCount' = NewRound(queue')
  /\ UNCHANGED <<network, cost, sending, scaling, root, at, next, thread, depth>>

EndShrinking ==
  /\ stage = "shrink" /\ (queue = <<>> \/ edgeCount = 0)
  /\ stage' = "expand"
  /\ UNCHANGED <<network, task, running, pi, label, pred, low, high, ret, sending, scaling, simplex>>

\* The last cycle is replaced by a path: the arc that enters it ends at the first node.  If no
\* arc does, the cycle is opened, at an arc without residual capacity if it has one.
ExpandCycle ==
  /\ stage = "expand" /\ nCycles > 0
  /\ LET c == N + nCycles - 1
         members == {x \in Ids \ {c} : outer[x] = c}
         split == [x \in Ids |-> IF x \in members THEN x ELSE outer[x]]
         in[x \in Ids] == IF split[x] = x THEN x ELSE in[split[x]]
         tight == {x \in members : ResCap(inArc[x]) = 0}
     IN  /\ outer' = split
         /\ IF inArc[c] # NoArc THEN inArc' = [inArc EXCEPT ![in[EndNode(inArc[c])]] = inArc[c]]
            ELSE \E x \in IF tight # {} THEN tight ELSE members : inArc' = [inArc EXCEPT ![x] = NoArc]
  /\ nCycles' = nCycles - 1
  /\ UNCHANGED <<network, cost, sending, scaling, root, at, next, queue, edgeCount, thread, depth>>

-----------------------------------------------------------------------------
\* InitThreadIndex(): the nodes below each root, in the order of a depth first search.
Preorder(p, order) ==
  LET children(v) == SelectSeq(order, LAMBDA d : StartNode(d) = v /\ p[EndNode(d)] = d)
      below[v \in Nodes, k \in 0 .. N] ==
        IF k = 0 THEN <<v>>
        ELSE FoldLeft(LAMBDA seq, d : seq \o below[EndNode(d), k - 1], <<v>>, children(v))
  IN  [v \in Nodes |-> below[v, N]]

ThreadOf(p, order) ==
  LET seqs == {Preorder(p, order)[v] : v \in {w \in Nodes : p[w] = NoArc}}
  IN  [v \in Nodes |-> LET q == CHOOSE q \in seqs : v \in ToSet(q)
                           i == CHOOSE i \in DOMAIN q : q[i] = v
                       IN  IF i = Len(q) THEN NoNode ELSE q[i + 1]]

\* The number of arcs from the root, and their length, which is the potential.
DepthOf(p) ==
  LET down[v \in Nodes] == IF p[v] = NoArc THEN 0 ELSE down[StartNode(p[v])] + 1 IN down

PotentialOf(p) ==
  LET down[v \in Nodes] ==
        IF p[v] = NoArc THEN 0 ELSE down[StartNode(p[v])] + RedLength(NoPotentials, p[v])
  IN  down

StartPivoting ==
  /\ stage = "expand" /\ nCycles = 0
  /\ pred' = [v \in Nodes |-> inArc[v]]
  /\ \E order \in Orders : thread' = ThreadOf(pred', order)
  /\ depth' = DepthOf(pred')
  /\ pi' = PotentialOf(pred')
  /\ SetBounds(DualObjective(pi'), Weight(flow))
  /\ queue' = <<>> /\ edgeCount' = 0 /\ inArc' = NoArcs(Ids)
  /\ stage' = "pivot"
  /\ UNCHANGED <<ucap, lcap, flow, div, dist, method, pc, lower, upper>>
  /\ UNCHANGED <<task, running, label, ret, sending, scaling, root, at, next, outer, nCycles>>

-----------------------------------------------------------------------------
\* The tree arcs on both sides of the pivot arc, in the direction of the pivot cycle, from
\* the pivot arc to the node where the sides meet.
PivotCycle(pivot) ==
  LET climb[k \in 0 .. 2 * N] ==
        IF k = 0 THEN [tail |-> StartNode(pivot), head |-> EndNode(pivot), left |-> <<>>, right |-> <<>>]
        ELSE LET x == climb[k - 1]
             IN  IF x.tail = x.head \/ (depth[x.tail] = 0 /\ depth[x.head] = 0) THEN x
                 ELSE IF depth[x.tail] > depth[x.head]
                 THEN [x EXCEPT !.tail = StartNode(pred[@]), !.left = Append(@, pred[x.tail])]
                 ELSE [x EXCEPT !.head = StartNode(pred[@]), !.right = Append(@, Opposite(pred[x.head]))]
  IN  climb[2 * N]

\* UpdateThread(): the end of the subtree of r, from which that of pr has been taken, whose
\* last node is fs.  It follows fs, then.
UpdateThread(th, r, pr, fs) ==
  LET skip(x) == IF pr # NoNode /\ x.thread[x.end] = pr
                 THEN [x EXCEPT !.thread[x.end] = x.thread[fs]] ELSE x
      walk[k \in 0 .. N] ==
        IF k = 0 THEN skip([thread |-> th, end |-> r])
        ELSE LET x == walk[k - 1]
                 y == x.thread[x.end]
             IN  IF y = NoNode \/ depth[r] >= depth[y] THEN x ELSE skip([x EXCEPT !.end = y])
  IN  IF fs = NoNode THEN walk[N] ELSE [walk[N] EXCEPT !.thread[fs] = r]

\* The subtree that hangs from the tree arc "old" is hung from the dart "enter" instead: the
\* arcs between are turned around, and the nodes are taken out of the thread and put back
\* below the start of "enter".
Rehung(enter, old) ==
  LET r == EndNode(enter)
      turn[k \in 0 .. N] ==
        IF k = 0 THEN [v |-> r, last |-> enter, pred |-> pred] @@ UpdateThread(thread, r, NoNode, NoNode)
        ELSE LET x == turn[k - 1]
                 d == pred[x.v]
                 w == StartNode(d)
             IN  IF d = old THEN x
                 ELSE [v |-> w, last |-> Opposite(d), pred |-> [x.pred EXCEPT ![x.v] = x.last]]
                        @@ UpdateThread(x.thread, w, x.v, x.end)
      x == turn[N]
      before[v \in Nodes] == IF x.thread[v] = EndNode(old) THEN v ELSE before[x.thread[v]]
      out == [x.thread EXCEPT ![before[StartNode(old)]] = x.thread[x.end]]
  IN  [pred |-> [x.pred EXCEPT ![x.v] = x.last], end |-> x.end,
       thread |-> [out EXCEPT ![x.end] = out[StartNode(enter)], ![StartNode(enter)] = r]]

\* The nodes that follow r in the thread, up to the node after "end".
Moved(th, r, end) ==
  LET stop == th[end]
      seq[k \in 1 .. N] ==
        IF k = 1 THEN <<r>>
        ELSE LET y == th[Last(seq[k - 1])]
             IN  IF Last(seq[k - 1]) = NoNode \/ y = stop THEN seq[k - 1] ELSE Append(seq[k - 1], y)
  IN  seq[N]

\* Of the arcs that block on the right, the one next to the root leaves.
LastBlocking(p, f) == Last(SelectSeq(p, LAMBDA d : Capacity(f, d) = 0))

Blocks(p, f) == \E i \in DOMAIN p : Capacity(f, p[i]) = 0

\* The tree arc "old" gives way to the dart "enter".
Exchange(enter, old) ==
  \E h \in {Rehung(enter, old)} : \E below \in {Moved(h.thread, EndNode(enter), h.end)} :
    /\ pred' = h.pred /\ thread' = h.thread
    /\ depth' = FoldLeft(LAMBDA dp, v : [dp EXCEPT ![v] = dp[StartNode(h.pred[v])] + 1], depth, below)
    /\ pi' = [v \in Nodes |-> IF v \in ToSet(below) THEN pi[v] + RedLength(pi, enter) ELSE pi[v]]

\* PivotOperation(): flow is sent around the cycle.  If the last arc that blocks is the pivot
\* arc, the tree remains.
Pivot(pivot) ==
  \E c \in {PivotCycle(pivot)} :
    LET right == <<pivot>> \o c.right
    IN  /\ PushOn(c.left \o right, FindCap(c.left \o right))
        /\ IF Blocks(right, flow')
           THEN \E leaving \in {LastBlocking(right, flow')} :
                  IF leaving = pivot THEN UNCHANGED <<pred, thread, depth, pi>>
                                     ELSE Exchange(pivot, Opposite(leaving))
           ELSE Exchange(Opposite(pivot), Head(SelectSeq(c.left, LAMBDA d : Capacity(flow', d) = 0)))

Eligible == {d \in Residual(0) : RedLength(pi, d) < 0}

PivotStep ==
  /\ stage = "pivot" /\ running
  /\ \E d \in Eligible : Pivot(d)
  /\ SetBounds(DualObjective(pi'), Weight(flow'))
  /\ UNCHANGED <<ucap, lcap, dist, method, pc, lower, upper>>
  /\ UNCHANGED <<task, stage, running, label, ret, sending, scaling>>
  /\ UNCHANGED <<root, at, next, queue, edgeCount, inArc, outer, nCycles>>

EndPivoting ==
  /\ stage = "pivot" /\ (running => Eligible = {})
  /\ SetBounds(IF running THEN Weight(flow) ELSE DualObjective(pi), Weight(flow))
  /\ ret' = Weight(flow) /\ stage' = "verify"
  /\ UNCHANGED <<ucap, lcap, flow, div, dist, method, pc, lower, upper>>
  /\ UNCHANGED <<task, running, pi, label, pred, sending, scaling, simplex>>

SimplexStep == \/ StartSimplex \/ SkipArc \/ Descend \/ CancelFreeCycle \/ Retreat \/ NextRoot
               \/ StartTree \/ ReadQueue \/ EndShrinking \/ ExpandCycle \/ StartPivoting
               \/ PivotStep \/ EndPivoting
=============================================================================
