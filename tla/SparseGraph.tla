----------------------------- MODULE SparseGraph -----------------------------
(***************************************************************************)
(* lib_src/sparseRepresentation.cpp: a mixed graph in arrays, which the    *)
(* solvers and the shell edit in place.  Arc a and its reverse arc share   *)
(* the pair 2i, 2i+1; the arcs with the start node v form a circular list  *)
(* along right[], which encodes the planar embedding; layout points are    *)
(* numbered behind the nodes and linked by thread[] to the control points  *)
(* of an arc or of a node.  Every deletion moves the last item into the    *)
(* gap, so that indices change meaning all the time.                       *)
(*                                                                         *)
(* The object has one user at a time, so that a method is one action.  A   *)
(* method is written as an operator from states to states since the        *)
(* methods call each other.                                                *)
(***************************************************************************)
EXTENDS Integers, Sequences, SequencesExt, FiniteSetsExt, Functions

CONSTANTS MaxNodes,         \* bound on nAct
          MaxArcs,          \* bound on mAct
          MaxPoints,        \* bound on the number of layout points
          MaxItems,         \* bound on 2 mAct plus the number of layout points
          LongBits,         \* width of unsigned long, the type of TNode
          Careful           \* with which items callers keep away from what goes wrong

ASSUME BoundType == {MaxNodes, MaxArcs, MaxPoints, MaxItems} \subseteq Nat
ASSUME LongType == LongBits \in {32, 64} /\ Careful \subseteq {"arcs", "points"}

NoNode == -1
NoArc == -1

VARIABLE X

\* nAct, mAct, lAct  numbers of nodes, of arcs, of nodes and layout points
\* SN, right         start node and right neighbour of every arc
\* left              left neighbours, <<>> until somebody asks for one
\* first             where the list of a node begins, of length nMax
\* labels, threads   "none": no such attribute; "empty": an attribute without
\*                   values; "full": one value per index
\* align, thread     label point of an arc, next point of a node or a point
\* box               the two corners of the bounding box, <<>> without one
\* edge, id          the index that an arc, and a node or point, had before the
\*                   call: they stand for the attributes, which move with the items
\* thrown            the call has failed a check of its own callees
Twin(a) == IF a % 2 = 0 THEN a + 1 ELSE a - 1

-----------------------------------------------------------------------------
\* The operations of attribute.h on an attribute with a value per index.
AppendItems(f, k, x) ==
  [i \in 0 .. Cardinality(DOMAIN f) + k - 1 |-> IF i \in DOMAIN f THEN f[i] ELSE x]

EraseItems(f, k) == Restrict(f, 0 .. Cardinality(DOMAIN f) - k - 1)

SwapItems(f, i, j) == [f EXCEPT ![i] = f[j], ![j] = f[i]]

\* An attribute of one value per index is empty when its last value is erased, and
\* AppendItems does not fill it again.
Erased(kind, size) == IF kind = "full" /\ size = 0 THEN "empty" ELSE kind

-----------------------------------------------------------------------------
\* The arcs that follow the last one of seq along right[], up to the first repetition
\* (where the loops of the code end, or do not return).
RECURSIVE Walk(_, _)
Walk(s, seq) ==
  LET a == s.right[Last(seq)]
  IN  IF a = NoArc \/ Contains(seq, a) THEN seq ELSE Walk(s, Append(seq, a))

Incidences(s, v) == IF s.first[v] = NoArc THEN <<>> ELSE Walk(s, <<s.first[v]>>)

\* The points from x on along thread[], up to the first repetition.
RECURSIVE Follow(_, _)
Follow(s, seq) ==
  LET x == s.thread[Last(seq)]
  IN  IF x = NoNode \/ Contains(seq, x) THEN seq ELSE Follow(s, Append(seq, x))

Thread(s, x) == IF x = NoNode THEN <<>> ELSE Follow(s, <<x>>)

\* Left() generates the array when it is missing.
WithLeft(s) ==
  IF s.left # <<>> THEN s
  ELSE [s EXCEPT !.left = [a \in DOMAIN s.right |->
                             LET from == {b \in DOMAIN s.right : s.right[b] = a}
                             IN  IF from = {} THEN NoArc ELSE Min(from)],
                 !.thrown = @ \/ \E a, b \in DOMAIN s.right :
                                    a # b /\ s.right[a] = s.right[b] /\ s.right[a] # NoArc]

-----------------------------------------------------------------------------
\* Insertion of the arc a behind the first arc of its start node v.
Enqueue(s, a, v) ==
  LET f == s.first[v]
  IN  IF f = NoArc
      THEN [s EXCEPT !.SN[a] = v, !.first[v] = a, !.right[a] = a,
                     !.left = IF @ = <<>> THEN @ ELSE [@ EXCEPT ![a] = a]]
      ELSE [s EXCEPT !.SN[a] = v, !.first[v] = a,
                     !.right = [@ EXCEPT ![a] = s.right[f], ![f] = a],
                     !.left = IF @ = <<>> THEN @ ELSE [@ EXCEPT ![s.right[f]] = a, ![a] = f]]

SetRouting(s, a, u, v) == Enqueue(Enqueue(s, a, u), Twin(a), v)

InsertArc(s, u, v) ==
  LET a == 2 * s.mAct
      grown == [s EXCEPT !.mAct = @ + 1,
                         !.SN = AppendItems(@, 2, NoNode), !.right = AppendItems(@, 2, NoArc),
                         !.left = IF @ = <<>> THEN @ ELSE AppendItems(@, 2, NoArc),
                         !.align = AppendItems(@, 1, NoNode),
                         !.edge = AppendItems(@, 1, Cardinality(DOMAIN @))]
  IN  SetRouting(grown, a, u, v)

-----------------------------------------------------------------------------
\* The values of u and v in an array of node indices.
Renamed(x, u, v) == IF x = u THEN v ELSE IF x = v THEN u ELSE x

Renumbered(f, u, v) == [i \in DOMAIN f |-> Renamed(f[i], u, v)]

\* The links to u and v follow the points, but only if there are arc labels; the
\* links of u and v themselves are exchanged as they are.
SwapThreads(s, u, v) ==
  SwapItems(IF s.labels = "full"
            THEN [w \in DOMAIN s.thread |->
                    IF w \in {u, v} THEN s.thread[w] ELSE Renamed(s.thread[w], u, v)]
            ELSE s.thread, u, v)

SwapNodes(s, u, v) ==
  IF u = v THEN s
  ELSE LET h == [s EXCEPT !.align = Renumbered(@, u, v), !.thread = SwapThreads(s, u, v),
                          !.id = SwapItems(@, u, v)]
           inList(w) == ToSet(Incidences(s, w))
       IN  IF u >= s.nAct \/ v >= s.nAct
           THEN [h EXCEPT !.box = Renumbered(@, u, v)]
           ELSE [h EXCEPT !.SN = [a \in DOMAIN @ |-> CASE a \in inList(v) -> u
                                                       [] a \in inList(u) -> v
                                                       [] OTHER -> @[a]],
                          !.first = SwapItems(@, u, v)]

InsertNode(s) ==
  LET h == [s EXCEPT !.nAct = @ + 1, !.lAct = @ + 1,
                     !.thread = AppendItems(@, 1, NoNode), !.id = AppendItems(@, 1, Cardinality(DOMAIN @))]
  IN  IF h.lAct > h.nAct THEN SwapNodes(h, h.nAct - 1, h.lAct - 1) ELSE h

\* The index of the new point is lAct.
InsertLayoutPoint(s) ==
  [s EXCEPT !.lAct = @ + 1, !.thread = AppendItems(@, 1, NoNode),
            !.id = AppendItems(@, 1, Cardinality(DOMAIN @))]

\* Variant: the two links are written in the opposite order.
InsertThreadSuccessorLate(s, v) ==
  LET h == InsertLayoutPoint(s)
  IN  [h EXCEPT !.threads = "full", !.thread = [@ EXCEPT ![s.lAct] = s.lAct, ![v] = s.lAct]]

InsertThreadSuccessor(s, v) ==
  LET h == InsertLayoutPoint(s)
  IN  [h EXCEPT !.threads = "full",
                !.thread = [@ EXCEPT ![s.lAct] = h.thread[v], ![v] = s.lAct]]

ProvideArcLabelAnchor(s, a) ==
  IF s.align[a \div 2] # NoNode THEN s
  ELSE [InsertLayoutPoint(s) EXCEPT !.labels = "full", !.align[a \div 2] = s.lAct]

\* The arc a becomes exterior; the lists of the nodes around its left hand face begin
\* with the arcs of this face.
RECURSIVE MarkFace(_, _, _)
MarkFace(s, exterior, a) ==
  LET b == Twin(a)
      h == [s EXCEPT !.first[s.SN[b]] = b]
  IN  IF s.right[b] = exterior THEN h ELSE MarkFace(h, exterior, s.right[b])

MarkExteriorFace(s, exterior) == MarkFace(s, exterior, exterior)

-----------------------------------------------------------------------------
\* The arc d leaves the list of its start node.
Unlink(s, d) ==
  LET l == s.left[d]
      r == s.right[d]
      h == IF d = r THEN [s EXCEPT !.first[s.SN[d]] = NoArc]
           ELSE [s EXCEPT !.right[l] = r, !.left[r] = l,
                          !.first[s.SN[d]] = IF @ = d THEN l ELSE @]
  IN  [h EXCEPT !.SN[d] = NoNode, !.right[d] = NoArc, !.left[d] = NoArc]

CancelArc(s, a) ==
  LET b == Twin(a)
      h == IF s.right[b] = b THEN s ELSE MarkExteriorFace(s, s.right[b])
  IN  Unlink(Unlink(WithLeft(h), a), b)

RECURSIVE CancelNode(_, _)
CancelNode(s, v) == IF s.first[v] = NoArc THEN s ELSE CancelNode(CancelArc(s, s.first[v]), v)

RouteArc(s, a, u, v) ==
  IF s.SN[a] = u /\ s.SN[Twin(a)] = v THEN s
  ELSE SetRouting(IF s.SN[a] # NoNode THEN CancelArc(s, a) ELSE s, a, u, v)

-----------------------------------------------------------------------------
Neighbours(s, a, l, r) == [s EXCEPT !.left[a] = l, !.right[a] = r]

\* The arc a between l and r; a cancelled arc has no neighbours.
Between(s, l, a, r) == IF r = NoArc THEN s ELSE [s EXCEPT !.left[r] = a, !.right[l] = a]

\* The two arcs change places in the lists, unless they are neighbours.  Each
\* arc is given its new neighbours, then the neighbours of the other one are told.
Relink(s, a, b) ==
  LET al == s.left[a]
      ar == s.right[a]
      bl == s.left[b]
      br == s.right[b]
      h == IF b # br THEN Between(Neighbours(s, a, bl, br), al, b, ar)
                     ELSE Neighbours(s, a, a, a)
  IN  IF al = b \/ bl = a THEN s
      ELSE IF a # ar THEN Between(Neighbours(h, b, al, ar), bl, a, br)
                     ELSE Neighbours(h, b, b, b)

\* The links of thread[] behind the label of an arc, in the opposite order.
ReverseControlPoints(s, x) ==
  LET old == Thread(s, s.thread[x])
      new == <<x>> \o Reverse(old)
  IN  IF x = NoNode \/ old = <<>> THEN s
      ELSE [s EXCEPT !.thread = [w \in DOMAIN @ |->
              IF \E i \in DOMAIN new : new[i] = w
              THEN LET i == CHOOSE j \in DOMAIN new : new[j] = w
                   IN  IF i < Len(new) THEN new[i + 1] ELSE NoNode
              ELSE @[w]]]

\* What becomes of first[]: of one node, the second arc does not look again.
SwapFirst(s, a, b) ==
  LET u1 == s.SN[a]  v1 == s.SN[Twin(a)]
      u2 == s.SN[b]  v2 == s.SN[Twin(b)]
      Replace(f, v, x, y) == IF v # NoNode /\ f[v] = x THEN [f EXCEPT ![v] = y] ELSE f
      once == Replace(Replace(s.first, u1, a, b), v1, Twin(a), Twin(b))
      twice == IF u1 # u2 THEN Replace(once, u2, b, a) ELSE once
  IN  IF v1 # v2 THEN Replace(twice, v2, Twin(b), Twin(a)) ELSE twice

SwapArcs(s, a, b) ==
  LET both(f) == IF b = Twin(a) THEN SwapItems(f, a, b)
                 ELSE SwapItems(SwapItems(f, a, b), Twin(a), Twin(b))
      h == WithLeft([s EXCEPT !.first = SwapFirst(s, a, b), !.SN = both(@)])
      k == Relink(h, a, b)
      l == IF b = Twin(a) THEN k ELSE Relink(k, Twin(a), Twin(b))
      i == a \div 2
      j == b \div 2
      m == [l EXCEPT !.align = SwapItems(@, i, j), !.edge = SwapItems(@, i, j)]
      r == ReverseControlPoints(m, m.align[i])
  IN  IF a = b THEN s
      ELSE IF a % 2 = b % 2 THEN m
      ELSE IF i = j THEN r ELSE ReverseControlPoints(r, r.align[j])

FlipArc(s, a) == SwapArcs(s, a, Twin(a))

-----------------------------------------------------------------------------
EraseLayoutNode(s, v) ==
  IF v >= s.lAct \/ v < s.nAct THEN [s EXCEPT !.thrown = TRUE]
  ELSE LET h == SwapNodes(s, v, s.lAct - 1)
       IN  [h EXCEPT !.lAct = @ - 1, !.threads = Erased(@, s.lAct - 1),
                     !.thread = EraseItems(@, 1), !.id = EraseItems(@, 1)]

\* In which order a heap with the keys -w returns the points.  A key is the double next
\* to 2^LongBits - w.  In 53 bits of mantissa the keys of 64 bits are all the same for
\* less than 1024 points, and the last item takes the place of the first one.
DeletionOrder(points) ==
  IF LongBits <= 53 THEN SortSeq(points, >)
  ELSE IF points = <<>> THEN <<>>
  ELSE <<Head(points)>> \o Reverse(Tail(points))

\* The first point out of range ends the call with an exception.
EraseLayoutNodes(s, points) ==
  FoldLeft(LAMBDA h, w : IF h.thrown THEN h ELSE EraseLayoutNode(h, w),
           [s EXCEPT !.thread = [w \in DOMAIN @ |->
                                   IF Contains(points, w) THEN NoNode ELSE @[w]]],
           DeletionOrder(points))

\* Without thread[], the label is given up but not erased.
ReleaseEdgeControlPoints(s, a) ==
  LET i == a \div 2
      points == Thread(s, s.align[i])
  IN  IF points = <<>> THEN s
      ELSE EraseLayoutNodes([s EXCEPT !.align[i] = NoNode],
                            IF s.threads = "full" THEN points ELSE <<>>)

ReleaseNodeControlPoints(s, v) ==
  LET points == Thread(s, s.thread[v])
  IN  IF points = <<>> THEN s
      ELSE EraseLayoutNodes([s EXCEPT !.thread[v] = NoNode], points)

-----------------------------------------------------------------------------
\* The last arc takes the index of the erased one.
DeleteArc(s, b) ==
  LET a == 2 * (b \div 2)
      h == ReleaseEdgeControlPoints(IF s.SN[a] = NoNode THEN s ELSE CancelArc(s, a), a)
      k == SwapArcs(h, a, 2 * h.mAct - 2)
  IN  IF h.thrown THEN h
      ELSE [k EXCEPT !.mAct = @ - 1,
                     !.SN = EraseItems(@, 2), !.right = EraseItems(@, 2),
                     !.left = EraseItems(@, 2), !.labels = Erased(@, k.mAct - 1),
                     !.align = EraseItems(@, 1), !.edge = EraseItems(@, 1)]

RECURSIVE DeleteArcsFrom(_, _)
DeleteArcsFrom(s, a) ==
  IF s.thrown \/ a >= 2 * s.mAct THEN s
  ELSE IF s.SN[a] = NoNode THEN DeleteArcsFrom(DeleteArc(s, a), a)
                           ELSE DeleteArcsFrom(s, a + 2)

DeleteArcs(s) == DeleteArcsFrom(s, 0)

DeleteGraphNode(s, v) ==
  LET h == ReleaseNodeControlPoints(CancelNode(s, v), v)
      k == SwapNodes(h, v, h.nAct - 1)
      l == IF k.lAct > k.nAct THEN SwapNodes(k, k.nAct - 1, k.lAct - 1) ELSE k
  IN  IF h.thrown THEN h
      ELSE DeleteArcs([l EXCEPT !.nAct = @ - 1, !.lAct = @ - 1,
                                !.threads = Erased(@, l.lAct - 1),
                                !.thread = EraseItems(@, 1), !.id = EraseItems(@, 1)])

\* Variant: an arc whose label is deleted gives up the points behind it.
DeleteLayoutPointFront(s, v) ==
  EraseLayoutNode([s EXCEPT !.align = [i \in DOMAIN @ |-> IF @[i] = v THEN NoNode ELSE @[i]]], v)

\* The predecessor of a point is only sought among the points.
DeleteLayoutPoint(s, v) ==
  LET anchors == {i \in DOMAIN s.align : s.align[i] = v}
      before == {j \in s.nAct .. s.lAct - 1 : s.thread[j] = v}
  IN  EraseLayoutNode(
        IF s.labels # "full" THEN s
        ELSE IF anchors # {} THEN [s EXCEPT !.align[Min(anchors)] = s.thread[v]]
        ELSE IF before # {} THEN [s EXCEPT !.thread[Min(before)] = s.thread[v]]
        ELSE s, v)

DeleteNode(s, v) == IF v < s.nAct THEN DeleteGraphNode(s, v) ELSE DeleteLayoutPoint(s, v)

RECURSIVE DeleteNodesFrom(_, _)
DeleteNodesFrom(s, v) ==
  IF s.thrown \/ v >= s.nAct THEN s
  ELSE IF s.first[v] = NoArc THEN DeleteNodesFrom(DeleteNode(s, v), v)
                             ELSE DeleteNodesFrom(s, v + 1)

DeleteNodes(s) == DeleteNodesFrom(s, 0)

-----------------------------------------------------------------------------
\* The list of the node v, from the arc d on, follows the arc c of the node u.
Splice(s, u, c, v, d) ==
  LET seq == Walk(s, <<d>>)
      h == [s EXCEPT !.SN = [a \in DOMAIN @ |-> IF Contains(seq, a) THEN u ELSE @[a]],
                     !.right = [@ EXCEPT ![Last(seq)] = s.right[c], ![c] = d],
                     !.first[v] = NoArc]
  IN  IF s.left = <<>> THEN h
      ELSE [h EXCEPT !.left = [@ EXCEPT ![s.right[c]] = Last(seq), ![d] = c]]

ContractArc(s, a) ==
  LET h == ReleaseEdgeControlPoints(s, a)
  IN  IF h.thrown THEN h
      ELSE CancelArc(Splice(h, h.SN[a], a, h.SN[Twin(a)], Twin(a)), a)

IdentifyNodes(s, u, v) == Splice(s, u, s.first[u], v, s.first[v])

\* The arcs from a2 to a3 move behind a1.
SetRight(s, a1, a2, a3) ==
  LET h == WithLeft(s)
      l2 == h.left[a2]
      r1 == h.right[a1]
      r3 == h.right[a3]
  IN  IF a1 = a2 \/ r1 = a2 THEN h
      ELSE [h EXCEPT !.right = [@ EXCEPT ![a1] = a2, ![a3] = r1, ![l2] = r3],
                     !.left  = [@ EXCEPT ![a2] = a1, ![r1] = a3, ![r3] = l2]]

SetFirst(s, v, a) == [s EXCEPT !.first[v] = a]

\* The keys decide in which order the old indices come; map[w] is where w is by then.
Reorder(s, order, Swap(_, _, _)) ==
  LET Step(acc, i) ==
        LET w == acc.map[order[i + 1]]
            old == CHOOSE x \in DOMAIN acc.map : acc.map[x] = i
        IN  [s |-> IF i = w THEN acc.s ELSE Swap(acc.s, i, w),
             map |-> [acc.map EXCEPT ![order[i + 1]] = i, ![old] = w]]
      ids == 0 .. Len(order) - 1
  IN  FoldLeft(Step, [s |-> s, map |-> [x \in ids |-> x]], [i \in 1 .. Len(order) |-> i - 1]).s

ReorderNodeIndices(s, order) == Reorder(s, order, SwapNodes)

ReorderEdgeIndices(s, order) ==
  Reorder(s, order, LAMBDA h, i, j : SwapArcs(h, 2 * i, 2 * j))

-----------------------------------------------------------------------------
Nodes == 0 .. X.nAct - 1
Arcs == 0 .. 2 * X.mAct - 1
Points == X.nAct .. X.lAct - 1
Live == {a \in Arcs : X.SN[a] # NoNode}

Init ==
  X = [nAct |-> 0, mAct |-> 0, lAct |-> 0, SN |-> <<>>, right |-> <<>>, left |-> <<>>,
       first |-> [v \in 0 .. MaxNodes - 1 |-> NoArc], labels |-> "none", threads |-> "none",
       align |-> <<>>, thread |-> <<>>, box |-> <<>>,
       edge |-> <<>>, id |-> <<>>, thrown |-> FALSE]

\* The call works on X and leaves h.
Ready == [X EXCEPT !.thrown = FALSE]

Return(h) == X' = [h EXCEPT !.edge = [i \in DOMAIN @ |-> i], !.id = [v \in DOMAIN @ |-> v]]

\* There is room for i more arcs and k more points.
Room(i, k) == LET points == X.lAct - X.nAct + k
              IN  points <= MaxPoints /\ 2 * (X.mAct + i) + points <= MaxItems

NodeInsertion == X.nAct < MaxNodes /\ Return(InsertNode(Ready))

ArcInsertion(u, v) == X.mAct < MaxArcs /\ Room(1, 0) /\ Return(InsertArc(Ready, u, v))

Cancellation(a) == a \in Live /\ Return(CancelArc(Ready, a))

NodeCancellation(v) == Return(CancelNode(Ready, v))

Routing(a, u, v) == Return(RouteArc(Ready, a, u, v))

ArcDeletion(a) == Return(DeleteArc(Ready, a))

\* A point that a node or the box refers to stays referred to.
Deletable(v) == "points" \in Careful => v \notin Range(X.box) /\ \A w \in Nodes : X.thread[w] # v

NodeDeletion(v) == Deletable(v) /\ Return(DeleteNode(Ready, v))

Packing == Return(DeleteArcs(Ready))

NodePacking == Return(DeleteNodes(Ready))

Contractible(a) == X.SN[a] # X.SN[Twin(a)]

Contraction(a) == Contractible(a) /\ Return(ContractArc(Ready, a))

\* The nodes have arcs and are different: otherwise the code leaves its arrays.
Identifiable(u, v) == u # v /\ X.first[u] # NoArc /\ X.first[v] # NoArc

Identification(u, v) == Identifiable(u, v) /\ Return(IdentifyNodes(Ready, u, v))

\* The arcs a1, a2, a3 come in this order, as the declaration demands.  It is enough
\* to try the first arc of a list since SetFirst() makes every arc the first one.
InSequence(a1, a2, a3) ==
  /\ {a1, a2, a3} \subseteq Live /\ X.first[X.SN[a1]] = a1
  /\ LET seq == Walk(X, <<a1>>)
     IN  \E i, j \in DOMAIN seq : i <= j /\ seq[i] = a2 /\ seq[j] = a3

Move(a1, a2, a3) == InSequence(a1, a2, a3) /\ Return(SetRight(Ready, a1, a2, a3))

Beginning(a) == a \in Live /\ Return(SetFirst(Ready, X.SN[a], a))

\* Two places in the lists that Relink exchanges correctly.
Exchangeable(a, b) ==
  IF X.right[a] = b \/ X.right[b] = a THEN X.right[a] = b /\ X.right[b] = a
  ELSE (X.right[a] = a) <=> (X.right[b] = b)

Flippable(a) == "arcs" \in Careful => a \in Live /\ Exchangeable(a, Twin(a))

Reversal(a) == Flippable(a) /\ Return(FlipArc(Ready, a))

\* A careful caller exchanges two edges.
Reorderable(order) ==
  "arcs" \in Careful => \E i, j \in 0 .. X.mAct - 1 :
               /\ i < j /\ {2 * i, 2 * j} \subseteq Live
               /\ order = SwapItems([k \in 1 .. X.mAct |-> k - 1], i + 1, j + 1)
               /\ Exchangeable(2 * i, 2 * j) /\ Exchangeable(2 * i + 1, 2 * j + 1)

EdgeReordering(order) == Reorderable(order) /\ Return(ReorderEdgeIndices(Ready, order))

NodeReordering(order) == Return(ReorderNodeIndices(Ready, order))

\* An attribute that lost all its values is an array without entries, to which the
\* code then writes.
Labelling(a) == Room(0, 1) /\ X.labels # "empty" /\ Return(ProvideArcLabelAnchor(Ready, a))

Bend(v) == /\ Room(0, 1) /\ X.threads # "empty"
           /\ Return(InsertThreadSuccessor(Ready, v))

Straightening(a) == Return(ReleaseEdgeControlPoints(Ready, a))

NodeStraightening(v) == Return(ReleaseNodeControlPoints(Ready, v))

Boxing == /\ Room(0, 2) /\ X.box = <<>>
          /\ Return([InsertLayoutPoint(InsertLayoutPoint(Ready)) EXCEPT
                     !.box = <<X.lAct, X.lAct + 1>>])

\* The point with the larger index first, its own renaming does not reach the other.
Unboxing == /\ X.box # <<>>
            /\ LET hi == Max(Range(X.box))
                   lo == Min(Range(X.box))
               IN  Return([DeleteNode(DeleteNode(Ready, hi), lo) EXCEPT !.box = <<>>])

Orders(k) == {order \in [1 .. k -> 0 .. k - 1] : IsInjective(order)}

\* Careful callers draw points only next to arc labels, and do not delete the last arc
\* before the points of the nodes.
Renamable == X.labels = "full" \/ \A w \in DOMAIN X.thread : X.thread[w] = NoNode

Call ==
  \/ NodeInsertion \/ Packing \/ NodePacking \/ Boxing \/ Unboxing
  \/ \E u, v \in Nodes : ArcInsertion(u, v) \/ Identification(u, v)
  \/ \E v \in Nodes : NodeCancellation(v) \/ NodeStraightening(v)
  \/ \E v \in Nodes \cup Points : NodeDeletion(v) \/ Bend(v)
  \/ \E a \in Arcs : \/ Cancellation(a) \/ ArcDeletion(a) \/ Contraction(a) \/ Beginning(a)
                     \/ Reversal(a) \/ Labelling(a) \/ Straightening(a)
  \/ \E a \in Arcs : \E u, v \in Nodes : Routing(a, u, v)
  \/ \E a1, a2, a3 \in Arcs : Move(a1, a2, a3)
  \/ \E order \in Orders(X.nAct) : NodeReordering(order)
  \/ \E order \in Orders(X.mAct) : EdgeReordering(order)

Next == Call /\ ("points" \in Careful => Renamable')

Spec == Init /\ [][Next]_X

-----------------------------------------------------------------------------
\* EraseLayoutNode() is called with points that exist (otherwise the exception leaves
\* a half deleted list of points to everybody).
NoCallFails == ~X.thrown

\* The arrays have the lengths that the numbers of items say, and indices in them
\* are in range.
TypeOK ==
  /\ X.nAct \in 0 .. MaxNodes /\ X.lAct - X.nAct \in 0 .. MaxPoints
  /\ X.mAct \in 0 .. MaxArcs
  /\ X.SN \in [Arcs -> Nodes \cup {NoNode}]
  /\ X.right \in [Arcs -> Arcs \cup {NoArc}]
  /\ X.left \in [Arcs -> Arcs \cup {NoArc}] \cup {<<>>}
  /\ X.align \in [0 .. X.mAct - 1 -> Points \cup {NoNode}]
  /\ X.thread \in [0 .. X.lAct - 1 -> Points \cup {NoNode}]
  /\ Range(X.box) \subseteq Points
  /\ NoCallFails

\* Every node has one circular list of its arcs, first[] begins it, no other list
\* contains them, and left[] is the inverse of right[].
ListsAreRings ==
  /\ \A v \in 0 .. MaxNodes - 1 :
       LET list == Incidences(X, v)
       IN  /\ ToSet(list) = {a \in Arcs : X.SN[a] = v}
           /\ list # <<>> => X.right[Last(list)] = X.first[v]
  /\ \A a \in Arcs : \/ X.SN[a] = NoNode /\ X.right[a] = NoArc /\ X.SN[Twin(a)] = NoNode
                     \/ X.left # <<>> => X.left[X.right[a]] = a

\* No layout point belongs to two arcs, to an arc and a node, or twice to one of
\* them, and every list of control points ends.
PointsHaveOneOwner ==
  LET owners(p) == {<<"arc", i>> : i \in {j \in 0 .. X.mAct - 1 : X.align[j] = p}}
                     \cup {<<"point", w>> : w \in {u \in Nodes \cup Points : X.thread[u] = p}}
                     \cup {<<"box", i>> : i \in {j \in DOMAIN X.box : X.box[j] = p}}
  IN  \A p \in Points : /\ Cardinality(owners(p)) <= 1
                        /\ X.thread[Last(Thread(X, p))] = NoNode

\* Whatever was inserted, swapped, erased, contracted and renumbered: the lists of arcs are
\* rings and the lists of control points are disjoint and end.
ListsAreSound == ListsAreRings /\ PointsHaveOneOwner

-----------------------------------------------------------------------------
Plane == INSTANCE PlaneMap

Where(f) == [y \in Range(f) |-> CHOOSE x \in DOMAIN f : f[x] = y]

\* What the indices stand for.
MapOf(s) ==
  LET live == {a \in DOMAIN s.SN : s.SN[a] # NoNode}
      dart == [a \in live |-> <<s.edge[a \div 2], a % 2>>]
      names(points) == [i \in DOMAIN points |-> s.id[points[i]]]
      at == Where(dart)
      node == Where(s.id)
      edge == Where(s.edge)
  IN  [nodes |-> {s.id[v] : v \in 0 .. s.nAct - 1},
       at |-> [d \in Range(dart) |-> s.id[s.SN[at[d]]]],
       next |-> [d \in Range(dart) |-> dart[s.right[at[d]]]],
       bends |-> [e \in Range(s.edge) |-> names(Thread(s, s.align[edge[e]]))],
       corners |-> [x \in {s.id[v] : v \in 0 .. s.nAct - 1} |-> names(Thread(s, s.thread[node[x]]))],
       box |-> names(s.box)]

\* The methods do to the graph and its drawing what their declarations say: they
\* insert, detach, remove, join, turn and rename what they are told, and every
\* other edge, node and control point, and the embedding of the other arcs, is
\* the same as before, though the indices of all of them may have changed.
CallsActOnTheMap ==
  LET m == MapOf(X)
      D(a) == <<a \div 2, a % 2>>
      new == X.lAct
      Emptied(h, N) == Plane!RemoveNodes(Plane!RemoveEdges(h, Plane!Cancelled(h)), N)
  IN  /\ MapOf(InsertNode(Ready)) = Plane!AddNode(m, new)
      /\ MapOf(DeleteArcs(Ready)) = Plane!RemoveEdges(m, Plane!Cancelled(m))
      /\ MapOf(DeleteNodes(Ready)) =
           IF Plane!Isolated(m) = {} THEN m ELSE Emptied(m, Plane!Isolated(m))
      /\ \A u, v \in Nodes :
           /\ MapOf(InsertArc(Ready, u, v)) \in Plane!AddEdge(m, X.mAct, u, v)
           /\ Identifiable(u, v) => MapOf(IdentifyNodes(Ready, u, v)) \in Plane!Identify(m, u, v)
      /\ \A v \in Nodes :
           LET cut == Plane!Detach(m, Plane!EdgesAt(m, v))
           IN  /\ MapOf(CancelNode(Ready, v)) = cut
               /\ MapOf(DeleteNode(Ready, v)) = Emptied(cut, {v})
               /\ MapOf(ReleaseNodeControlPoints(Ready, v)) = Plane!DrawNode(m, v, <<>>)
      /\ \A a \in Arcs :
           LET e == a \div 2
               cut == Plane!Detach(m, {e})
           IN  /\ a \in Live => MapOf(CancelArc(Ready, a)) = cut
               /\ MapOf(DeleteArc(Ready, a)) = Plane!RemoveEdges(m, {e})
               /\ MapOf(ReleaseEdgeControlPoints(Ready, a)) = Plane!Draw(m, e, <<>>)
               /\ X.labels # "empty" =>
                    MapOf(ProvideArcLabelAnchor(Ready, a)) =
                      Plane!Draw(m, e, IF m.bends[e] = <<>> THEN <<new>> ELSE m.bends[e])
               /\ Contractible(a) => MapOf(ContractArc(Ready, a)) = Plane!Contract(m, D(a))
               /\ Flippable(a) => MapOf(FlipArc(Ready, a)) = Plane!Flip(m, e)
               /\ \A u, v \in Nodes :
                    IF X.SN[a] = u /\ X.SN[Twin(a)] = v THEN RouteArc(Ready, a, u, v) = Ready
                    ELSE MapOf(RouteArc(Ready, a, u, v)) \in
                           IF a % 2 = 0 THEN Plane!Attach(cut, e, u, v)
                                        ELSE Plane!Attach(cut, e, v, u)
      /\ \A p \in Points : Deletable(p) => MapOf(DeleteNode(Ready, p)) = Plane!RemovePoint(m, p)
      /\ \A v \in Nodes \cup Points :
           X.threads # "empty" => MapOf(InsertThreadSuccessor(Ready, v)) = Plane!AddPoint(m, v, new)
      /\ \A a1, a2, a3 \in Live :
           InSequence(a1, a2, a3) =>
             Plane!Rearranged(m, MapOf(SetRight(Ready, a1, a2, a3)), X.SN[a1])
      /\ \A order \in Orders(X.nAct) : MapOf(ReorderNodeIndices(Ready, order)) = m
      /\ \A order \in Orders(X.mAct) :
           Reorderable(order) => MapOf(ReorderEdgeIndices(Ready, order)) = m
=============================================================================
