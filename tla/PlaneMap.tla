------------------------------ MODULE PlaneMap ------------------------------
(***************************************************************************)
(* What the methods of a sparse graph promise to their callers             *)
(* (include/sparseRepresentation.h), without indices.  A map m has         *)
(*   nodes      the nodes,                                                 *)
(*   at         the node where a dart starts: the edge e has the darts     *)
(*              <<e, 0>> and <<e, 1>>, its forward and its reverse arc,    *)
(*   next       the next dart at the same node, which is the embedding,    *)
(*   bends      the label of an edge and its control points behind it (an  *)
(*              edge may have no darts: then it is cancelled),             *)
(*   corners    the control points of a node,                              *)
(*   box        the corners of the bounding box.                           *)
(* An operation yields the map afterwards, or the set of the maps that it  *)
(* may choose from.                                                        *)
(***************************************************************************)
EXTENDS Integers, Sequences, SequencesExt, FiniteSetsExt, Functions

Opposite(d) == <<d[1], 1 - d[2]>>

Darts(E) == E \X {0, 1}

Edges(m) == DOMAIN m.bends

Cancelled(m) == Edges(m) \ {d[1] : d \in DOMAIN m.at}

DartsAt(m, x) == {d \in DOMAIN m.at : m.at[d] = x}

EdgesAt(m, x) == {d[1] : d \in DartsAt(m, x)}

Isolated(m) == {x \in m.nodes : DartsAt(m, x) = {}}

Excluding(f, S) == Restrict(f, DOMAIN f \ S)

Extended(f, x, y) == [z \in DOMAIN f \cup {x} |-> IF z = x THEN y ELSE f[z]]

\* One circular list per node.
Rotation(m) == \A c \in DOMAIN m.at :
  LET orbit[k \in Nat] == IF k = 0 THEN {c} ELSE orbit[k - 1] \cup {m.next[x] : x \in orbit[k - 1]}
  IN  orbit[Cardinality(DOMAIN m.at)] = DartsAt(m, m.at[c])

-----------------------------------------------------------------------------
AddNode(m, x) == [m EXCEPT !.nodes = @ \cup {x}, !.corners = Extended(@, x, <<>>)]

\* The new dart c follows any dart of x.
AddDart(m, c, x) ==
  LET behind(d) == [m EXCEPT !.at = Extended(@, c, x),
                             !.next = Extended([@ EXCEPT ![d] = c], c, m.next[d])]
      alone == [m EXCEPT !.at = Extended(@, c, x), !.next = Extended(@, c, c)]
  IN  IF DartsAt(m, x) = {} THEN {alone} ELSE {behind(d) : d \in DartsAt(m, x)}

Attach(m, e, x, y) == UNION {AddDart(k, <<e, 1>>, y) : k \in AddDart(m, <<e, 0>>, x)}

AddEdge(m, e, x, y) == Attach([m EXCEPT !.bends = Extended(@, e, <<>>)], e, x, y)

Detach(m, E) ==
  LET D == Darts(E) \cap DOMAIN m.at
      after[d \in DOMAIN m.at] == IF m.next[d] \in D THEN after[m.next[d]] ELSE m.next[d]
  IN  [m EXCEPT !.at = Excluding(@, D), !.next = [d \in DOMAIN @ \ D |-> after[d]]]

RemoveEdges(m, E) == [Detach(m, E) EXCEPT !.bends = Excluding(@, E)]

RemoveNodes(m, N) == [m EXCEPT !.nodes = @ \ N, !.corners = Excluding(@, N)]

\* The darts of y move to x, where d follows c; y stays.
Merge(m, x, c, y, d) ==
  LET last == CHOOSE z \in DOMAIN m.next : m.next[z] = d
  IN  [m EXCEPT !.next = [@ EXCEPT ![c] = d, ![last] = m.next[c]],
                !.at = [z \in DOMAIN @ |-> IF @[z] = y THEN x ELSE @[z]]]

Identify(m, x, y) == {Merge(m, x, c, y, d) : c \in DartsAt(m, x), d \in DartsAt(m, y)}

Draw(m, e, points) == [m EXCEPT !.bends[e] = points]

DrawNode(m, x, points) == [m EXCEPT !.corners[x] = points]

\* The ends of the dart c become one node, and the order around them is kept.
Contract(m, c) ==
  LET o == Opposite(c)
  IN  Draw(Detach(Merge(m, m.at[c], c, m.at[o], o), {c[1]}), c[1], <<>>)

\* Forward and reverse arc change roles; the edge is drawn as before.
Flip(m, e) ==
  LET turn(d) == IF d[1] = e THEN Opposite(d) ELSE d
  IN  [m EXCEPT !.at = [d \in DOMAIN @ |-> @[turn(d)]],
                !.next = [d \in DOMAIN @ |-> turn(@[turn(d)])],
                !.bends = [@ EXCEPT ![e] = IF @ = <<>> THEN @ ELSE <<Head(@)>> \o Reverse(Tail(@))]]

\* h is m with some order of the darts at x.
Rearranged(m, h, x) ==
  /\ h = [m EXCEPT !.next = h.next]
  /\ \A d \in DOMAIN m.at : m.at[d] # x => h.next[d] = m.next[d]
  /\ Rotation(h)

-----------------------------------------------------------------------------
OnPoints(m, Op(_)) == [m EXCEPT !.bends = [e \in DOMAIN @ |-> Op(@[e])],
                                !.corners = [x \in DOMAIN @ |-> Op(@[x])]]

\* The point p behind x, which is a point or a node.
AddPoint(m, x, p) ==
  LET insert(s) == IF Contains(s, x) THEN InsertAt(s, SelectInSeq(s, LAMBDA y : y = x) + 1, p)
                   ELSE s
  IN  IF x \in m.nodes THEN DrawNode(m, x, <<p>> \o m.corners[x]) ELSE OnPoints(m, insert)

RemovePoint(m, p) == OnPoints(m, LAMBDA s : Remove(s, p))
=============================================================================
