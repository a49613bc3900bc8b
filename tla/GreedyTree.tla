------------------------------ MODULE GreedyTree ------------------------------
(***************************************************************************)
(* MST_Prim and MST_Kruskal (lib_src/solveMinTree.cpp), for spanning trees *)
(* and for one cycle trees, where two arcs at the root are chosen apart    *)
(* from a tree of the other nodes.                                         *)
(*                                                                         *)
(* A heap is the set of its members: it gives any of those with the least  *)
(* key.  The order in which a node lists its arcs is open.                 *)
(***************************************************************************)
EXTENDS SpanningTree

VARIABLES dist,       \* distance labels times sign
          queue,      \* nodes with a finite label, or arcs, that wait
          first,      \* where the tree starts, the node r2 of the code
          todo,       \* arcs that a loop has not yet read
          picks,      \* the arcs a1, a2 at the root
          fixed,      \* fixedArcs
          set         \* the sets of the partition

greedy == <<dist, queue, first, todo, picks, fixed, set>>

Prims == {"PRIM", "PRIM2"}

Better(d, e) == Cost(d) < Cost(e)

\* How the arcs at the root are selected: MST_Prim prefers mandatory arcs ...
PrimPicks(d) ==
  LET a1 == picks[1]  a2 == picks[2]
  IN  IF a1 = NoArc \/ IsMandatory(d) \/ (Better(d, a1) /\ ~IsMandatory(a1)) THEN <<d, a1>>
      ELSE IF a2 = NoArc \/ (Better(d, a2) /\ ~IsMandatory(a2)) THEN <<a1, d>>
      ELSE picks

\* ... and MST_Kruskal does not.
KruskalPicks(d) ==
  LET a1 == picks[1]  a2 == picks[2]
  IN  IF a1 = NoArc \/ Better(d, a1) THEN <<d, a1>>
      ELSE IF a2 = NoArc \/ Better(d, a2) THEN <<a1, d>>
      ELSE picks

PickAtRoot ==
  /\ pc = "pick"
  /\ \E d \in todo : /\ picks' = IF method \in Prims THEN PrimPicks(d) ELSE KruskalPicks(d)
                     /\ todo' = todo \ {d}
  /\ UNCHANGED <<instance, pc, outcome, dist, queue, first, fixed, set>>

-----------------------------------------------------------------------------
\* MST_Prim.
PrimStart ==
  /\ pc = "start" /\ method \in Prims
  /\ method' = IF mandatory # {} THEN "PRIM2" ELSE method
  /\ pred' = [v \in Nodes |-> NoArc] /\ first' = r
  /\ dist' = [v \in Nodes |-> IF v = r /\ ~cycle THEN 0 ELSE Inf]
  /\ sum' = 0 /\ rank' = 0
  /\ IF cycle THEN pc' = "pick" /\ todo' = Leaving(r) /\ queue' = {}
              ELSE pc' = "expand" /\ todo' = {} /\ queue' = {r}
  /\ picks' = <<NoArc, NoArc>>
  /\ UNCHANGED <<len, usable, mandatory, directed, cycle, sign, sub, fixed, set>>

\* There is no cycle through the root.
PrimNoCycle ==
  /\ pc = "pick" /\ todo = {} /\ method \in Prims /\ picks[2] = NoArc
  /\ sum' = Failure
  /\ pc' = "add"
  /\ UNCHANGED <<instance, pred, sub, rank, greedy>>

PrimCycle ==
  /\ pc = "pick" /\ todo = {} /\ method \in Prims /\ picks[2] # NoArc
  /\ LET a1 == picks[1]  a2 == picks[2]
     IN  /\ first' = EndNode(a1)
         /\ pred' = [pred EXCEPT ![EndNode(a1)] = a1, ![r] = Opposite(a2)]
         /\ sum' = len[a1[1]] + len[a2[1]]
  /\ dist' = [dist EXCEPT ![r] = -Inf, ![first'] = 0]
  /\ queue' = {first'} /\ rank' = 1
  /\ pc' = "expand"
  /\ UNCHANGED <<instance, sub, todo, picks, fixed, set>>

\* A mandatory arc goes first.
Key(d) == IF method = "PRIM2" /\ IsMandatory(d) THEN -Inf ELSE Cost(d)

\* The arcs from u to v that give v a better label.
Improving(u, v) ==
  Cheapest({d \in Leaving(u) : EndNode(d) = v /\ Key(d) < dist[v]}, Key)

Improved(u) == {v \in Nodes : Improving(u, v) # {}}

\* The basic version takes the first of the nodes with the least label.
Nearest ==
  LET near == {v \in queue : \A w \in queue : dist[v] <= dist[w]}
  IN  IF method = "PRIM" THEN {v \in near : \A w \in near : v <= w} ELSE near

\* The basic version adds up labels, the other one the lengths of predecessor arcs.
Gain(u) == IF method = "PRIM" THEN sign * dist[u]
           ELSE IF u = first THEN 0 ELSE len[pred[u][1]]

\* The label of a node in the tree is as good as can be.  Of parallel arcs that are equally
\* short, the one that is read first becomes the predecessor.
PrimExpand ==
  /\ pc = "expand"
  /\ \E u \in Nearest :
       /\ sum' = sum + Gain(u) /\ rank' = rank + 1
       /\ queue' = (queue \ {u}) \cup Improved(u)
       /\ \E c \in [Improved(u) -> Leaving(u)] :
            /\ \A v \in Improved(u) : c[v] \in Improving(u, v)
            /\ pred' = [v \in Nodes |-> IF v \in Improved(u) THEN c[v] ELSE pred[v]]
            /\ dist' = [v \in Nodes |-> IF v = u THEN -Inf
                                        ELSE IF v \in Improved(u) THEN Key(c[v]) ELSE dist[v]]
  /\ UNCHANGED <<instance, pc, sub, first, todo, picks, fixed, set>>

PrimEnd ==
  /\ pc = "expand" /\ queue = {}
  /\ sum' = IF rank < N THEN Failure ELSE sum
  /\ pc' = "add"
  /\ UNCHANGED <<instance, pred, sub, rank, greedy>>

\* AddToSubgraph(), after InitSubgraph().
AddToSubgraph ==
  /\ pc = "add"
  /\ sub' = mandatory \cup {pred[v][1] : v \in {w \in Nodes : pred[w] # NoArc}}
  /\ pc' = "done"
  /\ UNCHANGED <<instance, pred, sum, rank, greedy>>

-----------------------------------------------------------------------------
\* MST_Kruskal.
KruskalStart ==
  /\ pc = "start" /\ method = "KRUSKAL"
  /\ sub' = mandatory /\ set' = [v \in Nodes |-> {v}]
  /\ sum' = 0 /\ rank' = 0
  /\ todo' = {a \in mandatory : cycle => r \notin {From[a], To[a]}}
  /\ queue' = usable
  /\ pc' = "mandatory"
  /\ UNCHANGED <<instance, pred, dist, first, picks, fixed>>

Merge(u, v) ==
  LET both == set[u] \cup set[v]
  IN  set' = [x \in Nodes |-> IF x \in both THEN both ELSE set[x]]

MergeMandatory ==
  /\ pc = "mandatory"
  /\ \E a \in todo : /\ set[From[a]] # set[To[a]]
                     /\ Merge(From[a], To[a])
                     /\ sum' = sum + len[a] /\ rank' = rank + 1
                     /\ todo' = todo \ {a}
  /\ UNCHANGED <<instance, pc, pred, sub, dist, queue, first, picks, fixed>>

FixedSubtour ==
  /\ pc = "mandatory"
  /\ \E a \in todo : set[From[a]] = set[To[a]]
  /\ sum' = Failure
  /\ pc' = "done"
  /\ UNCHANGED <<instance, pred, sub, rank, greedy>>

MandatoryMerged ==
  /\ pc = "mandatory" /\ todo = {}
  /\ pc' = "greedy"
  /\ UNCHANGED <<instance, outcome, greedy>>

Contract(a) == Merge(From[a], To[a])

\* In a one cycle tree the root is not merged: it is canonical for itself alone.
Contractible(a) ==
  LET Bu == set[From[a]]  Bv == set[To[a]]
  IN  Bu # Bv /\ (cycle => Bu # {r} /\ Bv # {r})

KruskalStep ==
  /\ pc = "greedy" /\ rank < N - 1
  /\ \E a \in Cheapest(queue, LAMBDA b : sign * len[b]) :
       /\ queue' = queue \ {a}
       /\ IF Contractible(a)
          THEN /\ Contract(a)
               /\ sub' = sub \cup {a} /\ sum' = sum + len[a] /\ rank' = rank + 1
          ELSE UNCHANGED <<set, sub, sum, rank>>
  /\ UNCHANGED <<instance, pc, pred, dist, first, todo, picks, fixed>>

GreedyEnds == pc = "greedy" /\ (rank >= N - 1 \/ queue = {})

KruskalEnd ==
  /\ GreedyEnds /\ ~cycle
  /\ sum' = IF rank < N - 1 THEN Failure ELSE sum
  /\ pc' = IF rank < N - 1 THEN "done" ELSE "extract"
  /\ UNCHANGED <<instance, pred, sub, rank, greedy>>

\* n - 2 is unsigned: with a single node it is huge.
CutNode ==
  /\ GreedyEnds /\ cycle /\ (rank < N - 2 \/ N = 1)
  /\ sum' = Failure
  /\ pc' = "done"
  /\ UNCHANGED <<instance, pred, sub, rank, greedy>>

KruskalPick ==
  /\ GreedyEnds /\ cycle /\ rank >= N - 2 /\ N > 1
  /\ picks' = <<NoArc, NoArc>> /\ todo' = Leaving(r)
  /\ pc' = "pick"
  /\ UNCHANGED <<instance, outcome, dist, queue, first, fixed, set>>

\* Now the mandatory arcs at the root are looked for.
KruskalPicked ==
  /\ pc = "pick" /\ todo = {} /\ method = "KRUSKAL"
  /\ todo' = {d \in Darts : StartNode(d) = r /\ IsMandatory(d)} /\ fixed' = 0
  /\ pc' = "fix"
  /\ UNCHANGED <<instance, outcome, dist, queue, first, picks, set>>

FixArc ==
  /\ pc = "fix"
  /\ \E d \in todo :
       /\ todo' = todo \ {d}
       /\ IF d \in {picks[1], picks[2]} THEN UNCHANGED <<picks, fixed>>
          ELSE picks' = <<d, picks[1]>> /\ fixed' = fixed + 1
  /\ UNCHANGED <<instance, pc, outcome, dist, queue, first, set>>

KruskalNoCycle ==
  /\ pc = "fix" /\ todo = {} /\ (fixed > 2 \/ picks[2] = NoArc)
  /\ sum' = Failure
  /\ pc' = "done"
  /\ UNCHANGED <<instance, pred, sub, rank, greedy>>

KruskalCycle ==
  /\ pc = "fix" /\ todo = {} /\ fixed <= 2 /\ picks[2] # NoArc
  /\ LET a1 == picks[1][1]  a2 == picks[2][1]
     IN  sub' = sub \cup {a1, a2} /\ sum' = sum + len[a1] + len[a2]
  /\ rank' = rank + 2
  /\ pc' = "extract"
  /\ UNCHANGED <<instance, pred, greedy>>

-----------------------------------------------------------------------------
\* ExtractTree(): the subgraph is searched from the root; "first" is the current node,
\* "todo" the arcs that have not been read.  Arcs that are not in the subgraph are skipped.
ExtractStart ==
  /\ pc = "extract"
  /\ pred' = [v \in Nodes |-> NoArc]
  /\ first' = r
  /\ todo' = {d \in Darts : d[1] \in sub /\ ~Blocking(d)}
  /\ pc' = "search"
  /\ UNCHANGED <<instance, sub, sum, rank, dist, queue, picks, fixed, set>>

Unread == {d \in todo : StartNode(d) = first}

Follows(d) == pred[first] # NoArc => d # Opposite(pred[first])

ExtractRead ==
  /\ pc = "search"
  /\ \E d \in Unread :
       LET u == EndNode(d)
       IN  /\ todo' = todo \ {d}
           /\ IF ~Follows(d) THEN UNCHANGED <<pred, first, pc>>
              ELSE IF pred[u] = NoArc
                   THEN /\ pred' = [pred EXCEPT ![u] = d]
                        /\ first' = IF u # r THEN u ELSE first
                        /\ pc' = pc
                   ELSE pc' = "done" /\ UNCHANGED <<pred, first>>
  /\ UNCHANGED <<instance, sub, sum, rank, dist, queue, picks, fixed, set>>

ExtractBack ==
  /\ pc = "search" /\ Unread = {} /\ first # r
  /\ first' = StartNode(pred[first])
  /\ UNCHANGED <<instance, pc, outcome, dist, queue, todo, picks, fixed, set>>

ExtractEnd ==
  /\ pc = "search" /\ Unread = {} /\ first = r
  /\ pc' = "done"
  /\ UNCHANGED <<instance, outcome, greedy>>

-----------------------------------------------------------------------------
PrimStep == \/ PrimStart \/ PrimNoCycle \/ PrimCycle \/ PrimExpand \/ PrimEnd
            \/ AddToSubgraph

KruskalCall == \/ KruskalStart \/ MergeMandatory \/ FixedSubtour \/ MandatoryMerged
               \/ KruskalStep \/ KruskalEnd \/ CutNode \/ KruskalPick
               \/ KruskalPicked \/ FixArc \/ KruskalNoCycle \/ KruskalCycle
               \/ ExtractStart \/ ExtractRead \/ ExtractBack \/ ExtractEnd

GreedyStep == PrimStep \/ KruskalCall \/ PickAtRoot
=============================================================================
