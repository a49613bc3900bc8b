---------------------------- MODULE FibonacciHeap ----------------------------
(***************************************************************************)
(* lib_src/fibonacciHeap.cpp: a list of heap-ordered trees.                *)
(*                                                                         *)
(* The lists firstLink, nextLink and first, next, previous are sequences   *)
(* here, roots and children.  What the code leaves in an array but does    *)
(* not read any more is forgotten: pred of a root, the key and the rank of *)
(* an item that is not queued, and bucket between two calls of Restore.    *)
(***************************************************************************)
EXTENDS Naturals, SequencesExt

CONSTANTS Items, Keys, NoItem,   \* NoItem is UNDEFINED in the code
          Unset

VARIABLES heap, returned

Ranks == 0 .. Cardinality(Items)
NoBuckets == [r \in Ranks |-> NoItem]

Empty == [roots |-> <<>>, children |-> [w \in Items |-> <<>>], pred |-> [w \in Items |-> NoItem],
          rank |-> [w \in Items |-> 0], status |-> [w \in Items |-> "NOT_QUEUED"],
          bucket |-> NoBuckets, minimal |-> NoItem, key |-> [w \in Items |-> Unset]]

\* There is a minimum unless the heap is empty.
TypeOK ==
  /\ heap \in [roots : Seq(Items), children : [Items -> Seq(Items)],
               pred : [Items -> Items \cup {NoItem}], rank : [Items -> Ranks],
               status : [Items -> {"UNMARKED_CHILD", "MARKED_CHILD", "ROOT_NODE", "NOT_QUEUED"}],
               bucket : {NoBuckets}, minimal : Items \cup {NoItem},
               key : [Items -> Keys \cup {Unset}]]
  /\ \A w \in Items : heap.status[w] = "NOT_QUEUED" <=> heap.key[w] = Unset
  /\ heap.minimal = NoItem <=> \A w \in Items : heap.status[w] = "NOT_QUEUED"

IsChild(h, w) == h.status[w] \in {"UNMARKED_CHILD", "MARKED_CHILD"}
Members == {w \in Items : heap.status[w] # "NOT_QUEUED"}

Contents == [w \in Members |-> heap.key[w]]

Peek == heap.minimal

\* The trees are what the lists, pred, status and rank say, and keys do not
\* decrease towards the leaves.
Ordered ==
  /\ IsInjective(heap.roots)
  /\ {heap.roots[i] : i \in DOMAIN heap.roots} = {w \in Items : heap.status[w] = "ROOT_NODE"}
  /\ \A w \in Items : /\ IsInjective(heap.children[w])
                      /\ {heap.children[w][i] : i \in DOMAIN heap.children[w]} =
                           {u \in Items : IsChild(heap, u) /\ heap.pred[u] = w}
                      /\ w \in Members => heap.rank[w] = Len(heap.children[w])
  /\ \A u \in Items : IsChild(heap, u) => /\ heap.pred[u] \in Members
                                          /\ heap.key[heap.pred[u]] <= heap.key[u]

\* The size of the subtree of w.
SubtreeSize ==
  LET size[d \in 0 .. Cardinality(Items), w \in Items] ==
        IF d = 0 THEN 1
        ELSE FoldLeft(LAMBDA n, u : n + size[d - 1, u], 1, heap.children[w])
  IN  [w \in Items |-> size[Cardinality(Items), w]]

Fibonacci == LET f[i \in Ranks] == IF i < 2 THEN i + 1 ELSE f[i - 1] + f[i - 2] IN f

\* A tree of rank r has at least as many nodes as the Fibonacci number says,
\* since a node that is no root has lost at most one child: ranks are
\* logarithmic, and bucket is long enough.
TreesAreLarge == \A w \in Members : SubtreeSize[w] >= Fibonacci[heap.rank[w]]

-----------------------------------------------------------------------------
WithMinimum(h, w) ==
  IF h.minimal = NoItem \/ h.key[w] < h.key[h.minimal] THEN [h EXCEPT !.minimal = w] ELSE h

Push(h, w) == [h EXCEPT !.roots = <<w>> \o @]

\* The root of larger key becomes the first child of the other one, until there
\* is no other root of the same rank.
RECURSIVE Link(_, _, _)
Link(h, v, w) ==
  LET child == IF h.key[v] < h.key[w] THEN w ELSE v
      root == IF h.key[v] < h.key[w] THEN v ELSE w
      r == h.rank[root] + 1
      bucket == [i \in Ranks |-> IF h.bucket[i] \in {v, w} /\ i = h.rank[h.bucket[i]]
                                 THEN NoItem ELSE h.bucket[i]]
      linked == [h EXCEPT !.bucket = bucket, !.pred[child] = root, !.status[child] = "UNMARKED_CHILD",
                          !.children[root] = <<child>> \o @, !.rank[root] = r]
  IN  IF bucket[r] = NoItem THEN [linked EXCEPT !.bucket[r] = root]
                            ELSE Link(linked, root, bucket[r])

\* Roots of equal rank are linked, what is no root any more leaves the list.
Consolidated(h) ==
  LET Visit(g, x) == IF g.status[x] # "ROOT_NODE" THEN g
                     ELSE IF g.bucket[g.rank[x]] = NoItem THEN [g EXCEPT !.bucket[g.rank[x]] = x]
                     ELSE Link(g, x, g.bucket[g.rank[x]])
      linked == FoldLeft(Visit, [h EXCEPT !.bucket = NoBuckets], h.roots)
  IN  [linked EXCEPT !.roots = SelectSeq(@, LAMBDA x : linked.status[x] = "ROOT_NODE"),
                     !.bucket = NoBuckets, !.minimal = NoItem]

Restore(h) == LET g == Consolidated(h) IN FoldLeft(WithMinimum, g, g.roots)

\* Variant: the second cut of a child does not cascade.
CutWithoutCascade(h, v) ==
  LET x == h.pred[v]
      apart == [Push(h, v) EXCEPT !.children[x] = SelectSeq(@, LAMBDA u : u # v),
                                  !.pred[v] = NoItem, !.status[v] = "ROOT_NODE"]
  IN  [WithMinimum(apart, v) EXCEPT !.rank[x] = @ - 1]

\* v becomes a root; so does its parent, if v is the second child it loses.
RECURSIVE Cut(_, _)
Cut(h, v) ==
  LET x == h.pred[v]
      apart == [Push(h, v) EXCEPT !.children[x] = SelectSeq(@, LAMBDA u : u # v),
                                  !.pred[v] = NoItem, !.status[v] = "ROOT_NODE"]
      root == WithMinimum(apart, v)
      cut == CASE root.status[x] = "MARKED_CHILD" -> Cut(root, x)
               [] root.status[x] = "UNMARKED_CHILD" -> [root EXCEPT !.status[x] = "MARKED_CHILD"]
               [] OTHER -> root
  IN  [cut EXCEPT !.rank[x] = @ - 1]

Deleted(h, w) ==
  LET bare == FoldLeft(Cut, h, h.children[w])
      root == IF IsChild(bare, w) THEN Cut(bare, w) ELSE bare
      out == Restore([root EXCEPT !.status[w] = "NOT_QUEUED"])
  IN  [out EXCEPT !.key[w] = Unset, !.rank[w] = 0]

Insert(w, alpha) ==
  /\ heap.status[w] = "NOT_QUEUED"
  /\ heap' = WithMinimum(Push([heap EXCEPT !.status[w] = "ROOT_NODE", !.key[w] = alpha], w), w)
  /\ returned' = NoItem

\* Children that are smaller now are cut; or w is, if it is smaller now than its
\* parent.  If w is a root, the minimum remains what it was.
ChangeKey(w, alpha) ==
  /\ heap.status[w] # "NOT_QUEUED"
  /\ LET h == [heap EXCEPT !.key[w] = alpha]
     IN  heap' = IF alpha > heap.key[w]
                 THEN FoldLeft(Cut, h, SelectSeq(h.children[w], LAMBDA x : h.key[x] < alpha))
                 ELSE IF IsChild(h, w) /\ h.key[h.pred[w]] > alpha THEN Cut(h, w) ELSE h
  /\ returned' = NoItem

DeleteItem(w) ==
  /\ heap.status[w] # "NOT_QUEUED"
  /\ heap' = Deleted(heap, w)
  /\ returned' = NoItem

DeleteMin ==
  /\ Members # {}
  /\ heap' = Deleted(heap, heap.minimal)
  /\ returned' = heap.minimal

\* Whether it deletes the items one by one or clears the arrays.
Clear == heap' = Empty /\ returned' = NoItem
=============================================================================
