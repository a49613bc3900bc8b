----------------------------- MODULE BinaryHeap -----------------------------
(***************************************************************************)
(* lib_src/binaryHeap.cpp: a binary tree in the array v, of length         *)
(* maxIndex, and the position of every item in it.  The key of an item is  *)
(* forgotten when it leaves since the code does not read it any more.      *)
(***************************************************************************)
EXTENDS Naturals, SequencesExt

CONSTANTS Items, Keys, NoItem, Unset

VARIABLES heap, returned

NoIndex == 0                \* UITEM_MAX() in the code

Empty == [v |-> <<>>, index |-> [w \in Items |-> NoIndex], key |-> [w \in Items |-> Unset]]

\* The array v does not overflow.
TypeOK == /\ heap \in [v : Seq(Items), index : [Items -> 0 .. Cardinality(Items)],
                       key : [Items -> Keys \cup {Unset}]]
          /\ Len(heap.v) <= Cardinality(Items)

Contents == [w \in {heap.v[i] : i \in DOMAIN heap.v} |-> heap.key[w]]

Peek == heap.v[1]

\* Parents are not larger than their children.
Ordered == \A i \in 2 .. Len(heap.v) : heap.key[heap.v[i \div 2]] <= heap.key[heap.v[i]]

\* index[] inverts v[], which Display asserts.
Indexed == \A w \in Items : IF heap.index[w] = NoIndex
                            THEN w \notin {heap.v[i] : i \in DOMAIN heap.v}
                            ELSE heap.index[w] <= Len(heap.v) /\ heap.v[heap.index[w]] = w

-----------------------------------------------------------------------------
Place(h, i, w) == [h EXCEPT !.v[i] = w, !.index[w] = i]

Exchange(h, i, j) == Place(Place(h, i, h.v[j]), j, h.v[i])

RECURSIVE UpHeap(_, _)
UpHeap(h, i) ==
  IF i > 1 /\ h.key[h.v[i \div 2]] > h.key[h.v[i]]
  THEN UpHeap(Exchange(h, i, i \div 2), i \div 2)
  ELSE Place(h, i, h.v[i])

\* The right child is compared with what came up from the left.
RECURSIVE DownHeap(_, _)
DownHeap(h, i) ==
  LET Sift(g, child) ==
        IF child <= Len(g.v) /\ g.key[g.v[child]] < g.key[g.v[i]]
        THEN DownHeap(Exchange(g, i, child), child)
        ELSE g
  IN  Sift(Sift(h, 2 * i), 2 * i + 1)

Insert(w, alpha) ==
  /\ Len(heap.v) < Cardinality(Items)
  /\ LET i == Len(heap.v) + 1
     IN  heap' = UpHeap([v |-> Append(heap.v, w), index |-> [heap.index EXCEPT ![w] = i],
                         key |-> [heap.key EXCEPT ![w] = alpha]], i)
  /\ returned' = NoItem

ChangeKey(w, alpha) ==
  /\ heap.index[w] # NoIndex
  /\ LET h == [heap EXCEPT !.key[w] = alpha]
     IN  heap' = IF alpha > heap.key[w] THEN DownHeap(h, heap.index[w])
                                        ELSE UpHeap(h, heap.index[w])
  /\ returned' = NoItem

\* Without w and the last slot.
Shrunk(w) == [v |-> Front(heap.v), index |-> [heap.index EXCEPT ![w] = NoIndex],
              key |-> [heap.key EXCEPT ![w] = Unset]]

\* The last item fills the gap, but only DownHeap may tell it its position, and
\* nothing lifts it.
DeleteItem(w) ==
  /\ heap.index[w] # NoIndex
  /\ LET i == heap.index[w]
     IN  heap' = IF i < Len(heap.v)
                 THEN DownHeap([Shrunk(w) EXCEPT !.v[i] = Last(heap.v)], i)
                 ELSE Shrunk(w)
  /\ returned' = NoItem

DeleteMin ==
  /\ heap.v # <<>>
  /\ heap' = IF Len(heap.v) > 1 THEN DownHeap(Place(Shrunk(Peek), 1, Last(heap.v)), 1)
                                ELSE Shrunk(Peek)
  /\ returned' = Peek

\* Whether it deletes the items one by one or clears the array.
Clear == heap' = Empty /\ returned' = NoItem
=============================================================================
