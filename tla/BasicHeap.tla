----------------------------- MODULE BasicHeap -----------------------------
(***************************************************************************)
(* lib_src/basicHeap.cpp: the items in an array, by decreasing key.  Its   *)
(* length is maxIndex, and v[i] of the code is heap.v[i + 1].              *)
(***************************************************************************)
EXTENDS Naturals, SequencesExt

CONSTANTS Items, Keys, NoItem,
          InfFloat,         \* larger than every key
          Unset             \* what an array holds before it is written

VARIABLES heap, returned

Empty == [v |-> <<>>, key |-> [w \in Items |-> Unset]]

\* The array v does not overflow.
TypeOK == /\ heap \in [v : Seq(Items), key : [Items -> Keys \cup {InfFloat, Unset}]]
          /\ Len(heap.v) <= Cardinality(Items)

\* The contents, seen from outside.
Contents == [w \in {heap.v[i] : i \in DOMAIN heap.v} |-> heap.key[w]]

Peek == Last(heap.v)

Sorted == /\ IsInjective(heap.v)
          /\ \A i, j \in DOMAIN heap.v : i <= j => heap.key[heap.v[i]] >= heap.key[heap.v[j]]

-----------------------------------------------------------------------------
\* Halving the interval of length step at j until one slot is left, or none.
Search(h, alpha) ==
  LET s[step \in 0 .. Len(h.v), j \in 0 .. Len(h.v)] ==
        LET half == step \div 2
        IN  IF step <= 1 THEN j
            ELSE IF h.key[h.v[j + half + 1]] > alpha THEN s[step - half, j + half]
                                                     ELSE s[half, j]
  IN  s[Len(h.v), 0]

\* Variant: the last comparison is left out.
InsertedUnchecked(h, w, alpha) ==
  [v |-> InsertAt(h.v, Search(h, alpha) + 1, w), key |-> [h.key EXCEPT ![w] = alpha]]

Inserted(h, w, alpha) ==
  LET j == Search(h, alpha)
      i == IF h.v # <<>> /\ h.key[h.v[j + 1]] > alpha THEN j + 1 ELSE j
  IN  [v |-> InsertAt(h.v, i + 1, w), key |-> [h.key EXCEPT ![w] = alpha]]

\* The search stops before the items of the same key, w is looked for from there.
Deleted(h, w) ==
  LET j == Search(h, h.key[w])
      i == CHOOSE k \in (j + 1) .. Len(h.v) : h.v[k] = w /\ w \notin {h.v[l] : l \in (j + 1) .. (k - 1)}
  IN  [v |-> RemoveAt(h.v, i), key |-> [h.key EXCEPT ![w] = InfFloat]]

Insert(w, alpha) == /\ Len(heap.v) < Cardinality(Items)
                    /\ heap' = Inserted(heap, w, alpha)
                    /\ returned' = NoItem

ChangeKey(w, alpha) == /\ heap.key[w] # InfFloat
                       /\ heap' = Inserted(Deleted(heap, w), w, alpha)
                       /\ returned' = NoItem

DeleteItem(w) == /\ heap.key[w] # InfFloat
             /\ heap' = Deleted(heap, w)
             /\ returned' = NoItem

DeleteMin == /\ heap.v # <<>>
             /\ heap' = [v |-> Front(heap.v), key |-> [heap.key EXCEPT ![Peek] = InfFloat]]
             /\ returned' = Peek

\* The keys remain.
Clear == heap' = [heap EXCEPT !.v = <<>>] /\ returned' = NoItem
=============================================================================
