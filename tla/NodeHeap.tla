------------------------------ MODULE NodeHeap ------------------------------
(***************************************************************************)
(* The priority queues of the solvers (abstractMixedGraph::NewNodeHeap and *)
(* NewArcHeap): methPQ selects one of the three heaps, the solver calls it *)
(* through the interface goblinQueue.                                      *)
(***************************************************************************)
EXTENDS Naturals, FiniteSets

CONSTANTS Items,
          Keys,
          InfFloat,
          NoItem, Unset,
          Methods,          \* the values of methPQ
          Few,              \* the items of the first client
          MaxLow,           \* bound on the items that the second one has
                            \* decreased and not yet taken out
          Careful           \* callers keep away from what goes wrong

ASSUME KeyType == Keys \subseteq Nat /\ InfFloat \in Nat /\ \A k \in Keys : k < InfFloat
ASSUME MethodType == Methods \subseteq 0 .. 2
ASSUME ItemType == Items \subseteq Nat /\ Few \subseteq Items /\ MaxLow \in Nat /\ Careful \in BOOLEAN

VARIABLES methPQ,
          heap,             \* the state of the selected heap
          returned,         \* what Delete() has given out, NoItem after others
          stage             \* what the client is about to do

vars == <<methPQ, heap, returned, stage>>

Basic == INSTANCE BasicHeap
Binary == INSTANCE BinaryHeap
Fib == INSTANCE FibonacciHeap

Contents == CASE methPQ = 0 -> Basic!Contents
              [] methPQ = 1 -> Binary!Contents
              [] methPQ = 2 -> Fib!Contents

Peek == CASE methPQ = 0 -> Basic!Peek
          [] methPQ = 1 -> Binary!Peek
          [] methPQ = 2 -> Fib!Peek

Queued == DOMAIN Contents

\* The arrays and indices stay in their ranges.
TypeOK == /\ CASE methPQ = 0 -> Basic!TypeOK
               [] methPQ = 1 -> Binary!TypeOK
               [] methPQ = 2 -> Fib!TypeOK
          /\ returned \in Items \cup {NoItem}
          /\ stage \in {"free", "fill", "take"}

-----------------------------------------------------------------------------
Init == /\ methPQ \in Methods
        /\ heap = CASE methPQ = 0 -> Basic!Empty
                    [] methPQ = 1 -> Binary!Empty
                    [] methPQ = 2 -> Fib!Empty
        /\ returned = NoItem
        /\ stage \in IF methPQ = 2 THEN {"free", "fill"} ELSE {"free"}

\* There are two clients.  The first one calls what it likes for few items.  The
\* second one inserts all items with the largest key, then it takes them out and
\* decreases keys in between: so the trees of the Fibonacci heap become large.
Fills(w, alpha) == /\ w \in Items \ Queued
                   /\ \A u \in Items \ Queued : w <= u
                   /\ \A beta \in Keys : beta <= alpha

\* The heaps do not check whether w is queued, apart from the Fibonacci heap.
Insert(w, alpha) ==
  /\ \/ stage = "free" /\ w \in Few \ Queued /\ UNCHANGED stage
     \/ stage = "fill" /\ Fills(w, alpha) /\ stage' = IF Queued = Items \ {w} THEN "take" ELSE "fill"
  /\ \/ methPQ = 0 /\ Basic!Insert(w, alpha)
     \/ methPQ = 1 /\ Binary!Insert(w, alpha)
     \/ methPQ = 2 /\ Fib!Insert(w, alpha)

Decreases(w, alpha) ==
  /\ alpha < Contents[w] /\ \A beta \in Keys : alpha <= beta
  /\ Cardinality({u \in Queued : \E beta \in Keys : Contents[u] < beta}) < MaxLow

\* The Fibonacci heap does not notice that a root becomes the minimum, nor that
\* the minimum ceases to be it.
KeepsMinimum(w, alpha) ==
  IF w = Peek THEN alpha <= Contents[w]
              ELSE Fib!IsChild(heap, w) \/ alpha >= Contents[Peek]

ChangeKey(w, alpha) ==
  /\ w \in Queued
  /\ stage = "free" \/ (stage = "take" /\ Decreases(w, alpha))
  /\ UNCHANGED stage
  /\ \/ methPQ = 0 /\ Basic!ChangeKey(w, alpha)
     \/ methPQ = 1 /\ Binary!ChangeKey(w, alpha)
     \/ methPQ = 2 /\ (Careful => KeepsMinimum(w, alpha)) /\ Fib!ChangeKey(w, alpha)

\* Delete(w) is no method of goblinQueue, but a public one of every heap.  The
\* binary heap gets it right for the last item only.
DeleteItem(w) ==
  /\ w \in Queued
  /\ stage = "free"
  /\ UNCHANGED stage
  /\ \/ methPQ = 0 /\ Basic!DeleteItem(w)
     \/ methPQ = 1 /\ (Careful => w = heap.v[Cardinality(Queued)]) /\ Binary!DeleteItem(w)
     \/ methPQ = 2 /\ Fib!DeleteItem(w)

DeleteMin ==
  /\ stage # "fill"
  /\ UNCHANGED stage
  /\ \/ methPQ = 0 /\ Basic!DeleteMin
     \/ methPQ = 1 /\ Binary!DeleteMin
     \/ methPQ = 2 /\ Fib!DeleteMin

\* The solver that uses the heap next begins with it.
Clear ==
  /\ \/ stage = "free" /\ UNCHANGED stage
     \/ stage = "take" /\ Queued = {} /\ stage' = "fill"
  /\ \/ methPQ = 0 /\ Basic!Clear
     \/ methPQ = 1 /\ Binary!Clear
     \/ methPQ = 2 /\ Fib!Clear

Next == /\ UNCHANGED methPQ
        /\ \/ Clear
           \/ DeleteMin
           \/ \E w \in Items : \/ DeleteItem(w)
                               \/ \E alpha \in Keys : Insert(w, alpha) \/ ChangeKey(w, alpha)

Spec == Init /\ [][Next]_vars

-----------------------------------------------------------------------------
\* The heaps are in order: the array is sorted; the binary tree is ordered and
\* index[] inverts it; the Fibonacci trees are ordered and well linked, and a tree
\* is exponentially large in its rank, so that buckets for logarithmic ranks suffice.
InOrder == CASE methPQ = 0 -> Basic!Sorted
             [] methPQ = 1 -> Binary!Ordered /\ Binary!Indexed
             [] methPQ = 2 -> Fib!Ordered /\ Fib!TreesAreLarge

Queue == INSTANCE PriorityQueue WITH queue <- Contents

\* Every heap is a priority queue.
ImplementsQueue == Queue!Spec

\* doku/manual.tex:4577: "The item to be deleted is the set member with the
\* highest priority".  The item that Delete() gives out next has the smallest key.
NextIsMinimal == Queued # {} => \A w \in Queued : Contents[Peek] <= Contents[w]
=============================================================================
