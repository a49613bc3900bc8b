----------------------------- MODULE Partition -----------------------------
(***************************************************************************)
(* What a disjointFamily object promises to its clients (the comments of   *)
(* include/disjointFamily.h): a collection of disjoint sets with one       *)
(* canonical element each.  Find has no effect a client can see; only a    *)
(* merge moves a canonical element.  An item that no set contains has the  *)
(* canonical element UNDEFINED.                                            *)
(***************************************************************************)
EXTENDS Naturals

CONSTANT N                  \* the object manages the items 0 .. N-1

Items     == 0 .. (N - 1)
UNDEFINED == N

\* Outcomes of an operation that returns no item, as numbers that are none.
Void    == N + 1            \* returned normally
ERRange == N + 2            \* threw this exception

VARIABLES canon,            \* canonical element of the set of each item
          ret               \* what the last operation returned or threw

vars == <<canon, ret>>

Live == {v \in Items : canon[v] # UNDEFINED}

SetOf(v) == LET c == canon[v] IN {w \in Live : canon[w] = c}

Init == /\ canon = [v \in Items |-> UNDEFINED]
        /\ ret = Void

Clear == /\ canon' = [v \in Items |-> UNDEFINED]
         /\ ret' = Void

Bud(v) == /\ v \notin Live
          /\ canon' = [canon EXCEPT ![v] = v]
          /\ ret' = Void

\* The united set keeps one of the two canonical elements.
Merge(u, v) ==
  /\ {u, v} \subseteq Live
  /\ LET united == SetOf(u) \cup SetOf(v)
     IN  \E c \in {canon[u], canon[v]} :
           canon' = [w \in Items |-> IF w \in united THEN c ELSE canon[w]]
  /\ ret' = Void

Find(v) == /\ v \in Live
           /\ ret' = canon[v]
           /\ UNCHANGED canon

\* An operation on an item that is in no set is rejected.
Reject == /\ ret' = ERRange
          /\ UNCHANGED canon

Next == \/ Clear
        \/ \E v \in Items : Bud(v) \/ Find(v)
        \/ \E u, v \in Items : Merge(u, v)
        \/ Reject

Spec == Init /\ [][Next]_vars
=============================================================================
