--------------------------- MODULE PriorityQueue ---------------------------
(***************************************************************************)
(* What a priority queue promises through the interface goblinQueue        *)
(* (include/goblinQueue.h): it holds items with keys, and Delete() gives   *)
(* out an item of the smallest key.                                        *)
(***************************************************************************)
EXTENDS Naturals, TLC

CONSTANTS Items, Keys, NoItem

VARIABLES queue,            \* the keys of the items in the queue
          returned          \* what the last operation has given out

Queued == DOMAIN queue

Init == queue = <<>> /\ returned = NoItem

Insert(w, alpha) == /\ w \notin Queued
                    /\ queue' = (w :> alpha) @@ queue
                    /\ returned' = NoItem

ChangeKey(w, alpha) == /\ w \in Queued
                       /\ queue' = [queue EXCEPT ![w] = alpha]
                       /\ returned' = NoItem

Without(w) == [u \in Queued \ {w} |-> queue[u]]

DeleteItem(w) == w \in Queued /\ queue' = Without(w) /\ returned' = NoItem

DeleteMin(w) == /\ w \in Queued
                /\ \A u \in Queued : queue[w] <= queue[u]
                /\ queue' = Without(w)
                /\ returned' = w

Clear == queue' = <<>> /\ returned' = NoItem

Next == \/ Clear
        \/ \E w \in Items : \/ DeleteItem(w)
                            \/ DeleteMin(w)
                            \/ \E alpha \in Keys : Insert(w, alpha) \/ ChangeKey(w, alpha)

Spec == Init /\ [][Next]_<<queue, returned>>
=============================================================================
