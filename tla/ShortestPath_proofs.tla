------------------------- MODULE ShortestPath_proofs -------------------------
(***************************************************************************)
(* Proofs about the shortest path methods on every graph, with any lengths *)
(* and whatever arc or node they look at next: no label is ever below a    *)
(* lower bound of the distance; with lengths that are not negative the     *)
(* nodes that have left the heap of Dijkstra's method are done; and each   *)
(* of the four methods ends with the distances, or reports a cycle if and  *)
(* only if there is one.                                                   *)
(*                                                                         *)
(* The results rest on what the predecessor arcs are: of Dijkstra's method *)
(* trees whose depth is bounded; of the other methods a forest, as long as *)
(* no cycle is shorter than zero, so that the labels at the end, where no  *)
(* arc offers anything better, are those of walks with n - 1 arcs.         *)
(***************************************************************************)
EXTENDS ShortestPath, FiniteSetTheorems, WellFoundedInduction, TLAPS

\* The values of the variables, and where the darts that are left start.
Typed ==
  /\ call \in Calls /\ pc \in {"start", "search", "done"}
  /\ dist \in [Nodes -> Int] /\ labelled \subseteq Nodes /\ queue \subseteq Nodes
  /\ todo \subseteq call.eligible

\* Nothing has happened yet.
Untouched ==
  pc = "start" => /\ dist = [v \in Nodes |-> 0] /\ labelled = {} /\ queue = {} /\ todo = {}
                  /\ found = NoNode /\ error = "none"

\* What is scanned, or waits to be scanned, has a label.
ScansLabelled ==
  /\ method # "BELLMAN" => \A d \in todo : StartNode(d) = here
  /\ method \in {"DIJKSTRA", "FIFO"} => queue \subseteq labelled /\ (todo # {} => here \in labelled)

\* The invariant behind the lower bounds.
LabelInv == Typed /\ Untouched /\ ScansLabelled /\ NoLabelIsTooShort

-----------------------------------------------------------------------------
\* The ends of a dart are nodes.
LEMMA DartEnds ==
  ASSUME NEW d \in Darts PROVE StartNode(d) \in Nodes /\ EndNode(d) \in Nodes
<1>1. PICK a \in Arcs, i \in {0, 1} : d = <<a, i>>
  BY DEF Darts
<1>2. From[a] \in Nodes /\ To[a] \in Nodes
  BY GraphType
<1>3. d[1] = a /\ d[2] = i /\ Opposite(d) = <<a, 1 - i>> /\ 1 - i \in {0, 1}
  BY <1>1 DEF Opposite
<1> QED
  BY <1>2, <1>3 DEF StartNode, EndNode

\* The darts of a call and what they lead to.
LEMMA EligibleDarts ==
  ASSUME call \in Calls, NEW d \in call.eligible
  PROVE  /\ d \in Darts /\ len[d] \in Int
         /\ StartNode(d) \in Nodes /\ EndNode(d) \in Nodes
<1>1. d \in Darts /\ call.len \in [Darts -> Int]
  BY CallsType
<1> QED
  BY <1>1, DartEnds DEF len

\* The sources of a call.
LEMMA SourcesAreNodes == ASSUME call \in Calls PROVE call.sources \subseteq Nodes
BY CallsType

\* What the actions that set a label have in common.
LEMMA LabelKeepsBounds ==
  ASSUME LabelInv, NEW d \in todo, StartNode(d) \in labelled, Label(d), call' = call
  PROVE  /\ dist' \in [Nodes -> Int] /\ labelled' \subseteq Nodes /\ EndNode(d) \in labelled'
         /\ labelled \subseteq labelled' /\ NoLabelIsTooShort'
<1> DEFINE e == EndNode(d)
<1>1. /\ d \in call.eligible /\ d \in Darts /\ len[d] \in Int /\ call \in Calls
      /\ StartNode(d) \in Nodes /\ e \in Nodes
      /\ dist \in [Nodes -> Int] /\ labelled \subseteq Nodes
  BY EligibleDarts DEF LabelInv, Typed
<1>2. Offer(d) \in Int /\ Offer(d) = dist[StartNode(d)] + len[d]
  BY <1>1 DEF Offer
<1>3. /\ dist' = [dist EXCEPT ![e] = Offer(d)] /\ labelled' = labelled \cup {e}
  BY DEF Label
<1>4. dist' \in [Nodes -> Int] /\ labelled' \subseteq Nodes
  BY <1>1, <1>2, <1>3
<1>5. ASSUME NEW pi \in FeasiblePotentials[call], NEW v \in labelled'
      PROVE  pi[v] <= dist'[v]
  <2>1. pi \in [Nodes -> Potentials] /\ Feasible(call, pi)
    BY <1>1 DEF FeasiblePotentials
  <2>2. \A w \in Nodes : pi[w] \in Int
    BY <2>1, CallsType
  <2>3. CASE v = e
    <3>1. pi[StartNode(d)] <= dist[StartNode(d)]
      BY DEF LabelInv, NoLabelIsTooShort
    <3>2. pi[e] <= pi[StartNode(d)] + len[d]
      BY <1>1, <2>1 DEF Feasible, len
    <3>3. dist'[v] = Offer(d)
      BY <1>1, <1>3, <2>3
    <3>4. dist[StartNode(d)] \in Int /\ pi[StartNode(d)] \in Int /\ pi[e] \in Int
      BY <1>1, <2>2
    <3> HIDE DEF e
    <3> QED
      BY <1>1, <1>2, <2>3, <3>1, <3>2, <3>3, <3>4
  <2>4. CASE v # e
    <3>1. v \in labelled /\ dist'[v] = dist[v]
      BY <1>1, <1>3, <2>4
    <3> QED
      BY <3>1 DEF LabelInv, NoLabelIsTooShort
  <2> QED
    BY <2>3, <2>4
<1>6. NoLabelIsTooShort'
  BY <1>5 DEF NoLabelIsTooShort
<1> QED
  BY <1>3, <1>4, <1>6

\* The searches start from labels zero, which no lower bound exceeds at a source.
LEMMA StartKeepsBounds ==
  ASSUME LabelInv, pc = "start", labelled' = call.sources, UNCHANGED <<call, dist>>
  PROVE  /\ dist' \in [Nodes -> Int] /\ labelled' \subseteq Nodes /\ NoLabelIsTooShort'
<1>1. call \in Calls /\ dist = [v \in Nodes |-> 0] /\ call.sources \subseteq Nodes
  BY SourcesAreNodes DEF LabelInv, Typed, Untouched
<1>2. ASSUME NEW pi \in FeasiblePotentials[call], NEW v \in call.sources
      PROVE  pi[v] <= dist[v]
  <2>1. Feasible(call, pi)
    BY <1>1 DEF FeasiblePotentials
  <2> QED
    BY <1>1, <2>1 DEF Feasible
<1>3. NoLabelIsTooShort'
  BY <1>2 DEF NoLabelIsTooShort
<1> QED
  BY <1>1, <1>3

\* The steps that leave the labels alone leave the bounds alone.
LEMMA NoLabelChanges ==
  ASSUME LabelInv, UNCHANGED <<call, dist, labelled>>
  PROVE  NoLabelIsTooShort' /\ dist' \in [Nodes -> Int] /\ labelled' \subseteq Nodes
BY DEF LabelInv, Typed, NoLabelIsTooShort

-----------------------------------------------------------------------------
LEMMA DijkstraKeepsInv ==
  ASSUME LabelInv,
         \/ DijkstraStart \/ DijkstraTake \/ DijkstraSkip \/ NegativeLength \/ NoSuchItem
         \/ DijkstraLabel \/ DijkstraEnd
  PROVE  LabelInv'
<1> USE DEF Typed, Untouched, ScansLabelled
<1>1. CASE DijkstraStart
  <2>1. NoLabelIsTooShort' /\ dist' \in [Nodes -> Int] /\ labelled' \subseteq Nodes
    BY <1>1, StartKeepsBounds DEF DijkstraStart
  <2> QED
    BY <1>1, <2>1 DEF DijkstraStart, LabelInv, method
<1>2. CASE DijkstraTake
  <2>1. PICK u \in Nearest :
          /\ queue' = Deleted(u) /\ here' = u
          /\ IF u \in call.targets THEN found' = u /\ pc' = "done" /\ todo' = {}
             ELSE todo' = EligibleFrom(u) /\ UNCHANGED <<found, pc>>
    BY <1>2 DEF DijkstraTake
  <2>2. /\ u \in labelled /\ queue' \subseteq queue
        /\ todo' \subseteq call.eligible /\ \A d \in todo' : StartNode(d) = u
    BY <1>2, <2>1 DEF DijkstraTake, Nearest, Deleted, EligibleFrom, DartsFrom, LabelInv
  <2>3. NoLabelIsTooShort' /\ dist' \in [Nodes -> Int] /\ labelled' \subseteq Nodes
    BY <1>2, NoLabelChanges DEF DijkstraTake
  <2> QED
    BY <1>2, <2>1, <2>2, <2>3 DEF DijkstraTake, LabelInv, method
<1>3. CASE DijkstraSkip
  <2>1. NoLabelIsTooShort'
    BY <1>3, NoLabelChanges DEF DijkstraSkip
  <2> QED
    BY <1>3, <2>1 DEF DijkstraSkip, LabelInv, method
<1>4. CASE NegativeLength \/ NoSuchItem
  <2>1. NoLabelIsTooShort'
    BY <1>4, NoLabelChanges DEF NegativeLength, NoSuchItem, Throw
  <2> QED
    BY <1>4, <2>1 DEF NegativeLength, NoSuchItem, Throw, LabelInv, method
<1>5. CASE DijkstraLabel
  <2>1. PICK d \in todo : /\ Label(d)
                          /\ queue' = queue \cup {EndNode(d)}
                          /\ todo' = todo \ {d}
    BY <1>5 DEF DijkstraLabel
  <2>2. StartNode(d) = here /\ here \in labelled /\ EndNode(d) \in Nodes
    BY <1>5, EligibleDarts DEF DijkstraLabel, LabelInv
  <2>3. /\ dist' \in [Nodes -> Int] /\ labelled' \subseteq Nodes /\ EndNode(d) \in labelled'
        /\ labelled \subseteq labelled' /\ NoLabelIsTooShort'
    BY <1>5, <2>1, <2>2, LabelKeepsBounds DEF DijkstraLabel
  <2> QED
    BY <1>5, <2>1, <2>2, <2>3 DEF DijkstraLabel, LabelInv, method
<1>6. CASE DijkstraEnd
  <2>1. NoLabelIsTooShort'
    BY <1>6, NoLabelChanges DEF DijkstraEnd, Finish
  <2> QED
    BY <1>6, <2>1 DEF DijkstraEnd, Finish, LabelInv, method
<1> QED
  BY <1>1, <1>2, <1>3, <1>4, <1>5, <1>6

LEMMA BellmanKeepsInv ==
  ASSUME LabelInv,
         \/ BellmanStart \/ BellmanSkip \/ BellmanLabel \/ BellmanPass \/ BellmanFails
         \/ BellmanEnd
  PROVE  LabelInv'
<1> USE DEF Typed, Untouched, ScansLabelled
<1>1. CASE BellmanStart
  <2>1. NoLabelIsTooShort' /\ dist' \in [Nodes -> Int] /\ labelled' \subseteq Nodes
    BY <1>1, StartKeepsBounds DEF BellmanStart
  <2> QED
    BY <1>1, <2>1 DEF BellmanStart, LabelInv, method
<1>2. CASE BellmanSkip \/ BellmanPass
  <2>1. NoLabelIsTooShort'
    BY <1>2, NoLabelChanges DEF BellmanSkip, BellmanPass
  <2> QED
    BY <1>2, <2>1 DEF BellmanSkip, BellmanPass, LabelInv, method
<1>3. CASE BellmanLabel
  <2>1. PICK d \in todo : /\ StartNode(d) \in labelled
                          /\ Label(d)
                          /\ todo' = todo \ {d}
    BY <1>3 DEF BellmanLabel
  <2>2. /\ dist' \in [Nodes -> Int] /\ labelled' \subseteq Nodes /\ NoLabelIsTooShort'
    BY <1>3, <2>1, LabelKeepsBounds DEF BellmanLabel
  <2> QED
    BY <1>3, <2>1, <2>2 DEF BellmanLabel, LabelInv, method
<1>4. CASE BellmanFails \/ BellmanEnd
  <2>1. NoLabelIsTooShort'
    BY <1>4, NoLabelChanges DEF BellmanFails, BellmanEnd, Throw, Finish
  <2> QED
    BY <1>4, <2>1 DEF BellmanFails, BellmanEnd, Throw, Finish, LabelInv, method
<1> QED
  BY <1>1, <1>2, <1>3, <1>4

LEMMA FIFOKeepsInv ==
  ASSUME LabelInv,
         \/ FIFOStart \/ FIFOTake \/ FIFOSkip \/ FIFOLabel \/ FIFOPass \/ FIFOEnd \/ FIFOFails
  PROVE  LabelInv'
<1> USE DEF Typed, Untouched, ScansLabelled
<1>1. CASE FIFOStart
  <2>1. NoLabelIsTooShort' /\ dist' \in [Nodes -> Int] /\ labelled' \subseteq Nodes
    BY <1>1, StartKeepsBounds DEF FIFOStart
  <2> QED
    BY <1>1, <2>1 DEF FIFOStart, LabelInv, method
<1>2. CASE FIFOTake
  <2>1. PICK u \in Ahead : /\ here' = u /\ queue' = queue \ {u} /\ todo' = EligibleFrom(u)
    BY <1>2 DEF FIFOTake
  <2>2. /\ u \in labelled /\ todo' \subseteq call.eligible
        /\ \A d \in todo' : StartNode(d) = u
    BY <1>2, <2>1 DEF FIFOTake, Ahead, EligibleFrom, DartsFrom, LabelInv
  <2>3. NoLabelIsTooShort'
    BY <1>2, NoLabelChanges DEF FIFOTake
  <2> QED
    BY <1>2, <2>1, <2>2, <2>3 DEF FIFOTake, LabelInv, method
<1>3. CASE FIFOSkip \/ FIFOPass
  <2>1. NoLabelIsTooShort'
    BY <1>3, NoLabelChanges DEF FIFOSkip, FIFOPass
  <2> QED
    BY <1>3, <2>1 DEF FIFOSkip, FIFOPass, LabelInv, method
<1>4. CASE FIFOLabel
  <2>1. PICK d \in todo : /\ Label(d)
                          /\ queue' = Activated(EndNode(d))
                          /\ todo' = todo \ {d}
    BY <1>4 DEF FIFOLabel
  <2>2. StartNode(d) = here /\ here \in labelled /\ EndNode(d) \in Nodes
    BY <1>4, EligibleDarts DEF FIFOLabel, LabelInv
  <2>3. /\ dist' \in [Nodes -> Int] /\ labelled' \subseteq Nodes /\ EndNode(d) \in labelled'
        /\ labelled \subseteq labelled' /\ NoLabelIsTooShort'
    BY <1>4, <2>1, <2>2, LabelKeepsBounds DEF FIFOLabel
  <2> QED
    BY <1>4, <2>1, <2>2, <2>3 DEF FIFOLabel, Activated, LabelInv, method
<1>5. CASE FIFOEnd \/ FIFOFails
  <2>1. NoLabelIsTooShort'
    BY <1>5, NoLabelChanges DEF FIFOEnd, FIFOFails, Finish
  <2> QED
    BY <1>5, <2>1 DEF FIFOEnd, FIFOFails, Finish, LabelInv, method
<1> QED
  BY <1>1, <1>2, <1>3, <1>4, <1>5

LEMMA DAGKeepsInv ==
  ASSUME LabelInv, DAGStart \/ DAGTake \/ DAGRead \/ DAGFails \/ DAGEnd
  PROVE  LabelInv'
<1> USE DEF Typed, Untouched, ScansLabelled
<1>1. CASE DAGStart
  <2>1. NoLabelIsTooShort' /\ dist' \in [Nodes -> Int] /\ labelled' \subseteq Nodes
    BY <1>1, StartKeepsBounds DEF DAGStart
  <2> QED
    BY <1>1, <2>1 DEF DAGStart, LabelInv, method
<1>2. CASE DAGTake
  <2>1. PICK u \in queue : /\ queue' = queue \ {u} /\ here' = u /\ todo' = EligibleFrom(u)
    BY <1>2 DEF DAGTake
  <2>2. todo' \subseteq call.eligible /\ \A d \in todo' : StartNode(d) = u
    BY <2>1 DEF EligibleFrom, DartsFrom
  <2>3. NoLabelIsTooShort'
    BY <1>2, NoLabelChanges DEF DAGTake
  <2> QED
    BY <1>2, <2>1, <2>2, <2>3 DEF DAGTake, LabelInv, method
<1>3. CASE DAGRead
  <2>1. PICK d \in todo :
          /\ IF here \in labelled /\ Improves(d) THEN Label(d) ELSE UNCHANGED <<dist, labelled, pred>>
          /\ queue' = IF degree'[EndNode(d)] = 0 THEN queue \cup {EndNode(d)} ELSE queue
          /\ todo' = todo \ {d}
    BY <1>3 DEF DAGRead
  <2>2. StartNode(d) = here /\ EndNode(d) \in Nodes
    BY <1>3, EligibleDarts DEF DAGRead, LabelInv, method
  <2>3. CASE here \in labelled /\ Improves(d)
    <3>1. /\ dist' \in [Nodes -> Int] /\ labelled' \subseteq Nodes /\ NoLabelIsTooShort'
      BY <1>3, <2>1, <2>2, <2>3, LabelKeepsBounds DEF DAGRead
    <3> QED
      BY <1>3, <2>1, <2>2, <3>1 DEF DAGRead, LabelInv, method
  <2>4. CASE ~(here \in labelled /\ Improves(d))
    <3>1. UNCHANGED <<call, dist, labelled>>
      BY <1>3, <2>1, <2>4 DEF DAGRead
    <3>2. NoLabelIsTooShort' /\ dist' \in [Nodes -> Int] /\ labelled' \subseteq Nodes
      BY <3>1, NoLabelChanges
    <3> QED
      BY <1>3, <2>1, <2>2, <3>2 DEF DAGRead, LabelInv, method
  <2> QED
    BY <2>3, <2>4
<1>4. CASE DAGFails \/ DAGEnd
  <2>1. NoLabelIsTooShort'
    BY <1>4, NoLabelChanges DEF DAGFails, DAGEnd, Throw, Finish
  <2> QED
    BY <1>4, <2>1 DEF DAGFails, DAGEnd, Throw, Finish, LabelInv, method
<1> QED
  BY <1>1, <1>2, <1>3, <1>4

LEMMA InitLabels == Init => LabelInv
BY DEF Init, LabelInv, Typed, Untouched, ScansLabelled, NoLabelIsTooShort

LEMMA StepKeepsLabels == LabelInv /\ [Next]_vars => LabelInv'
<1> SUFFICES ASSUME LabelInv, [Next]_vars PROVE LabelInv'
  OBVIOUS
<1>1. CASE UNCHANGED vars
  BY <1>1 DEF vars, LabelInv, Typed, Untouched, ScansLabelled, NoLabelIsTooShort, method
<1>2. CASE Next
  BY <1>2, DijkstraKeepsInv, BellmanKeepsInv, FIFOKeepsInv, DAGKeepsInv DEF Next
<1> QED
  BY <1>1, <1>2

LEMMA LabelsStayInv == Spec => []LabelInv
BY InitLabels, StepKeepsLabels, PTL DEF Spec

\* However the arcs are scanned, by whichever of the methods and with lengths of any sign, no
\* label ever is below a lower bound of the distance.
THEOREM LabelsAreUpperBounds == Spec => []NoLabelIsTooShort
<1>1. LabelInv => NoLabelIsTooShort
  BY DEF LabelInv
<1> QED
  BY <1>1, LabelsStayInv, PTL

-----------------------------------------------------------------------------
\* Dijkstra's method with lengths that are not negative, under way or at its end.
Searching == method = "DIJKSTRA" /\ pc # "start" /\ \A d \in call.eligible : len[d] >= 0

\* The nodes that are done are no farther than the node that is scanned, which is one of
\* them, and the search goes on until it has found a target.
Frontier ==
  Searching =>
    /\ found # NoNode => pc = "done"
    /\ todo # {} => here \in Settled /\ \A v \in Settled : dist[v] <= dist[here]

\* The invariant behind the final labels.
SettledInv == LabelInv /\ Frontier /\ SettledIsFinal

LEMMA SettledInvTypes ==
  ASSUME SettledInv
  PROVE  /\ call \in Calls /\ Settled \subseteq Nodes /\ dist \in [Nodes -> Int] /\ Epsilon \in Nat
         /\ NoNode \notin Nodes
         /\ \A d \in call.eligible :
              /\ len[d] \in Int /\ StartNode(d) \in Nodes /\ EndNode(d) \in Nodes
              /\ Offer(d) = dist[StartNode(d)] + len[d] /\ Offer(d) \in Int
<1>1. /\ call \in Calls /\ Settled \subseteq Nodes /\ dist \in [Nodes -> Int] /\ Epsilon \in Nat
      /\ NoNode \notin Nodes
  BY CallsType, GraphType DEF SettledInv, LabelInv, Typed, Settled, NoNode, Nodes
<1>2. ASSUME NEW d \in call.eligible
      PROVE  len[d] \in Int /\ StartNode(d) \in Nodes /\ EndNode(d) \in Nodes
  BY <1>1, EligibleDarts
<1> QED
  BY <1>1, <1>2 DEF Offer

\* The start.
LEMMA StartSettles == ASSUME SettledInv, DijkstraStart PROVE Frontier' /\ SettledIsFinal'
<1>1. /\ Settled' = {} /\ todo' = {} /\ found' = NoNode /\ error' = "none"
  BY DEF DijkstraStart, Settled, SettledInv, LabelInv, Untouched
<1>2. NoNode' = NoNode
  BY DEF NoNode
<1>3. Frontier'
  BY <1>1, <1>2 DEF Frontier
<1> QED
  BY <1>1, <1>3 DEF SettledIsFinal

\* A nearest node leaves the heap.
LEMMA TakeSettles == ASSUME SettledInv, DijkstraTake PROVE Frontier' /\ SettledIsFinal'
<1> SUFFICES ASSUME Searching' PROVE Frontier' /\ SettledIsFinal'
  BY DEF Frontier, SettledIsFinal, Searching
<1>1. PICK u \in Nearest :
        /\ queue' = Deleted(u) /\ here' = u
        /\ IF u \in call.targets THEN found' = u /\ pc' = "done" /\ todo' = {}
           ELSE todo' = EligibleFrom(u) /\ UNCHANGED <<found, pc>>
  BY DEF DijkstraTake
<1>2. /\ pc = "search" /\ method = "DIJKSTRA" /\ todo = {} /\ error' = error /\ call' = call
      /\ dist' = dist /\ labelled' = labelled /\ len' = len
  BY DEF DijkstraTake, len
<1>3. Searching
  BY <1>2 DEF Searching
<1>4. /\ error = "none" /\ found = NoNode
      /\ \A d \in call.eligible : StartNode(d) \in Settled \ {found} =>
           EndNode(d) \in labelled /\ dist[EndNode(d)] <= Offer(d)
      /\ \A v \in Settled, w \in queue : dist[v] <= dist[w]
  BY <1>2, <1>3 DEF SettledInv, Frontier, SettledIsFinal, Searching
<1>5. /\ u \in queue /\ u \in labelled /\ u \notin Settled /\ u \in Nodes
      /\ \A w \in queue : dist[u] <= dist[w]
  BY <1>2 DEF Nearest, SettledInv, LabelInv, Typed, ScansLabelled, Settled
<1>6. Settled' = Settled \cup {u} /\ queue' = queue \ {u}
  BY <1>1, <1>2, <1>5 DEF Settled, Deleted
<1>7. \A v \in Settled' : dist[v] <= dist[u]
  BY <1>4, <1>5, <1>6, SettledInvTypes
<1>8. \A d : Offer(d)' = Offer(d) /\ (Improves(d))' = Improves(d)
  BY <1>2 DEF Offer, Improves
<1>9. \A v \in Settled', w \in queue' : dist[v] <= dist[w]
  BY <1>4, <1>5, <1>6
<1>10. ASSUME NEW d \in call.eligible, d \notin todo', StartNode(d) \in Settled' \ {found'}
       PROVE  EndNode(d) \in labelled /\ dist[EndNode(d)] <= Offer(d)
  <2>1. StartNode(d) # u
    <3>1. d \in EligibleFrom(u) \/ StartNode(d) # u
      BY SettledInvTypes, CallsType DEF EligibleFrom, DartsFrom
    <3> QED
      BY <1>1, <1>10, <3>1
  <2> QED
    BY <1>4, <1>6, <1>10, <2>1, SettledInvTypes
<1>11. ASSUME NEW d \in todo', EndNode(d) \in Settled'
       PROVE  ~Improves(d)
  <2>1. d \in call.eligible /\ StartNode(d) = u
    BY <1>1, <1>11 DEF EligibleFrom, DartsFrom
  <2>2. EndNode(d) \in labelled /\ dist[EndNode(d)] <= dist[u]
    BY <1>7, <1>11, <1>2 DEF Settled
  <2>3. len[d] >= 0
    BY <1>3, <2>1 DEF Searching
  <2>4. dist[u] \in Int /\ dist[EndNode(d)] \in Int /\ len[d] \in Int
    BY <1>5, <2>1, SettledInvTypes
  <2> QED
    BY <2>1, <2>2, <2>3, <2>4 DEF Improves, Offer
<1>12. Frontier'
  <2>1. found' # NoNode => pc' = "done"
    BY <1>1, <1>4
  <2>2. todo' # {} => here' \in Settled' /\ \A v \in Settled' : dist'[v] <= dist'[here']
    BY <1>1, <1>2, <1>6, <1>7
  <2> QED
    BY <2>1, <2>2 DEF Frontier, NoNode
<1>13. SettledIsFinal'
  BY <1>2, <1>4, <1>8, <1>9, <1>10, <1>11 DEF SettledIsFinal
<1> QED
  BY <1>12, <1>13

\* An arc is read that offers nothing.
LEMMA SkipSettles == ASSUME SettledInv, DijkstraSkip PROVE Frontier' /\ SettledIsFinal'
<1> SUFFICES ASSUME Searching' PROVE Frontier' /\ SettledIsFinal'
  BY DEF Frontier, SettledIsFinal, Searching
<1>1. PICK d \in todo : ~Improves(d) /\ todo' = todo \ {d}
  BY DEF DijkstraSkip
<1>2. /\ pc = "search" /\ method = "DIJKSTRA" /\ UNCHANGED <<call, pc, dist, labelled, queue, here, found, error>>
      /\ len' = len /\ Settled' = Settled
  BY DEF DijkstraSkip, len, Settled
<1>3. Searching /\ Frontier /\ SettledIsFinal
  BY <1>2 DEF Searching, SettledInv
<1>4. \A e : Offer(e)' = Offer(e) /\ (Improves(e))' = Improves(e)
  BY <1>2 DEF Offer, Improves
<1>5. EndNode(d) \in labelled /\ dist[EndNode(d)] <= Offer(d)
  <2>1. d \in call.eligible
    BY DEF SettledInv, LabelInv, Typed
  <2>2. Offer(d) \in Int /\ dist[EndNode(d)] \in Int
    BY <2>1, SettledInvTypes
  <2> QED
    BY <1>1, <2>2 DEF Improves
<1>6. Frontier'
  BY <1>1, <1>2, <1>3 DEF Frontier, NoNode
<1>7. SettledIsFinal'
  BY <1>1, <1>2, <1>3, <1>4, <1>5 DEF SettledIsFinal, Searching
<1> QED
  BY <1>6, <1>7

\* The arcs that make the search fail are not there.
LEMMA NothingIsThrown ==
  ASSUME SettledInv, NegativeLength \/ NoSuchItem, Searching'
  PROVE  FALSE
<1>1. /\ pc = "search" /\ method = "DIJKSTRA" /\ call' = call
      /\ todo \subseteq call.eligible
  BY DEF NegativeLength, NoSuchItem, Throw, SettledInv, LabelInv, Typed
<1>2. Searching
  BY <1>1 DEF Searching, len
<1>3. PICK d \in todo : Improves(d) /\ (len[d] < -Epsilon \/ EndNode(d) \in Settled)
  BY DEF NegativeLength, NoSuchItem
<1>4. len[d] >= 0 /\ len[d] \in Int
  BY <1>1, <1>2, SettledInvTypes DEF Searching
<1>5. EndNode(d) \in Settled
  BY <1>3, <1>4, SettledInvTypes
<1> QED
  BY <1>2, <1>3, <1>5 DEF SettledInv, SettledIsFinal, Searching

LEMMA NothingFails ==
  ASSUME SettledInv, NegativeLength \/ NoSuchItem
  PROVE  Frontier' /\ SettledIsFinal'
BY NothingIsThrown DEF Frontier, SettledIsFinal, Searching

\* A node gets its first or a better label.
LEMMA LabelSettles == ASSUME SettledInv, DijkstraLabel PROVE Frontier' /\ SettledIsFinal'
<1> SUFFICES ASSUME Searching' PROVE Frontier' /\ SettledIsFinal'
  BY DEF Frontier, SettledIsFinal, Searching
<1>1. PICK d \in todo : /\ Improves(d) /\ EndNode(d) \notin Settled
                        /\ Label(d)
                        /\ queue' = queue \cup {EndNode(d)}
                        /\ todo' = todo \ {d}
  BY DEF DijkstraLabel
<1> DEFINE e == EndNode(d)
<1>2. /\ pc = "search" /\ method = "DIJKSTRA" /\ UNCHANGED <<call, pc, here, found, error>>
      /\ len' = len
  BY DEF DijkstraLabel, len
<1>3. Searching /\ Frontier /\ SettledIsFinal
  BY <1>2 DEF Searching, SettledInv
<1>4. /\ d \in call.eligible /\ StartNode(d) = here /\ here \in Settled /\ len[d] >= 0
      /\ \A v \in Settled : dist[v] <= dist[here]
  BY <1>2, <1>3 DEF Frontier, Searching, SettledInv, LabelInv, Typed, ScansLabelled
<1>5. /\ e \in Nodes /\ here \in Nodes /\ len[d] \in Int /\ Settled \subseteq Nodes
      /\ Offer(d) = dist[here] + len[d] /\ Offer(d) \in Int /\ dist \in [Nodes -> Int]
  BY <1>4, SettledInvTypes
<1>6. /\ dist' = [dist EXCEPT ![e] = Offer(d)] /\ labelled' = labelled \cup {e}
      /\ Settled' = Settled
  BY <1>1 DEF Label, Settled
<1>7. /\ dist'[e] = Offer(d) /\ \A v \in Nodes \ {e} : dist'[v] = dist[v]
      /\ \A v \in Settled : dist'[v] = dist[v]
  BY <1>1, <1>5, <1>6
<1>8. e \in labelled => Offer(d) < dist[e]
  BY <1>1 DEF Improves
<1>9. ASSUME NEW g \in call.eligible, StartNode(g) \in Settled
      PROVE  /\ Offer(g)' = Offer(g)
             /\ EndNode(g) \in labelled /\ dist[EndNode(g)] <= Offer(g)
                  => EndNode(g) \in labelled' /\ dist'[EndNode(g)] <= Offer(g)'
  <2>1. Offer(g)' = Offer(g)
    BY <1>2, <1>7, <1>9 DEF Offer
  <2>2. EndNode(g) \in Nodes /\ Offer(g) \in Int /\ dist[EndNode(g)] \in Int
    BY SettledInvTypes
  <2>3. CASE EndNode(g) = e
    BY <1>5, <1>6, <1>7, <1>8, <2>1, <2>2, <2>3
  <2>4. CASE EndNode(g) # e
    BY <1>6, <1>7, <2>1, <2>2, <2>4
  <2> QED
    BY <2>1, <2>3, <2>4
<1>10. ASSUME NEW g \in call.eligible \ todo', StartNode(g) \in Settled \ {found}
       PROVE  EndNode(g) \in labelled' /\ dist'[EndNode(g)] <= Offer(g)'
  <2>1. CASE g = d
    BY <1>4, <1>5, <1>6, <1>7, <1>9, <2>1
  <2>2. CASE g # d
    <3>1. EndNode(g) \in labelled /\ dist[EndNode(g)] <= Offer(g)
      BY <1>1, <1>3, <1>10, <2>2 DEF SettledIsFinal, Searching
    <3> QED
      BY <1>9, <1>10, <3>1
  <2> QED
    BY <2>1, <2>2
<1>11. ASSUME NEW g \in todo', EndNode(g) \in Settled
       PROVE  ~(Improves(g))'
  <2>1. g \in todo /\ g \in call.eligible /\ StartNode(g) = here
    BY <1>1, <1>2 DEF SettledInv, LabelInv, Typed, ScansLabelled
  <2>2. ~Improves(g)
    BY <1>3, <1>11, <2>1 DEF SettledIsFinal, Searching
  <2>3. Offer(g)' = Offer(g)
    BY <1>4, <1>9, <2>1
  <2>4. dist'[EndNode(g)] = dist[EndNode(g)] /\ EndNode(g) \in labelled
    BY <1>7, <1>11 DEF Settled
  <2> QED
    BY <1>6, <2>2, <2>3, <2>4 DEF Improves
<1>12. ASSUME NEW v \in Settled, NEW w \in queue'
       PROVE  dist'[v] <= dist'[w]
  <2>1. dist'[v] = dist[v] /\ dist[v] \in Int /\ dist[here] \in Int /\ dist[v] <= dist[here]
    BY <1>4, <1>5, <1>7
  <2>2. CASE w = e
    <3>1. dist'[w] = dist[here] + len[d]
      BY <1>5, <1>7, <2>2
    <3> QED
      BY <1>4, <1>5, <2>1, <3>1
  <2>3. CASE w # e
    <3>1. w \in queue /\ w \in Nodes
      BY <1>1, <2>3 DEF SettledInv, LabelInv, Typed
    <3>2. dist[v] <= dist[w]
      BY <1>3, <3>1 DEF SettledIsFinal, Searching
    <3> QED
      BY <1>7, <2>1, <2>3, <3>1, <3>2
  <2> QED
    BY <2>2, <2>3
<1>13. Frontier'
  <2>1. \A v \in Settled : dist'[v] <= dist'[here]
    BY <1>4, <1>7
  <2>2. found # NoNode => pc = "done"
    BY <1>3 DEF Frontier
  <2> HIDE DEF e
  <2> QED
    BY <1>2, <1>4, <1>6, <2>1, <2>2 DEF Frontier, NoNode
<1>14. SettledIsFinal'
  <2>1. error' = "none"
    BY <1>2, <1>3 DEF SettledIsFinal, Searching
  <2> HIDE DEF e
  <2> QED
    BY <1>2, <1>6, <1>10, <1>11, <1>12, <2>1 DEF SettledIsFinal
<1> QED
  BY <1>13, <1>14

LEMMA StepKeepsSettled == SettledInv /\ [Next]_vars => SettledInv'
<1> SUFFICES ASSUME SettledInv, [Next]_vars PROVE SettledInv'
  OBVIOUS
<1>1. LabelInv'
  BY StepKeepsLabels DEF SettledInv
<1>2. CASE UNCHANGED vars
  <2>1. len' = len /\ Settled' = Settled /\ method' = method
        /\ \A d : Offer(d)' = Offer(d) /\ (Improves(d))' = Improves(d)
    BY <1>2 DEF vars, len, Settled, method, Offer, Improves
  <2>2. Frontier'
    BY <1>2, <2>1 DEF vars, SettledInv, Frontier, Searching, NoNode
  <2>3. SettledIsFinal'
    BY <1>2, <2>1 DEF vars, SettledInv, SettledIsFinal
  <2> QED
    BY <1>1, <2>2, <2>3 DEF SettledInv
<1>3. CASE \/ DijkstraStart \/ DijkstraTake \/ DijkstraSkip \/ NegativeLength \/ NoSuchItem
           \/ DijkstraLabel
  BY <1>1, <1>3, StartSettles, TakeSettles, SkipSettles, NothingFails, LabelSettles DEF SettledInv
<1>4. CASE DijkstraEnd
  <2>1. len' = len /\ Settled' = Settled /\ method' = method
        /\ (\A d : Offer(d)' = Offer(d) /\ (Improves(d))' = Improves(d))
    BY <1>4 DEF DijkstraEnd, Finish, len, Settled, method, Offer, Improves
  <2>2. Frontier'
    BY <1>4, <2>1 DEF DijkstraEnd, Finish, SettledInv, Frontier, Searching, NoNode
  <2>3. SettledIsFinal'
    BY <1>4, <2>1 DEF DijkstraEnd, Finish, SettledInv, SettledIsFinal
  <2> QED
    BY <1>1, <2>2, <2>3 DEF SettledInv
<1>5. CASE \/ BellmanStart \/ BellmanSkip \/ BellmanLabel \/ BellmanPass \/ BellmanFails
           \/ BellmanEnd
  <2>1. method # "DIJKSTRA" /\ method' = method
    BY <1>5 DEF BellmanStart, BellmanSkip, BellmanLabel, BellmanPass, BellmanFails, BellmanEnd,
                Throw, Finish, method
  <2> QED
    BY <1>1, <2>1 DEF SettledInv, Frontier, Searching, SettledIsFinal
<1>6. CASE \/ FIFOStart \/ FIFOTake \/ FIFOSkip \/ FIFOLabel \/ FIFOPass \/ FIFOEnd \/ FIFOFails
  <2>1. method # "DIJKSTRA" /\ method' = method
    BY <1>6 DEF FIFOStart, FIFOTake, FIFOSkip, FIFOLabel, FIFOPass, FIFOEnd, FIFOFails, Finish,
                method
  <2> QED
    BY <1>1, <2>1 DEF SettledInv, Frontier, Searching, SettledIsFinal
<1>7. CASE DAGStart \/ DAGTake \/ DAGRead \/ DAGFails \/ DAGEnd
  <2>1. method # "DIJKSTRA" /\ method' = method
    BY <1>7 DEF DAGStart, DAGTake, DAGRead, DAGFails, DAGEnd, Throw, Finish, method
  <2> QED
    BY <1>1, <2>1 DEF SettledInv, Frontier, Searching, SettledIsFinal
<1> QED
  BY <1>2, <1>3, <1>4, <1>5, <1>6, <1>7 DEF Next

\* With lengths that are not negative, what has left the heap of Dijkstra's method is final in
\* every graph, and the method never throws: the arcs of a settled node have been accounted
\* for, and no operation refers to a node that is not in the heap.
THEOREM SettledStaysFinal == Spec => []SettledIsFinal
<1>1. Init => SettledInv
  BY InitLabels DEF Init, SettledInv, Frontier, Searching, SettledIsFinal
<1>2. SettledInv => SettledIsFinal
  BY DEF SettledInv
<1> QED
  BY <1>1, <1>2, StepKeepsSettled, PTL DEF Spec

-----------------------------------------------------------------------------
(* The result of Dijkstra's method. *)

\* The predecessor arcs form trees that start at the sources and grow from nodes that are done.
Rooted ==
  /\ call.sources \subseteq labelled
  /\ pred \in [Nodes -> call.eligible \cup {NoArc}]
  /\ \A v \in Nodes : v \notin labelled \/ v \in call.sources => pred[v] = NoArc
  /\ \A v \in call.sources : dist[v] = 0
  /\ \A v \in labelled : dist[v] >= 0
  /\ \A v \in labelled \ call.sources :
       /\ pred[v] \in call.eligible /\ EndNode(pred[v]) = v
       /\ StartNode(pred[v]) \in Settled /\ dist[v] = Offer(pred[v])

\* The depth of a node in its tree, which is less than the number of the nodes that are done.
IsDepth(depth) ==
  /\ \A v \in call.sources : depth[v] = 0
  /\ \A v \in labelled \ call.sources : depth[v] = depth[StartNode(pred[v])] + 1
  /\ \A v \in Settled : depth[v] < Cardinality(Settled)
  /\ \A v \in queue : depth[v] <= Cardinality(Settled)

\* Depths of nodes in the trees.
Depths == [Nodes -> 0 .. N - 1]

\* A target that is done is the one that has been found, and the search ends with it or when
\* the heap is empty.
Goal ==
  /\ root = NoNode
  /\ \A v \in Settled \cap call.targets : v = found
  /\ found # NoNode => found \in Settled
  /\ pc = "done" => todo = {} /\ (found # NoNode \/ queue = {})

\* Before the start there is no tree.
Bare == pc = "start" => pred = [v \in Nodes |-> NoArc] /\ root = NoNode

\* What the search has built.
Grown == Searching => Rooted /\ Goal /\ \E depth \in Depths : IsDepth(depth)

\* The invariant behind the result.
TreeInv == SettledInv /\ Bare /\ Grown

LEMMA SettledSize ==
  ASSUME SettledInv
  PROVE  /\ N \in Nat /\ Cardinality(Settled) \in Nat /\ Cardinality(Settled) <= N
         /\ \A v \in Nodes \ Settled : /\ Cardinality(Settled \cup {v}) = Cardinality(Settled) + 1
                                       /\ Cardinality(Settled) + 1 <= N
<1>1. IsFiniteSet(Nodes) /\ Cardinality(Nodes) = N /\ N \in Nat
  BY GraphType, FS_Interval DEF Nodes
<1>2. \A S \in SUBSET Nodes : IsFiniteSet(S) /\ Cardinality(S) \in Nat /\ Cardinality(S) <= N
  BY <1>1, FS_Subset, FS_CardinalityType
<1>3. Settled \in SUBSET Nodes
  BY SettledInvTypes
<1>4. ASSUME NEW v \in Nodes \ Settled
      PROVE  /\ Cardinality(Settled \cup {v}) = Cardinality(Settled) + 1
             /\ Cardinality(Settled) + 1 <= N
  <2>1. Cardinality(Settled \cup {v}) = Cardinality(Settled) + 1
    BY <1>2, <1>3, FS_AddElement
  <2>2. Settled \cup {v} \in SUBSET Nodes
    BY <1>3
  <2> QED
    BY <1>2, <2>1, <2>2
<1> QED
  BY <1>1, <1>2, <1>3, <1>4

\* The start: every source is a tree of its own.
LEMMA StartGrows == ASSUME TreeInv, DijkstraStart PROVE Grown'
<1> SUFFICES ASSUME Searching' PROVE Rooted' /\ Goal' /\ \E depth \in Depths : IsDepth(depth)'
  BY DEF Grown, Depths, Nodes
<1>1. /\ call \in Calls /\ call.sources \subseteq Nodes
      /\ dist = [v \in Nodes |-> 0] /\ todo = {} /\ found = NoNode
      /\ pred = [v \in Nodes |-> NoArc] /\ root = NoNode
  BY SourcesAreNodes DEF DijkstraStart, TreeInv, Bare, SettledInv, LabelInv, Typed, Untouched
<1>2. /\ labelled' = call.sources /\ queue' = call.sources /\ Settled' = {} /\ pc' = "search"
      /\ UNCHANGED <<call, dist, pred, todo, found, root>>
  BY DEF DijkstraStart, Settled
<1>3. Rooted'
  BY <1>1, <1>2 DEF Rooted
<1>4. Goal'
  BY <1>1, <1>2 DEF Goal, NoNode
<1>5. [v \in Nodes |-> 0] \in Depths
  BY GraphType DEF Depths
<1>6. IsDepth([v \in Nodes |-> 0])'
  <2>1. Cardinality({}) = 0
    BY FS_EmptySet
  <2> QED
    BY <1>1, <1>2, <2>1 DEF IsDepth
<1> QED
  BY <1>3, <1>4, <1>5, <1>6

\* A nearest node is done; its depth is at most the number of the others that are.
LEMMA TakeGrows == ASSUME TreeInv, DijkstraTake PROVE Grown'
<1> SUFFICES ASSUME Searching' PROVE Rooted' /\ Goal' /\ \E depth \in Depths : IsDepth(depth)'
  BY DEF Grown, Depths, Nodes
<1>1. PICK u \in Nearest :
        /\ queue' = Deleted(u)
        /\ IF u \in call.targets THEN found' = u /\ pc' = "done" /\ todo' = {}
           ELSE UNCHANGED <<found, pc>>
  BY DEF DijkstraTake
<1>2. /\ pc = "search" /\ todo = {} /\ UNCHANGED <<call, dist, labelled, pred, root>>
      /\ len' = len
  BY DEF DijkstraTake, len
<1>3. Searching /\ SettledInv
  BY <1>2 DEF Searching, method, len, TreeInv
<1>4. Rooted /\ Goal /\ found = NoNode
  BY <1>2, <1>3 DEF TreeInv, Grown, SettledInv, Frontier
<1>5. PICK depth \in Depths : IsDepth(depth)
  BY <1>3 DEF TreeInv, Grown
<1>6. u \in queue /\ u \in labelled /\ u \in Nodes \ Settled
  BY <1>2, <1>3 DEF Nearest, SettledInv, LabelInv, Typed, ScansLabelled, Settled, Searching
<1>7. Settled' = Settled \cup {u} /\ queue' = queue \ {u}
  BY <1>1, <1>2, <1>6 DEF Settled, Deleted
<1>8. Rooted'
  <2>1. \A d : Offer(d)' = Offer(d)
    BY <1>2 DEF Offer
  <2> QED
    BY <1>2, <1>4, <1>7, <2>1 DEF Rooted
<1>9. Goal'
  <2>1. u # NoNode /\ \A v \in Settled \cap call.targets : FALSE
    BY <1>3, <1>4, <1>6, SettledInvTypes DEF Goal
  <2>2. \A v \in Settled' \cap call.targets : v = found'
    BY <1>1, <1>7, <2>1
  <2>3. found' # NoNode => found' \in Settled'
    BY <1>1, <1>4, <1>7
  <2>4. pc' = "done" => todo' = {} /\ found' # NoNode
    BY <1>1, <1>2, <2>1
  <2> QED
    BY <1>2, <1>4, <2>2, <2>3, <2>4 DEF Goal, NoNode
<1>10. IsDepth(depth)'
  <2>1. /\ Cardinality(Settled') = Cardinality(Settled) + 1 /\ Cardinality(Settled) \in Nat
    BY <1>3, <1>6, <1>7, SettledSize
  <2>2. queue \subseteq Nodes /\ Settled \subseteq Nodes /\ \A v \in Nodes : depth[v] \in Nat
    BY <1>3, <1>5, SettledInvTypes, GraphType DEF Depths, SettledInv, LabelInv, Typed
  <2>3. \A v \in Settled' : depth[v] < Cardinality(Settled')
    BY <1>5, <1>6, <1>7, <2>1, <2>2 DEF IsDepth
  <2>4. \A v \in queue' : depth[v] <= Cardinality(Settled')
    BY <1>5, <1>7, <2>1, <2>2 DEF IsDepth
  <2> QED
    BY <1>2, <1>5, <2>3, <2>4 DEF IsDepth
<1> QED
  BY <1>5, <1>8, <1>9, <1>10
\* An arc is read that offers nothing.
LEMMA SkipGrows == ASSUME TreeInv, DijkstraSkip PROVE Grown'
<1> SUFFICES ASSUME Searching' PROVE Rooted' /\ Goal' /\ \E depth \in Depths : IsDepth(depth)'
  BY DEF Grown, Depths, Nodes
<1>1. /\ pc = "search" /\ UNCHANGED <<call, pc, dist, labelled, pred, queue, found, root>>
      /\ len' = len /\ Settled' = Settled
  BY DEF DijkstraSkip, len, Settled
<1>2. Searching
  BY <1>1 DEF Searching, method, len
<1>3. PICK depth \in Depths : IsDepth(depth)
  BY <1>2 DEF TreeInv, Grown
<1>4. Rooted'
  <2>1. \A d : Offer(d)' = Offer(d)
    BY <1>1 DEF Offer
  <2> QED
    BY <1>1, <1>2, <2>1 DEF TreeInv, Grown, Rooted
<1>5. Goal'
  BY <1>1, <1>2 DEF TreeInv, Grown, Goal, NoNode
<1>6. IsDepth(depth)'
  BY <1>1, <1>3 DEF IsDepth
<1> QED
  BY <1>3, <1>4, <1>5, <1>6

\* A node that is not done gets a label and a new place in a tree, below a node that is done.
LEMMA LabelGrows == ASSUME TreeInv, DijkstraLabel PROVE Grown'
<1> SUFFICES ASSUME Searching' PROVE Rooted' /\ Goal' /\ \E depth \in Depths : IsDepth(depth)'
  BY DEF Grown, Depths, Nodes
<1>1. PICK d \in todo : /\ Improves(d) /\ EndNode(d) \notin Settled
                        /\ Label(d)
                        /\ queue' = queue \cup {EndNode(d)}
  BY DEF DijkstraLabel
<1> DEFINE e == EndNode(d)
<1>2. /\ pc = "search" /\ UNCHANGED <<call, pc, here, found, root>> /\ len' = len
  BY DEF DijkstraLabel, len
<1>3. Searching /\ SettledInv
  BY <1>2 DEF Searching, method, len, TreeInv
<1>4. PICK depth \in Depths : IsDepth(depth)
  BY <1>3 DEF TreeInv, Grown
<1>5. /\ d \in call.eligible /\ StartNode(d) = here /\ here \in Settled /\ len[d] >= 0
  BY <1>2, <1>3 DEF Frontier, Searching, SettledInv, LabelInv, Typed, ScansLabelled
<1>6. /\ e \in Nodes \ Settled /\ here \in Nodes /\ here # e /\ len[d] \in Int
      /\ Settled \subseteq Nodes /\ labelled \subseteq Nodes /\ queue \subseteq Nodes
      /\ Offer(d) = dist[here] + len[d] /\ Offer(d) \in Int /\ dist \in [Nodes -> Int]
  BY <1>1, <1>3, <1>5, SettledInvTypes DEF SettledInv, LabelInv, Typed
<1>7. Rooted /\ Goal
  BY <1>3 DEF TreeInv, Grown
<1>8. here \in labelled /\ dist[here] >= 0 /\ Offer(d) >= 0
  <2>1. here \in labelled
    BY <1>5 DEF Settled
  <2>2. dist[here] >= 0 /\ dist[here] \in Int
    BY <1>6, <1>7, <2>1 DEF Rooted
  <2> QED
    BY <1>5, <1>6, <2>1, <2>2
<1>9. e \notin call.sources
  <2> SUFFICES ASSUME e \in call.sources PROVE FALSE
    OBVIOUS
  <2>1. e \in labelled /\ dist[e] = 0
    BY <1>7 DEF Rooted
  <2> QED
    BY <1>1, <1>6, <1>8, <2>1 DEF Improves
<1>10. /\ dist' = [dist EXCEPT ![e] = Offer(d)] /\ labelled' = labelled \cup {e}
       /\ pred' = [pred EXCEPT ![e] = d] /\ Settled' = Settled /\ queue' = queue \cup {e}
  BY <1>1 DEF Label, Settled
<1>11. /\ pred \in [Nodes -> call.eligible \cup {NoArc}]
       /\ pred' \in [Nodes -> call.eligible \cup {NoArc}]
  BY <1>5, <1>7, <1>10 DEF Rooted
<1>12. /\ dist'[e] = Offer(d) /\ pred'[e] = d
       /\ \A v \in Nodes \ {e} : dist'[v] = dist[v] /\ pred'[v] = pred[v]
  BY <1>6, <1>10, <1>11
<1> HIDE DEF e
<1>13. Rooted'
  <2>1. call.sources \subseteq labelled'
    BY <1>7, <1>10 DEF Rooted
  <2>2. ASSUME NEW v \in Nodes, v \notin labelled' \/ v \in call.sources PROVE pred'[v] = NoArc
    BY <1>7, <1>9, <1>10, <1>12, <2>2 DEF Rooted
  <2>3. ASSUME NEW v \in call.sources PROVE dist'[v] = 0
    <3>1. v \in Nodes /\ v # e
      BY <1>6, <1>7, <1>9 DEF Rooted
    <3> QED
      BY <1>7, <1>12, <3>1 DEF Rooted
  <2>4. ASSUME NEW v \in labelled' PROVE dist'[v] >= 0
    BY <1>6, <1>7, <1>8, <1>10, <1>12 DEF Rooted
  <2>5. ASSUME NEW v \in labelled' \ call.sources
        PROVE  /\ pred'[v] \in call.eligible /\ EndNode(pred'[v]) = v
               /\ StartNode(pred'[v]) \in Settled
               /\ dist'[v] = dist'[StartNode(pred'[v])] + len[pred'[v]]
    <3>1. CASE v = e
      <4>1. pred'[v] = d /\ dist'[v] = Offer(d) /\ dist'[here] = dist[here]
        BY <1>6, <1>12, <3>1
      <4> QED
        BY <1>5, <1>6, <3>1, <4>1 DEF e
    <3>2. CASE v # e
      <4>1. v \in labelled \ call.sources /\ v \in Nodes \ {e}
        BY <1>6, <1>10, <3>2
      <4>2. /\ pred[v] \in call.eligible /\ EndNode(pred[v]) = v
            /\ StartNode(pred[v]) \in Settled /\ dist[v] = Offer(pred[v])
        BY <1>7, <4>1 DEF Rooted
      <4>3. /\ pred'[v] = pred[v] /\ dist'[v] = dist[v]
            /\ dist'[StartNode(pred[v])] = dist[StartNode(pred[v])]
        BY <1>6, <1>12, <4>1, <4>2
      <4> QED
        BY <4>2, <4>3 DEF Offer
    <3> QED
      BY <3>1, <3>2
  <2> QED
    BY <1>2, <1>10, <1>11, <2>1, <2>2, <2>3, <2>4, <2>5 DEF Rooted, Offer
<1>14. Goal'
  BY <1>2, <1>7, <1>10 DEF Goal, NoNode
<1>15. /\ depth \in [Nodes -> 0 .. N - 1] /\ N \in Nat /\ Cardinality(Settled) \in Nat
       /\ depth[here] \in Nat /\ depth[here] + 1 <= Cardinality(Settled)
       /\ Cardinality(Settled) + 1 <= N
  <2>1. /\ N \in Nat /\ Cardinality(Settled) \in Nat /\ Cardinality(Settled) + 1 <= N
    BY <1>3, <1>6, SettledSize
  <2>2. depth \in [Nodes -> 0 .. N - 1] /\ depth[here] < Cardinality(Settled)
    BY <1>4, <1>5 DEF Depths, IsDepth
  <2>3. depth[here] \in Nat
    BY <1>6, <2>1, <2>2
  <2> QED
    BY <2>1, <2>2, <2>3
<1>16. PICK below \in Depths : /\ below[e] = depth[here] + 1
                               /\ \A v \in Nodes \ {e} : below[v] = depth[v]
  <2>1. depth[here] + 1 \in 0 .. N - 1
    BY <1>15
  <2>2. [depth EXCEPT ![e] = depth[here] + 1] \in Depths
    BY <1>6, <1>15, <2>1 DEF Depths
  <2>3. /\ [depth EXCEPT ![e] = depth[here] + 1][e] = depth[here] + 1
        /\ \A v \in Nodes \ {e} : [depth EXCEPT ![e] = depth[here] + 1][v] = depth[v]
    BY <1>6, <1>15
  <2> QED
    BY <2>2, <2>3
<1>17. IsDepth(below)'
  <2>1. \A v \in call.sources : below[v] = 0
    <3>1. \A v \in call.sources : v \in Nodes \ {e}
      BY <1>6, <1>7, <1>9 DEF Rooted
    <3> QED
      BY <1>4, <1>16, <3>1 DEF IsDepth
  <2>2. ASSUME NEW v \in labelled' \ call.sources
        PROVE  below[v] = below[StartNode(pred'[v])] + 1
    <3>1. CASE v = e
      <4>1. pred'[v] = d /\ StartNode(d) = here /\ below[here] = depth[here]
        BY <1>5, <1>6, <1>12, <1>16, <3>1
      <4> QED
        BY <1>16, <3>1, <4>1
    <3>2. CASE v # e
      <4>1. v \in labelled \ call.sources /\ v \in Nodes \ {e}
        BY <1>6, <1>10, <3>2
      <4>2. StartNode(pred[v]) \in Settled /\ depth[v] = depth[StartNode(pred[v])] + 1
        BY <1>4, <1>7, <4>1 DEF Rooted, IsDepth
      <4>3. StartNode(pred[v]) \in Nodes \ {e} /\ pred'[v] = pred[v]
        BY <1>6, <1>12, <4>1, <4>2
      <4> QED
        BY <1>16, <4>1, <4>2, <4>3
    <3> QED
      BY <3>1, <3>2
  <2>3. \A v \in Settled : below[v] < Cardinality(Settled)
    <3>1. \A v \in Settled : v \in Nodes \ {e}
      BY <1>6
    <3> QED
      BY <1>4, <1>16, <3>1 DEF IsDepth
  <2>4. ASSUME NEW v \in queue \cup {e} PROVE below[v] <= Cardinality(Settled)
    <3>1. CASE v = e
      BY <1>15, <1>16, <3>1
    <3>2. CASE v # e
      <4>1. v \in queue /\ v \in Nodes \ {e}
        BY <1>6, <3>2
      <4> QED
        BY <1>4, <1>16, <4>1 DEF IsDepth
    <3> QED
      BY <3>1, <3>2
  <2> QED
    BY <1>2, <1>10, <2>1, <2>2, <2>3, <2>4 DEF IsDepth
<1> QED
  BY <1>13, <1>14, <1>16, <1>17
\* What the other methods do does not matter, and a failure there is none.
LEMMA StepGrows == TreeInv /\ [Next]_vars => TreeInv'
<1> SUFFICES ASSUME TreeInv, [Next]_vars PROVE TreeInv'
  OBVIOUS
<1>1. SettledInv'
  BY StepKeepsSettled DEF TreeInv
<1>2. Bare'
  <2>1. CASE UNCHANGED vars
    BY <2>1 DEF TreeInv, Bare, vars, NoNode
  <2>2. CASE Next
    <3>1. pc' # "start"
      BY <2>2 DEF Next, DijkstraStart, DijkstraTake, DijkstraSkip, NegativeLength, NoSuchItem,
           DijkstraLabel, DijkstraEnd, BellmanStart, BellmanSkip, BellmanLabel, BellmanPass,
           BellmanFails, BellmanEnd, FIFOStart, FIFOTake, FIFOSkip, FIFOLabel, FIFOPass, FIFOEnd,
           FIFOFails, DAGStart, DAGTake, DAGRead, DAGFails, DAGEnd, Throw, Finish
    <3> QED
      BY <3>1 DEF Bare
  <2> QED
    BY <2>1, <2>2
<1>3. ASSUME UNCHANGED <<call, pc, dist, labelled, pred, queue, todo, found, root>>
      PROVE  Grown'
  <2> SUFFICES ASSUME Searching'
               PROVE  Rooted' /\ Goal' /\ \E depth \in Depths : IsDepth(depth)'
    BY DEF Grown, Depths, Nodes
  <2>1. len' = len /\ Settled' = Settled /\ \A d : Offer(d)' = Offer(d)
    BY <1>3 DEF len, Settled, Offer
  <2>2. Searching
    BY <1>3 DEF Searching, method, len
  <2>3. PICK depth \in Depths : IsDepth(depth)
    BY <2>2 DEF TreeInv, Grown
  <2>4. Rooted'
    BY <1>3, <2>1, <2>2 DEF TreeInv, Grown, Rooted
  <2>5. Goal'
    BY <1>3, <2>1, <2>2 DEF TreeInv, Grown, Goal, NoNode
  <2>6. IsDepth(depth)'
    BY <1>3, <2>1, <2>3 DEF IsDepth
  <2> QED
    BY <2>3, <2>4, <2>5, <2>6
<1>4. CASE UNCHANGED vars
  BY <1>1, <1>2, <1>3, <1>4 DEF vars, TreeInv
<1>5. CASE DijkstraStart \/ DijkstraTake \/ DijkstraSkip \/ DijkstraLabel
  BY <1>1, <1>2, <1>5, StartGrows, TakeGrows, SkipGrows, LabelGrows DEF TreeInv
<1>6. CASE NegativeLength \/ NoSuchItem
  <2>1. ~Searching'
    BY <1>6, NothingIsThrown DEF TreeInv
  <2> QED
    BY <1>1, <1>2, <2>1 DEF TreeInv, Grown
<1>7. CASE DijkstraEnd
  <2> SUFFICES ASSUME Searching'
               PROVE  Rooted' /\ Goal' /\ \E depth \in Depths : IsDepth(depth)'
    BY <1>1, <1>2 DEF TreeInv, Grown, Depths, Nodes
  <2>1. /\ pc = "search" /\ todo = {} /\ queue = {}
        /\ UNCHANGED <<call, dist, labelled, pred, queue, todo, found, root>>
        /\ len' = len /\ Settled' = Settled /\ \A d : Offer(d)' = Offer(d)
    BY <1>7 DEF DijkstraEnd, Finish, len, Settled, Offer
  <2>2. Searching
    BY <2>1 DEF Searching, method, len
  <2>3. PICK depth \in Depths : IsDepth(depth)
    BY <2>2 DEF TreeInv, Grown
  <2>4. Rooted'
    BY <2>1, <2>2 DEF TreeInv, Grown, Rooted
  <2>5. Goal'
    BY <2>1, <2>2 DEF TreeInv, Grown, Goal, NoNode
  <2>6. IsDepth(depth)'
    BY <2>1, <2>3 DEF IsDepth
  <2> QED
    BY <2>3, <2>4, <2>5, <2>6
<1>8. CASE \/ BellmanStart \/ BellmanSkip \/ BellmanLabel \/ BellmanPass \/ BellmanFails
           \/ BellmanEnd
  <2>1. method' # "DIJKSTRA"
    BY <1>8 DEF BellmanStart, BellmanSkip, BellmanLabel, BellmanPass, BellmanFails, BellmanEnd,
                Throw, Finish, method
  <2> QED
    BY <1>1, <1>2, <2>1 DEF TreeInv, Grown, Searching
<1>9. CASE \/ FIFOStart \/ FIFOTake \/ FIFOSkip \/ FIFOLabel \/ FIFOPass \/ FIFOEnd \/ FIFOFails
  <2>1. method' # "DIJKSTRA"
    BY <1>9 DEF FIFOStart, FIFOTake, FIFOSkip, FIFOLabel, FIFOPass, FIFOEnd, FIFOFails, Finish,
                method
  <2> QED
    BY <1>1, <1>2, <2>1 DEF TreeInv, Grown, Searching
<1>10. CASE DAGStart \/ DAGTake \/ DAGRead \/ DAGFails \/ DAGEnd
  <2>1. method' # "DIJKSTRA"
    BY <1>10 DEF DAGStart, DAGTake, DAGRead, DAGFails, DAGEnd, Throw, Finish, method
  <2> QED
    BY <1>1, <1>2, <2>1 DEF TreeInv, Grown, Searching
<1> QED
  BY <1>4, <1>5, <1>6, <1>7, <1>8, <1>9, <1>10 DEF Next

LEMMA TreesStayGrown == Spec => []TreeInv
<1>1. Init => TreeInv
  BY InitLabels DEF Init, TreeInv, Bare, Grown, SettledInv, Frontier, Searching, SettledIsFinal
<1> QED
  BY <1>1, StepGrows, PTL DEF Spec
-----------------------------------------------------------------------------
(* The distances, which are defined by recursion on the number of arcs. *)

\* A set of natural numbers that holds zero and the successors of its members holds all.
LEMMA AllNumbers ==
  ASSUME NEW B \in SUBSET Nat, 0 \in B, \A n \in B : n + 1 \in B
  PROVE  B = Nat
<1> SUFFICES ASSUME Nat \ B # {} PROVE FALSE
  OBVIOUS
<1>1. PICK n \in Nat \ B : \A m \in Nat \ B : ~(<<m, n>> \in OpToRel(<, Nat))
  BY NatLessThanWellFounded, WFMin
<1>2. n # 0 /\ n - 1 \in Nat /\ n - 1 < n /\ (n - 1) + 1 = n
  OBVIOUS
<1>3. n - 1 \notin B
  BY <1>1, <1>2
<1> QED
  BY <1>1, <1>2, <1>3 DEF OpToRel

\* Repeating a step defines a function.
LEMMA IterationExists ==
  ASSUME NEW D, NEW F \in [D -> D], NEW a \in D
  PROVE  \E g : /\ g = [k \in Nat |-> IF k = 0 THEN a ELSE F[g[k - 1]]]
                /\ g \in [Nat -> D]
<1> DEFINE Begins(h, n) == /\ h \in [0 .. n -> D] /\ h[0] = a
                           /\ \A k \in 0 .. n - 1 : h[k + 1] = F[h[k]]
           B == {n \in Nat : \E h : Begins(h, n)}
<1>1. B = Nat
  <2>1. 0 \in B
    <3>1. Begins([k \in 0 .. 0 |-> a], 0)
      OBVIOUS
    <3> HIDE DEF Begins
    <3> QED
      BY <3>1
  <2>2. ASSUME NEW n \in B PROVE n + 1 \in B
    <3>1. PICK h : Begins(h, n)
      OBVIOUS
    <3> DEFINE e == [k \in 0 .. n + 1 |-> IF k = n + 1 THEN F[h[n]] ELSE h[k]]
    <3>2. n \in Nat /\ h[n] \in D /\ F[h[n]] \in D
      BY <3>1
    <3>3. e \in [0 .. n + 1 -> D]
      BY <3>1, <3>2
    <3>4. e[0] = a
      BY <3>1, <3>2
    <3>5. ASSUME NEW k \in 0 .. (n + 1) - 1 PROVE e[k + 1] = F[e[k]]
      <4>1. k \in Nat /\ k <= n /\ e[k] = h[k]
        BY <3>2
      <4>2. CASE k = n
        BY <3>2, <4>1, <4>2
      <4>3. CASE k # n
        <5>1. k \in 0 .. n - 1 /\ k + 1 \in 0 .. n + 1 /\ k + 1 # n + 1
          BY <3>2, <4>1, <4>3
        <5> QED
          BY <3>1, <4>1, <5>1
      <4> QED
        BY <4>2, <4>3
    <3>6. Begins(e, n + 1)
      BY <3>3, <3>4, <3>5
    <3> HIDE DEF Begins, e
    <3> QED
      BY <3>2, <3>6
  <2> HIDE DEF B
  <2>3. B \in SUBSET Nat
    BY DEF B
  <2> QED
    BY <2>1, <2>2, <2>3, AllNumbers
<1> DEFINE part(n) == CHOOSE h : Begins(h, n)
           g == [k \in Nat |-> part(k)[k]]
<1>2. \A n \in Nat : Begins(part(n), n)
  <2> HIDE DEF Begins
  <2> QED
    BY <1>1
<1> HIDE DEF part
<1>3. ASSUME NEW n \in Nat, NEW k \in Nat, k < n
      PROVE  part(n)[k + 1] = F[part(n)[k]]
  <2>1. k \in 0 .. n - 1
    BY <1>3
  <2> QED
    BY <1>2, <2>1
<1> DEFINE E == {k \in Nat : \A n, m \in Nat : k <= n /\ k <= m => part(n)[k] = part(m)[k]}
<1>4. E = Nat
  <2>1. 0 \in E
    BY <1>2
  <2>2. ASSUME NEW k \in E PROVE k + 1 \in E
    <3> SUFFICES ASSUME NEW n \in Nat, NEW m \in Nat, k + 1 <= n, k + 1 <= m
                 PROVE  part(n)[k + 1] = part(m)[k + 1]
      OBVIOUS
    <3>1. k \in Nat /\ k < n /\ k < m /\ k <= n /\ k <= m
      OBVIOUS
    <3>2. part(n)[k] = part(m)[k]
      BY <3>1
    <3> QED
      BY <1>3, <3>1, <3>2
  <2> HIDE DEF E
  <2>3. E \in SUBSET Nat
    BY DEF E
  <2> QED
    BY <2>1, <2>2, <2>3, AllNumbers
<1>5. ASSUME NEW k \in Nat
      PROVE  g[k] \in D /\ g[k] = IF k = 0 THEN a ELSE F[g[k - 1]]
  <2>1. part(k)[k] \in D /\ part(0)[0] = a
    BY <1>2
  <2>2. CASE k = 0
    BY <2>1, <2>2
  <2>3. CASE k # 0
    <3>1. k - 1 \in Nat /\ k - 1 < k /\ (k - 1) + 1 = k
      BY <2>3
    <3>2. part(k)[k] = F[part(k)[k - 1]]
      BY <1>3, <3>1
    <3>3. part(k)[k - 1] = part(k - 1)[k - 1]
      BY <1>4, <3>1
    <3> QED
      BY <2>1, <2>3, <3>1, <3>2, <3>3
  <2> QED
    BY <2>2, <2>3
<1> HIDE DEF part
<1>6. g = [k \in Nat |-> IF k = 0 THEN a ELSE F[g[k - 1]]]
  BY <1>5
<1>7. g \in [Nat -> D]
  BY <1>5
<1> HIDE DEF g
<1> QED
  BY <1>6, <1>7

\* Every nonempty set of natural numbers has a least member.
LEMMA LeastNumber ==
  ASSUME NEW S \in SUBSET Nat, S # {}
  PROVE  Least(S) \in S /\ \A y \in S : Least(S) <= y
<1>1. PICK x \in S : \A y \in S : ~(<<y, x>> \in OpToRel(<, Nat))
  BY NatLessThanWellFounded, WFMin
<1>2. ASSUME NEW y \in S PROVE x <= y
  <2>1. x \in Nat /\ y \in Nat
    OBVIOUS
  <2>2. ~(y < x)
    BY <1>1, <2>1 DEF OpToRel
  <2> QED
    BY <2>1, <2>2
<1> QED
  BY <1>2 DEF Least

\* The lengths of the walks to v that the walks of w can be prolonged to, by one arc at most.
Prolonged(w, v) ==
  w[v] \cup UNION {{x + len[d] : x \in w[StartNode(d)]} :
                     d \in {e \in call.eligible : EndNode(e) = v}}

\* One arc more: the recursion that ShortestWalks makes.
WalkStep(w) ==
  [v \in Nodes |-> IF Prolonged(w, v) = {} THEN {} ELSE {Least(Prolonged(w, v))}]

\* The lengths of shortest walks, by their number of arcs.
IsWalk(walk) ==
  walk = [k \in Nat |-> IF k = 0 THEN [v \in Nodes |-> IF v \in call.sources THEN {0} ELSE {}]
                        ELSE WalkStep(walk[k - 1])]

LEMMA WalksAreRecursive ==
  ShortestWalks = [k \in {N - 1, N} |-> (CHOOSE walk : IsWalk(walk))[k]]
BY Zenon DEF ShortestWalks, IsWalk, WalkStep, Prolonged

\* At most one length for every node.
Lengths == [Nodes -> {{}} \cup {{x} : x \in Int}]

\* Every nonempty finite set of integers has a least member: one with the fewest below it.
LEMMA LeastOfFinite ==
  ASSUME NEW S \in SUBSET Int, IsFiniteSet(S), S # {}
  PROVE  Least(S) \in S /\ \A y \in S : Least(S) <= y
<1> DEFINE Below(x) == {y \in S : y < x}
           C == {Cardinality(Below(x)) : x \in S}
<1>1. \A x \in S : IsFiniteSet(Below(x)) /\ Cardinality(Below(x)) \in Nat
  BY FS_Subset, FS_CardinalityType
<1>2. PICK n \in C : \A m \in C : n <= m
  <2>1. C \in SUBSET Nat /\ C # {}
    BY <1>1
  <2> HIDE DEF C
  <2> QED
    BY <2>1, LeastNumber
<1>3. PICK x \in S : n = Cardinality(Below(x))
  BY DEF C
<1>4. ASSUME NEW y \in S, y < x PROVE FALSE
  <2>1. Below(y) \in SUBSET Below(x) /\ y \in Below(x) /\ y \notin Below(y)
    <3>1. x \in Int /\ y \in Int /\ ~(y < y)
      OBVIOUS
    <3>2. ASSUME NEW z \in S, z < y PROVE z < x
      BY <1>4, <3>1, <3>2
    <3> QED
      BY <1>4, <3>1, <3>2
  <2>2. Cardinality(Below(y)) <= Cardinality(Below(x))
        /\ Cardinality(Below(y)) # Cardinality(Below(x))
    BY <1>1, <2>1, FS_Subset
  <2>3. Cardinality(Below(x)) <= Cardinality(Below(y))
    BY <1>2, <1>3 DEF C
  <2> HIDE DEF Below
  <2> QED
    BY <1>1, <2>2, <2>3
<1>5. \A y \in S : x <= y
  BY <1>4
<1> QED
  BY <1>5 DEF Least

\* A step takes the least of the lengths that it gets.
LEMMA WalkStepIsLeast ==
  ASSUME call \in Calls, NEW w \in Lengths
  PROVE  /\ WalkStep(w) \in Lengths
         /\ \A v \in Nodes : \A x \in WalkStep(w)[v] :
              /\ x \in Prolonged(w, v) /\ WalkStep(w)[v] = {x}
              /\ \A y \in Prolonged(w, v) : x <= y
         /\ \A v \in Nodes : Prolonged(w, v) # {} => WalkStep(w)[v] # {}
<1>1. ASSUME NEW v \in Nodes
      PROVE  Prolonged(w, v) \in SUBSET Int /\ IsFiniteSet(Prolonged(w, v))
  <2>1. w[v] = {} \/ \E x \in Int : w[v] = {x}
    BY DEF Lengths
  <2>2. ASSUME NEW d \in call.eligible
        PROVE  w[StartNode(d)] = {} \/ \E x \in Int : w[StartNode(d)] = {x} /\ x + len[d] \in Int
    BY EligibleDarts DEF Lengths
  <2>3. Prolonged(w, v) \in SUBSET Int
    BY <2>1, <2>2 DEF Prolonged
  <2> DEFINE g == [d \in call.eligible |-> (CHOOSE x \in w[StartNode(d)] : TRUE) + len[d]]
             R == {g[d] : d \in call.eligible}
  <2>4. Prolonged(w, v) \subseteq w[v] \cup R
    <3>1. ASSUME NEW d \in call.eligible, NEW x \in w[StartNode(d)] PROVE x + len[d] = g[d]
      BY <2>2
    <3> HIDE DEF g
    <3> QED
      BY <3>1 DEF Prolonged
  <2>5. IsFiniteSet(call.eligible)
    <3>1. IsFiniteSet({0, 1}) /\ IsFiniteSet(Arcs)
      <4>1. IsFiniteSet({0} \cup {1}) /\ {0} \cup {1} = {0, 1}
        BY FS_Singleton, FS_Union
      <4> QED
        BY <4>1, GraphType
    <3>2. IsFiniteSet(Darts) /\ call.eligible \in SUBSET Darts
      BY <3>1, FS_Product, CallsType DEF Darts
    <3> QED
      BY <3>2, FS_Subset
  <2>6. IsFiniteSet(R)
    <3> HIDE DEF g
    <3>1. g \in [call.eligible -> R]
      BY DEF g
    <3>2. g \in Surjection(call.eligible, R)
      BY <3>1 DEF Surjection
    <3> QED
      BY <2>5, <3>2, FS_Surjection
  <2>7. IsFiniteSet(w[v])
    BY <2>1, FS_EmptySet, FS_Singleton
  <2>8. IsFiniteSet(w[v] \cup R)
    BY <2>6, <2>7, FS_Union
  <2> QED
    BY <2>3, <2>4, <2>8, FS_Subset
<1>2. ASSUME NEW v \in Nodes
      PROVE  \/ Prolonged(w, v) = {} /\ WalkStep(w)[v] = {}
             \/ \E x \in Prolonged(w, v) : /\ WalkStep(w)[v] = {x} /\ x \in Int
                                           /\ \A y \in Prolonged(w, v) : x <= y
  <2>1. CASE Prolonged(w, v) = {}
    BY <2>1 DEF WalkStep
  <2>2. CASE Prolonged(w, v) # {}
    <3>1. /\ Least(Prolonged(w, v)) \in Prolonged(w, v)
          /\ \A y \in Prolonged(w, v) : Least(Prolonged(w, v)) <= y
      BY <1>1, <2>2, LeastOfFinite
    <3>2. WalkStep(w)[v] = {Least(Prolonged(w, v))}
      BY <2>2 DEF WalkStep
    <3> QED
      BY <1>1, <3>1, <3>2
  <2> QED
    BY <2>1, <2>2
<1>3. WalkStep(w) \in Lengths
  <2>1. \A v \in Nodes : WalkStep(w)[v] \in {{}} \cup {{x} : x \in Int}
    BY <1>2
  <2>2. WalkStep(w) = [v \in Nodes |-> WalkStep(w)[v]]
    BY DEF WalkStep
  <2> QED
    BY <2>1, <2>2 DEF Lengths
<1> QED
  BY <1>2, <1>3

\* There are such walks ...
LEMMA WalksExist == ASSUME call \in Calls PROVE \E walk : IsWalk(walk)
<1> DEFINE F == [w \in Lengths |-> WalkStep(w)]
           a == [v \in Nodes |-> IF v \in call.sources THEN {0} ELSE {}]
<1>1. F \in [Lengths -> Lengths] /\ \A w \in Lengths : F[w] = WalkStep(w)
  BY WalkStepIsLeast
<1>2. a \in Lengths
  BY DEF Lengths
<1> HIDE DEF F
<1>3. PICK g : g = [k \in Nat |-> IF k = 0 THEN a ELSE F[g[k - 1]]] /\ g \in [Nat -> Lengths]
  <2> DEFINE D == Lengths
  <2>1. F \in [D -> D] /\ a \in D
    BY <1>1, <1>2
  <2> HIDE DEF D, a
  <2>2. \E g : g = [k \in Nat |-> IF k = 0 THEN a ELSE F[g[k - 1]]] /\ g \in [Nat -> D]
    BY <2>1, IterationExists
  <2> QED
    BY <2>2, Zenon DEF D
<1>4. ASSUME NEW k \in Nat
      PROVE  (IF k = 0 THEN a ELSE F[g[k - 1]]) = IF k = 0 THEN a ELSE WalkStep(g[k - 1])
  <2>1. CASE k = 0
    BY <2>1
  <2>2. CASE k # 0
    <3>1. k - 1 \in Nat
      BY <2>2
    <3> QED
      BY <1>1, <1>3, <2>2, <3>1
  <2> QED
    BY <2>1, <2>2
<1>5. g = [k \in Nat |-> IF k = 0 THEN a ELSE WalkStep(g[k - 1])]
  <2> HIDE DEF a
  <2> QED
    BY <1>3, <1>4
<1>6. IsWalk(g)
  BY <1>5, Zenon DEF IsWalk
<1> QED
  BY <1>6

\* ... and every step of them prolongs the walks before.
LEMMA WalkSteps ==
  ASSUME call \in Calls, NEW walk, IsWalk(walk)
  PROVE  /\ walk[0] = [v \in Nodes |-> IF v \in call.sources THEN {0} ELSE {}]
         /\ \A k \in Nat : walk[k] \in Lengths /\ walk[k + 1] = WalkStep(walk[k])
<1>1. walk[0] = [v \in Nodes |-> IF v \in call.sources THEN {0} ELSE {}]
  BY DEF IsWalk
<1>2. ASSUME NEW k \in Nat PROVE walk[k + 1] = WalkStep(walk[k])
  <2>1. k + 1 \in Nat /\ k + 1 # 0 /\ (k + 1) - 1 = k
    OBVIOUS
  <2> QED
    BY <2>1 DEF IsWalk
<1> DEFINE B == {k \in Nat : walk[k] \in Lengths}
<1>3. 0 \in B
  BY <1>1 DEF Lengths
<1>4. ASSUME NEW k \in B PROVE k + 1 \in B
  BY <1>2, WalkStepIsLeast
<1>5. B = Nat
  <2> HIDE DEF B
  <2>1. B \in SUBSET Nat
    BY DEF B
  <2> QED
    BY <1>3, <1>4, <2>1, AllNumbers
<1> QED
  BY <1>1, <1>2, <1>5
\* When the search is over, no walk leads to a node by a shorter way, except past the target
\* that has been found.
LEMMA WalksAreLong ==
  ASSUME TreeInv, Searching, pc = "done", NEW walk, IsWalk(walk)
  PROVE  \A k \in Nat : \A v \in Nodes : \A x \in walk[k][v] :
           \/ v \in labelled /\ dist[v] <= x
           \/ found # NoNode /\ dist[found] <= x
<1> DEFINE Bounded(v, x) == \/ v \in labelled /\ dist[v] <= x
                            \/ found # NoNode /\ dist[found] <= x
           B == {k \in Nat : \A v \in Nodes : \A x \in walk[k][v] : Bounded(v, x)}
<1>1. /\ walk[0] = [v \in Nodes |-> IF v \in call.sources THEN {0} ELSE {}]
      /\ \A k \in Nat : walk[k] \in Lengths /\ walk[k + 1] = WalkStep(walk[k])
  BY WalkSteps, SettledInvTypes DEF TreeInv
<1>2. Rooted /\ Goal /\ SettledInv
  BY DEF TreeInv, Grown
<1>3. 0 \in B
  BY <1>1, <1>2 DEF Rooted
<1>4. /\ dist \in [Nodes -> Int] /\ labelled \subseteq Nodes /\ Settled \subseteq Nodes
      /\ NoNode \notin Nodes
  BY <1>2, SettledInvTypes DEF SettledInv, LabelInv, Typed
<1>5. ASSUME NEW d \in call.eligible, NEW y \in Int, Bounded(StartNode(d), y)
      PROVE  Bounded(EndNode(d), y + len[d])
  <2>1. /\ len[d] \in Int /\ len[d] >= 0 /\ StartNode(d) \in Nodes /\ EndNode(d) \in Nodes
        /\ Offer(d) = dist[StartNode(d)] + len[d]
    BY <1>2, SettledInvTypes DEF Searching
  <2>2. CASE found # NoNode /\ dist[found] <= y
    <3>1. dist[found] \in Int
      BY <1>2, <1>4, <2>2 DEF Goal
    <3> QED
      BY <2>1, <2>2, <3>1
  <2>3. CASE ~(found # NoNode /\ dist[found] <= y)
    <3>1. StartNode(d) \in labelled /\ dist[StartNode(d)] <= y
      BY <1>5, <2>3
    <3>2. CASE StartNode(d) \in Settled \ {found}
      <4>1. EndNode(d) \in labelled /\ dist[EndNode(d)] <= Offer(d)
        BY <1>2, <3>2 DEF SettledInv, SettledIsFinal, Searching, Goal
      <4>2. dist[StartNode(d)] \in Int /\ dist[EndNode(d)] \in Int
        BY <1>4, <2>1
      <4> QED
        BY <2>1, <3>1, <4>1, <4>2
    <3>3. CASE StartNode(d) = found
      <4>1. found # NoNode
        BY <1>4, <2>1, <3>3
      <4> QED
        BY <2>3, <3>1, <3>3, <4>1
    <3>4. CASE StartNode(d) \notin Settled
      <4>1. StartNode(d) \in queue
        BY <3>1, <3>4 DEF Settled
      <4>2. found # NoNode /\ found \in Settled
        BY <1>2, <4>1 DEF Goal
      <4>3. dist[found] <= dist[StartNode(d)]
        BY <1>2, <4>1, <4>2 DEF SettledInv, SettledIsFinal, Searching
      <4>4. dist[found] \in Int /\ dist[StartNode(d)] \in Int
        BY <1>4, <2>1, <4>2
      <4> QED
        BY <2>3, <3>1, <4>2, <4>3, <4>4
    <3> QED
      BY <3>2, <3>3, <3>4
  <2> QED
    BY <2>2, <2>3
<1>6. ASSUME NEW k \in B PROVE k + 1 \in B
  <2> SUFFICES ASSUME NEW v \in Nodes, NEW x \in walk[k + 1][v] PROVE Bounded(v, x)
    OBVIOUS
  <2>1. k \in Nat /\ walk[k] \in Lengths /\ x \in Prolonged(walk[k], v)
    BY <1>1, <1>2, WalkStepIsLeast, SettledInvTypes
  <2>2. CASE x \in walk[k][v]
    BY <2>2
  <2>3. CASE \E d \in call.eligible : \E y \in walk[k][StartNode(d)] :
               EndNode(d) = v /\ x = y + len[d]
    <3>1. PICK d \in call.eligible : \E y \in walk[k][StartNode(d)] :
                 EndNode(d) = v /\ x = y + len[d]
      BY <2>3
    <3>2. PICK y \in walk[k][StartNode(d)] : EndNode(d) = v /\ x = y + len[d]
      BY <3>1
    <3>3. StartNode(d) \in Nodes
      BY <1>2, SettledInvTypes
    <3>4. y \in Int
      BY <2>1, <3>3 DEF Lengths
    <3>5. Bounded(StartNode(d), y)
      BY <3>3
    <3> QED
      BY <1>5, <3>2, <3>4, <3>5
  <2> QED
    BY <2>1, <2>2, <2>3 DEF Prolonged
<1>7. B = Nat
  <2> HIDE DEF B
  <2>1. B \in SUBSET Nat
    BY DEF B
  <2> QED
    BY <1>3, <1>6, <2>1, AllNumbers
<1> QED
  BY <1>7

\* The way back in its tree is a walk to a node, of its label's length.
LEMMA TreePathsAreWalks ==
  ASSUME TreeInv, Searching, NEW walk, IsWalk(walk), NEW depth \in Depths, IsDepth(depth)
  PROVE  \A k \in Nat : \A v \in labelled :
           depth[v] <= k => \E x \in walk[k][v] : x \in Int /\ x <= dist[v]
<1> DEFINE Reached(k, v) == \E x \in walk[k][v] : x \in Int /\ x <= dist[v]
           B == {k \in Nat : \A v \in labelled : depth[v] <= k => Reached(k, v)}
<1>1. /\ walk[0] = [v \in Nodes |-> IF v \in call.sources THEN {0} ELSE {}]
      /\ \A k \in Nat : walk[k] \in Lengths /\ walk[k + 1] = WalkStep(walk[k])
  BY WalkSteps, SettledInvTypes DEF TreeInv
<1>2. Rooted /\ SettledInv
  BY DEF TreeInv, Grown
<1>3. /\ dist \in [Nodes -> Int] /\ labelled \subseteq Nodes /\ Settled \subseteq labelled
      /\ \A v \in Nodes : depth[v] \in Nat
  BY <1>2, GraphType DEF SettledInv, LabelInv, Typed, Depths, Settled
<1>4. 0 \in B
  <2> SUFFICES ASSUME NEW v \in labelled, depth[v] <= 0 PROVE Reached(0, v)
    OBVIOUS
  <2>1. v \in call.sources
    <3> SUFFICES ASSUME v \notin call.sources PROVE FALSE
      OBVIOUS
    <3>1. depth[v] = depth[StartNode(pred[v])] + 1 /\ StartNode(pred[v]) \in Nodes
      BY <1>2, <1>3 DEF Rooted, IsDepth
    <3> QED
      BY <1>3, <3>1
  <2>2. walk[0][v] = {0} /\ dist[v] = 0
    BY <1>1, <1>2, <1>3, <2>1 DEF Rooted
  <2> QED
    BY <2>2
<1>5. ASSUME NEW k \in B PROVE k + 1 \in B
  <2> SUFFICES ASSUME NEW v \in labelled, depth[v] <= k + 1 PROVE Reached(k + 1, v)
    OBVIOUS
  <2>1. k \in Nat /\ walk[k] \in Lengths /\ walk[k + 1] = WalkStep(walk[k]) /\ v \in Nodes
    BY <1>1, <1>3
  <2>2. \E y \in Prolonged(walk[k], v) : y \in Int /\ y <= dist[v]
    <3>1. CASE depth[v] <= k
      <4>1. PICK y \in walk[k][v] : y \in Int /\ y <= dist[v]
        BY <3>1
      <4> QED
        BY <4>1 DEF Prolonged
    <3>2. CASE ~(depth[v] <= k)
      <4>1. v \notin call.sources
        BY <2>1, <3>2 DEF IsDepth
      <4> DEFINE d == pred[v]
                 w == StartNode(d)
      <4>2. /\ d \in call.eligible /\ EndNode(d) = v /\ w \in labelled
            /\ dist[v] = Offer(d) /\ depth[v] = depth[w] + 1
        BY <1>2, <1>3, <4>1 DEF Rooted, IsDepth
      <4>3. /\ len[d] \in Int /\ len[d] >= 0 /\ w \in Nodes /\ Offer(d) = dist[w] + len[d]
        BY <1>2, <4>2, SettledInvTypes DEF Searching
      <4> HIDE DEF d, w
      <4>4. depth[w] <= k
        BY <1>3, <2>1, <4>2, <4>3
      <4>5. PICK y \in walk[k][w] : y \in Int /\ y <= dist[w]
        BY <4>2, <4>4
      <4>6. y + len[d] \in Int /\ y + len[d] <= dist[v]
        BY <1>3, <4>2, <4>3, <4>5
      <4>7. y + len[d] \in Prolonged(walk[k], v)
        BY <4>2, <4>5 DEF Prolonged, w
      <4> QED
        BY <4>6, <4>7
    <3> QED
      BY <3>1, <3>2
  <2>3. PICK y \in Prolonged(walk[k], v) : y \in Int /\ y <= dist[v]
    BY <2>2
  <2>4. PICK x \in walk[k + 1][v] : x <= y
    BY <1>2, <2>1, <2>3, WalkStepIsLeast, SettledInvTypes
  <2>5. walk[k + 1][v] \in SUBSET Int
    BY <1>2, <2>1, WalkStepIsLeast, SettledInvTypes DEF Lengths
  <2>6. x \in Int /\ dist[v] \in Int
    BY <1>3, <2>1, <2>4, <2>5
  <2>7. x <= dist[v]
    BY <2>3, <2>4, <2>6
  <2> QED
    BY <2>6, <2>7
<1>6. B = Nat
  <2> HIDE DEF B
  <2>1. B \in SUBSET Nat
    BY DEF B
  <2> QED
    BY <1>4, <1>5, <2>1, AllNumbers
<1> QED
  BY <1>6

\* What the result is compared with, the recursion apart.
Exact == IF found = NoNode THEN Nodes ELSE {found}

\* Going back along the predecessor arcs from the nodes whose labels are exact.
IsBack(back) ==
  back = [k \in Nat |-> IF k = 0 THEN Exact ELSE {Before(pred, v) : v \in back[k - 1]}]

\* What LabelsAreDistances says, of any such tables.
Agrees(distance, back) ==
  /\ \A v \in Exact : distance[v] = IF v \in labelled THEN {dist[v]} ELSE {}
  /\ method = "DIJKSTRA" =>
       \A t \in call.targets : \A x \in distance[t] : found # NoNode /\ dist[found] <= x
  /\ \A v \in Exact \cap labelled : pred[v] # NoArc => dist[v] = Offer(pred[v])
  /\ \A v \in back[N] \cap labelled : v \in call.sources /\ dist[v] = 0

LEMMA LabelsAgree ==
  ASSUME pc = "done" /\ error = "none" =>
           Agrees(ShortestWalks[N - 1], CHOOSE back : IsBack(back))
  PROVE  LabelsAreDistances
BY Zenon DEF LabelsAreDistances, Agrees, IsBack, Exact

\* The predecessor arcs lead back from the nodes whose labels are exact to the sources.
LEMMA BackExists ==
  ASSUME Exact \subseteq Nodes, \A v \in Nodes : Before(pred, v) \in Nodes
  PROVE  \E back : IsBack(back)
<1> DEFINE D == SUBSET Nodes
           F == [S \in D |-> {Before(pred, v) : v \in S}]
           a == Exact
<1>1. F \in [D -> D] /\ \A S \in D : F[S] = {Before(pred, v) : v \in S}
  OBVIOUS
<1>2. a \in D
  OBVIOUS
<1> HIDE DEF D, F, a
<1>3. PICK g : g = [k \in Nat |-> IF k = 0 THEN a ELSE F[g[k - 1]]] /\ g \in [Nat -> D]
  <2>1. F \in [D -> D] /\ a \in D
    BY <1>1, <1>2
  <2> QED
    BY <2>1, IterationExists
<1>4. ASSUME NEW k \in Nat
      PROVE  (IF k = 0 THEN a ELSE F[g[k - 1]])
               = IF k = 0 THEN a ELSE {Before(pred, v) : v \in g[k - 1]}
  <2>1. CASE k = 0
    BY <2>1
  <2>2. CASE k # 0
    <3>1. k - 1 \in Nat
      BY <2>2
    <3> QED
      BY <1>1, <1>3, <2>2, <3>1
  <2> QED
    BY <2>1, <2>2
<1>5. g = [k \in Nat |-> IF k = 0 THEN a ELSE {Before(pred, v) : v \in g[k - 1]}]
  BY <1>3, <1>4
<1>6. IsBack(g)
  BY <1>5, Zenon DEF IsBack, a
<1> QED
  BY <1>6

LEMMA BackEndsAtSources ==
  ASSUME TreeInv, Searching, pc = "done", NEW back, IsBack(back)
  PROVE  \A v \in back[N] \cap labelled : v \in call.sources /\ dist[v] = 0
<1>1. Rooted /\ Goal /\ SettledInv
  BY DEF TreeInv, Grown
<1>2. PICK depth \in Depths : IsDepth(depth)
  BY DEF TreeInv, Grown
<1>3. N \in Nat /\ \A v \in Nodes : depth[v] \in Nat /\ depth[v] <= N - 1
  BY GraphType DEF Depths
<1>4. back[0] = Exact /\ Exact \subseteq Nodes
  BY <1>1, SettledInvTypes DEF IsBack, Exact, Goal
<1>5. ASSUME NEW k \in Nat PROVE back[k + 1] = {Before(pred, v) : v \in back[k]}
  <2>1. k + 1 \in Nat /\ k + 1 # 0 /\ (k + 1) - 1 = k
    OBVIOUS
  <2> QED
    BY <2>1 DEF IsBack
<1> DEFINE Near(k, v) == v \in Nodes /\ (v \in labelled => v \in call.sources \/ depth[v] + k <= N - 1)
           B == {k \in Nat : \A v \in back[k] : Near(k, v)}
<1>6. 0 \in B
  BY <1>3, <1>4
<1>7. ASSUME NEW k \in B PROVE k + 1 \in B
  <2> SUFFICES ASSUME NEW u \in back[k] PROVE Near(k + 1, Before(pred, u))
    BY <1>5
  <2>1. Near(k, u) /\ k \in Nat
    OBVIOUS
  <2>2. CASE pred[u] = NoArc
    <3>1. Before(pred, u) = u
      BY <2>2 DEF Before
    <3>2. u \in labelled => u \in call.sources
      <4> SUFFICES ASSUME u \in labelled \ call.sources PROVE FALSE
        OBVIOUS
      <4>1. NoArc \in call.eligible /\ call.eligible \subseteq Darts
        BY <1>1, <2>2, SettledInvTypes, CallsType DEF Rooted
      <4> QED
        BY <4>1 DEF Darts, NoArc
    <3> QED
      BY <2>1, <3>1, <3>2
  <2>3. CASE pred[u] # NoArc
    <3>1. u \in Nodes /\ u \in labelled /\ u \notin call.sources
      BY <1>1, <2>1, <2>3 DEF Rooted
    <3>2. Before(pred, u) = StartNode(pred[u])
      BY <2>3 DEF Before
    <3>3. StartNode(pred[u]) \in Nodes /\ depth[u] = depth[StartNode(pred[u])] + 1
      BY <1>1, <1>2, <3>1, SettledInvTypes DEF Rooted, IsDepth
    <3> QED
      BY <1>3, <2>1, <3>1, <3>2, <3>3
  <2> QED
    BY <2>2, <2>3
<1>8. B = Nat
  <2> HIDE DEF B
  <2>1. B \in SUBSET Nat
    BY DEF B
  <2> QED
    BY <1>6, <1>7, <2>1, AllNumbers
<1> QED
  BY <1>1, <1>3, <1>8 DEF Rooted

\* At the end, the labels are the lengths of shortest walks.
LEMMA TreeIsExact == ASSUME TreeInv, Searching PROVE ResultIsExact
<1>1. Rooted /\ Goal /\ SettledInv
  BY DEF TreeInv, Grown
<1>2. CyclesAreFound
  BY <1>1 DEF CyclesAreFound, Goal, Searching
<1>3. SUFFICES ASSUME pc = "done" PROVE Agrees(ShortestWalks[N - 1], CHOOSE back : IsBack(back))
  BY <1>2, LabelsAgree DEF ResultIsExact
<1> DEFINE walk == CHOOSE walk : IsWalk(walk)
           back == CHOOSE back : IsBack(back)
<1>4. IsWalk(walk) /\ IsBack(back)
  <2>1. Exact \subseteq Nodes /\ \A v \in Nodes : Before(pred, v) \in Nodes
    BY <1>1, SettledInvTypes DEF Goal, Exact, Rooted, Before
  <2> QED
    BY <1>1, <2>1, WalksExist, BackExists, SettledInvTypes
<1>5. ShortestWalks[N - 1] = walk[N - 1] /\ N - 1 \in Nat
  BY WalksAreRecursive, GraphType
<1> HIDE DEF walk, back
<1> DEFINE distance == walk[N - 1]
<1>6. \A v \in Nodes : \A x \in distance[v] : \/ v \in labelled /\ dist[v] <= x
                                              \/ found # NoNode /\ dist[found] <= x
  BY <1>3, <1>4, <1>5, WalksAreLong
<1>7. \A v \in labelled : \E x \in distance[v] : x \in Int /\ x <= dist[v]
  <2>1. PICK depth \in Depths : IsDepth(depth)
    BY DEF TreeInv, Grown
  <2>2. \A v \in labelled : depth[v] <= N - 1
    BY <1>1, <2>1, GraphType DEF Depths, SettledInv, LabelInv, Typed
  <2> QED
    BY <1>4, <1>5, <2>1, <2>2, TreePathsAreWalks
<1>8. \A v \in Nodes : \A x \in distance[v] : distance[v] = {x} /\ x \in Int
  <2>1. /\ walk[0] = [v \in Nodes |-> IF v \in call.sources THEN {0} ELSE {}]
        /\ \A k \in Nat : walk[k] \in Lengths /\ walk[k + 1] = WalkStep(walk[k])
    BY <1>1, <1>4, WalkSteps, SettledInvTypes
  <2>2. CASE N - 1 = 0
    BY <2>1, <2>2
  <2>3. CASE N - 1 # 0
    <3>1. N - 2 \in Nat /\ (N - 2) + 1 = N - 1
      BY <1>5, <2>3, GraphType
    <3>2. distance = WalkStep(walk[N - 2]) /\ walk[N - 2] \in Lengths /\ distance \in Lengths
      BY <1>5, <2>1, <3>1
    <3> HIDE DEF distance
    <3> QED
      BY <1>1, <3>2, WalkStepIsLeast, SettledInvTypes DEF Lengths
  <2> QED
    BY <2>2, <2>3
<1> HIDE DEF distance
<1>9. /\ dist \in [Nodes -> Int] /\ labelled \subseteq Nodes /\ Exact \subseteq Nodes
      /\ NoNode \notin Nodes /\ call.targets \subseteq Nodes
      /\ found # NoNode => found \in labelled
  BY <1>1, SettledInvTypes, CallsType DEF SettledInv, LabelInv, Typed, Exact, Goal, Settled
<1>10. ASSUME NEW v \in Exact
       PROVE  distance[v] = IF v \in labelled THEN {dist[v]} ELSE {}
  <2>1. \A x \in distance[v] : v \in labelled /\ dist[v] <= x
    BY <1>6, <1>9 DEF Exact
  <2>2. CASE v \in labelled
    <3>1. PICK x \in distance[v] : x \in Int /\ x <= dist[v]
      BY <1>7, <2>2
    <3>2. dist[v] <= x /\ dist[v] \in Int
      BY <1>9, <2>1, <3>1
    <3>3. x = dist[v]
      BY <3>1, <3>2
    <3> QED
      BY <1>8, <1>9, <2>2, <3>1, <3>3
  <2>3. CASE v \notin labelled
    BY <2>1, <2>3
  <2> QED
    BY <2>2, <2>3
<1>11. ASSUME NEW t \in call.targets, NEW x \in distance[t]
       PROVE  found # NoNode /\ dist[found] <= x
  <2>1. CASE found # NoNode /\ dist[found] <= x
    BY <2>1
  <2>2. CASE t \in labelled /\ dist[t] <= x
    <3>1. CASE t \in Settled
      BY <1>1, <1>9, <2>2, <3>1 DEF Goal
    <3>2. CASE t \in queue
      <4>1. found # NoNode /\ found \in Settled
        BY <1>1, <1>3, <3>2 DEF Goal
      <4>2. dist[found] <= dist[t]
        BY <1>1, <3>2, <4>1 DEF SettledInv, SettledIsFinal, Searching
      <4>3. dist[found] \in Int /\ dist[t] \in Int /\ x \in Int
        BY <1>8, <1>9, <4>1
      <4> QED
        BY <2>2, <4>1, <4>2, <4>3
    <3> QED
      BY <2>2, <3>1, <3>2 DEF Settled
  <2> QED
    BY <1>6, <1>9, <2>1, <2>2
<1>12. ASSUME NEW v \in Exact \cap labelled, pred[v] # NoArc
       PROVE  dist[v] = Offer(pred[v])
  BY <1>1, <1>9, <1>12 DEF Rooted
<1>13. \A v \in back[N] \cap labelled : v \in call.sources /\ dist[v] = 0
  BY <1>3, <1>4, BackEndsAtSources
<1>14. Agrees(distance, back)
  BY <1>10, <1>11, <1>12, <1>13 DEF Agrees
<1> QED
  BY <1>5, <1>14 DEF distance, back

\* SPX_Dijkstra(): in every graph, with lengths that are not negative, and whichever of the
\* nearest nodes is taken and in whatever order the arcs are read, a search that has ended has
\* labelled every node with its distance, or the target that it has found, which is a nearest
\* one; and the predecessor arcs are paths of these lengths that start at a source.
THEOREM DijkstraIsExact == Spec => [](Searching => ResultIsExact)
<1>1. TreeInv => (Searching => ResultIsExact)
  BY TreeIsExact
<1> QED
  BY <1>1, TreesStayGrown, PTL
-----------------------------------------------------------------------------
(* The result of the methods that search for the distances of all nodes. *)

\* The predecessor arcs lead back over labelled nodes, to labels that are small enough.
Linked ==
  /\ call.sources \subseteq labelled
  /\ pred \in [Nodes -> call.eligible \cup {NoArc}]
  /\ \A v \in Nodes \ labelled : pred[v] = NoArc
  /\ \A v \in call.sources : dist[v] <= 0
  /\ \A v \in labelled : pred[v] = NoArc => v \in call.sources /\ dist[v] = 0
  /\ \A v \in labelled : pred[v] # NoArc =>
       /\ EndNode(pred[v]) = v /\ StartNode(pred[v]) \in labelled
       /\ Offer(pred[v]) <= dist[v]

\* Every set of labelled nodes is left somewhere, going back along the predecessor arcs.
NoPredCycle ==
  \A C \in SUBSET labelled :
    C # {} => \E v \in C : pred[v] = NoArc \/ StartNode(pred[v]) \notin C

\* The predecessor arcs of C lead round in C.
Turns(C) == C # {} /\ \A v \in C : pred[v] # NoArc /\ StartNode(pred[v]) \in C

\* The dart d offers nothing better.
Triangle(d) ==
  StartNode(d) \in labelled => EndNode(d) \in labelled /\ dist[EndNode(d)] <= Offer(d)

Triangles(D) == \A d \in D : Triangle(d)

\* No label is above the length of a walk.
Within(w) == \A v \in Nodes : \A x \in w[v] : v \in labelled /\ dist[v] <= x

\* Nor above that of a walk which the dart d prolongs.
RelaxedBy(w, d) ==
  \A x \in w[StartNode(d)] : EndNode(d) \in labelled /\ dist[EndNode(d)] <= x + len[d]

Relaxed(w, D) == \A d \in D : RelaxedBy(w, d)

\* The types that these lemmas need.
Labels == call \in Calls /\ dist \in [Nodes -> Int] /\ labelled \subseteq Nodes

LEMMA LinkedTypes ==
  ASSUME Labels, Linked
  PROVE  /\ NoArc \notin call.eligible
         /\ \A v \in labelled : pred[v] # NoArc =>
              /\ pred[v] \in call.eligible /\ StartNode(pred[v]) \in Nodes /\ len[pred[v]] \in Int
              /\ Offer(pred[v]) = dist[StartNode(pred[v])] + len[pred[v]]
         /\ \A v \in Nodes : Before(pred, v) \in Nodes
<1>1. NoArc \notin call.eligible
  BY CallsType DEF Labels, Darts, NoArc
<1>2. ASSUME NEW v \in Nodes, pred[v] # NoArc
      PROVE  /\ pred[v] \in call.eligible /\ StartNode(pred[v]) \in Nodes /\ len[pred[v]] \in Int
  <2>1. pred[v] \in call.eligible
    BY <1>2 DEF Linked
  <2> QED
    BY <2>1, EligibleDarts DEF Labels
<1>3. \A v \in Nodes : Before(pred, v) \in Nodes
  BY <1>2 DEF Before
<1> QED
  BY <1>1, <1>2, <1>3 DEF Offer, Labels

LEMMA NodesAreFinite ==
  /\ IsFiniteSet(Nodes) /\ Cardinality(Nodes) = N /\ N \in Nat /\ N - 1 \in Nat
  /\ \A S \in SUBSET Nodes : IsFiniteSet(S) /\ Cardinality(S) \in Nat
<1>1. IsFiniteSet(Nodes) /\ Cardinality(Nodes) = N /\ N \in Nat /\ N - 1 \in Nat
  BY GraphType, FS_Interval DEF Nodes
<1> QED
  BY <1>1, FS_Subset, FS_CardinalityType

\* N - 1 predecessor arcs lead back from a labelled node to a source, or they lead round.
LEMMA LevelsExist ==
  ASSUME Labels, Linked
  PROVE  \E T \in [Nat -> SUBSET labelled] :
           /\ T[0] = {v \in labelled : pred[v] = NoArc}
           /\ \A k \in Nat : T[k + 1] = {v \in labelled : Before(pred, v) \in T[k]}
           /\ \E C \in SUBSET labelled :
                /\ C # {} => Turns(C)
                /\ \A k \in Nat : N - 1 <= k => T[k] = labelled \ C
<1> DEFINE D == SUBSET labelled
           F == [S \in D |-> {v \in labelled : Before(pred, v) \in S}]
           a == {v \in labelled : pred[v] = NoArc}
<1>1. F \in [D -> D] /\ a \in D /\ \A S \in D : F[S] = {v \in labelled : Before(pred, v) \in S}
  OBVIOUS
<1>2. PICK T : T = [k \in Nat |-> IF k = 0 THEN a ELSE F[T[k - 1]]] /\ T \in [Nat -> D]
  <2>1. F \in [D -> D] /\ a \in D
    BY <1>1
  <2> HIDE DEF D, F, a
  <2>2. \E g : g = [k \in Nat |-> IF k = 0 THEN a ELSE F[g[k - 1]]] /\ g \in [Nat -> D]
    BY <2>1, IterationExists
  <2> QED
    BY <2>2
<1> HIDE DEF F
<1>3. T[0] = a
  BY <1>2
<1>4. ASSUME NEW k \in Nat PROVE T[k + 1] = {v \in labelled : Before(pred, v) \in T[k]}
  <2>1. k + 1 \in Nat /\ k + 1 # 0 /\ (k + 1) - 1 = k /\ T[k] \in D
    BY <1>2
  <2>2. T[k + 1] = F[T[k]]
    BY <1>2, <2>1
  <2> QED
    BY <1>1, <2>1, <2>2
<1>5. \A v \in a : Before(pred, v) = v
  BY DEF Before
<1> DEFINE B == {k \in Nat : a \subseteq T[k] /\ T[k] \subseteq T[k + 1]}
<1>6. B = Nat
  <2>1. 0 \in B
    BY <1>3, <1>4, <1>5
  <2>2. ASSUME NEW k \in B PROVE k + 1 \in B
    <3>1. k \in Nat /\ k + 1 \in Nat /\ a \subseteq T[k] /\ T[k] \subseteq T[k + 1]
      OBVIOUS
    <3>2. T[k + 1] \subseteq T[(k + 1) + 1]
      BY <1>4, <3>1
    <3> QED
      BY <3>1, <3>2
  <2>3. B \in SUBSET Nat
    OBVIOUS
  <2> HIDE DEF B
  <2> QED
    BY <2>1, <2>2, <2>3, AllNumbers
<1>7. \A k \in Nat : a \subseteq T[k] /\ T[k] \subseteq T[k + 1] /\ T[k] \subseteq labelled
  BY <1>2, <1>6
<1>8. ASSUME NEW k \in Nat, T[k + 1] = T[k] PROVE T[(k + 1) + 1] = T[k + 1]
  <2>1. k + 1 \in Nat
    OBVIOUS
  <2> QED
    BY <1>4, <1>8, <2>1
<1> DEFINE E == {k \in Nat : T[k + 1] = T[k] \/ k + 1 <= Cardinality(T[k])}
<1>9. a = T[0]
  BY <1>3
<1> HIDE DEF a, D
<1>10. \A k \in Nat : IsFiniteSet(T[k]) /\ Cardinality(T[k]) \in Nat /\ T[k] \subseteq Nodes
  BY <1>7, NodesAreFinite DEF Labels
<1>11. E = Nat
  <2>1. 0 \in E
    <3>1. CASE T[0] = {}
      <4>1. T[0 + 1] = {}
        BY <1>4, <3>1
      <4> QED
        BY <3>1, <4>1
    <3>2. CASE T[0] # {}
      <4>1. Cardinality(T[0]) # 0
        BY <1>10, <3>2, FS_EmptySet
      <4> QED
        BY <1>10, <4>1
    <3> QED
      BY <3>1, <3>2
  <2>2. ASSUME NEW k \in E PROVE k + 1 \in E
    <3>1. CASE T[k + 1] = T[k]
      <4>1. k \in Nat /\ k + 1 \in Nat
        OBVIOUS
      <4> QED
        BY <1>8, <3>1, <4>1
    <3>2. CASE T[k + 1] # T[k]
      <4>1. k \in Nat /\ k + 1 \in Nat /\ k + 1 <= Cardinality(T[k])
        BY <3>2
      <4>2. PICK v \in T[k + 1] : v \notin T[k]
        BY <1>7, <3>2, <4>1
      <4>3. Cardinality(T[k] \cup {v}) = Cardinality(T[k]) + 1
        BY <1>10, <4>1, <4>2, FS_AddElement
      <4>4. T[k] \cup {v} \in SUBSET T[k + 1]
        BY <1>7, <4>1, <4>2
      <4>5. Cardinality(T[k] \cup {v}) <= Cardinality(T[k + 1])
        BY <1>10, <4>1, <4>4, FS_Subset
      <4>6. (k + 1) + 1 <= Cardinality(T[k + 1])
        BY <1>10, <4>1, <4>3, <4>5
      <4> QED
        BY <4>1, <4>6
    <3> QED
      BY <3>1, <3>2
  <2>3. E \in SUBSET Nat
    OBVIOUS
  <2> HIDE DEF E
  <2> QED
    BY <2>1, <2>2, <2>3, AllNumbers
<1>12. ASSUME NEW k \in Nat, N - 1 <= k PROVE T[k + 1] = T[k]
  <2>1. CASE k + 1 <= Cardinality(T[k])
    <3>1. Cardinality(T[k]) <= N /\ (Cardinality(T[k]) = N => T[k] = Nodes)
      BY <1>10, NodesAreFinite, FS_Subset
    <3>2. T[k] = Nodes
      BY <1>10, <1>12, <2>1, <3>1, NodesAreFinite
    <3>3. T[k + 1] \subseteq Nodes /\ T[k] \subseteq T[k + 1]
      BY <1>7, <1>10
    <3> QED
      BY <3>2, <3>3
  <2> QED
    BY <1>11, <2>1
<1> DEFINE C == labelled \ T[N - 1]
           G == {k \in Nat : N - 1 <= k => T[k] = T[N - 1]}
<1>13. N - 1 \in Nat /\ N \in Nat
  BY NodesAreFinite
<1>14. G = Nat
  <2>1. 0 \in G
    BY <1>13
  <2>2. ASSUME NEW k \in G PROVE k + 1 \in G
    <3> SUFFICES ASSUME N - 1 <= k + 1 PROVE T[k + 1] = T[N - 1]
      OBVIOUS
    <3>1. k \in Nat
      OBVIOUS
    <3>2. k + 1 = N - 1 \/ N - 1 <= k
      BY <1>13, <3>1
    <3> QED
      BY <1>12, <3>1, <3>2
  <2>3. G \in SUBSET Nat
    OBVIOUS
  <2> HIDE DEF G
  <2> QED
    BY <2>1, <2>2, <2>3, AllNumbers
<1>15. ASSUME NEW v \in C PROVE pred[v] # NoArc /\ StartNode(pred[v]) \in C
  <2>1. T[(N - 1) + 1] = T[N - 1] /\ T[N - 1] \subseteq labelled /\ a \subseteq T[N - 1]
    BY <1>7, <1>12, <1>13
  <2>2. v \in labelled /\ pred[v] # NoArc
    BY <2>1 DEF a
  <2>3. Before(pred, v) = StartNode(pred[v]) /\ StartNode(pred[v]) \in labelled
    BY <2>2 DEF Before, Linked
  <2>4. Before(pred, v) \notin T[N - 1]
    BY <1>4, <1>13, <2>1, <2>2
  <2> QED
    BY <2>2, <2>3, <2>4
<1>16. C # {} => Turns(C)
  <2> HIDE DEF C
  <2> QED
    BY <1>15 DEF Turns
<1>17. \A k \in Nat : N - 1 <= k => T[k] = labelled \ C
  <2>1. T[N - 1] \subseteq labelled
    BY <1>7, <1>13
  <2> QED
    BY <1>14, <2>1
<1>18. C \in SUBSET labelled
  OBVIOUS
<1> HIDE DEF C
<1> QED
  BY <1>2, <1>3, <1>4, <1>16, <1>17, <1>18 DEF a, D

LEMMA TreeLevels ==
  ASSUME Labels, Linked, NoPredCycle
  PROVE  \E T \in [Nat -> SUBSET labelled] :
           /\ T[0] = {v \in labelled : pred[v] = NoArc}
           /\ \A k \in Nat : T[k + 1] = {v \in labelled : Before(pred, v) \in T[k]}
           /\ \A k \in Nat : N - 1 <= k => T[k] = labelled
<1>1. \A C \in SUBSET labelled : ~Turns(C)
  BY DEF Turns, NoPredCycle
<1> QED
  BY <1>1, LevelsExist

\* One more step of the walks, if all darts have been relaxed.
LEMMA WithinOneMore ==
  ASSUME Labels, NEW w \in Lengths, Within(w), Relaxed(w, call.eligible)
  PROVE  Within(WalkStep(w))
<1> SUFFICES ASSUME NEW v \in Nodes, NEW x \in WalkStep(w)[v]
             PROVE  v \in labelled /\ dist[v] <= x
  BY DEF Within
<1>1. x \in Prolonged(w, v)
  BY WalkStepIsLeast DEF Labels
<1>2. CASE x \in w[v]
  BY <1>2 DEF Within
<1>3. CASE x \notin w[v]
  <2>1. PICK d \in call.eligible : EndNode(d) = v /\ \E y \in w[StartNode(d)] : x = y + len[d]
    BY <1>1, <1>3 DEF Prolonged
  <2> QED
    BY <2>1 DEF Relaxed, RelaxedBy
<1> QED
  BY <1>2, <1>3

\* A dart that offers nothing has been relaxed.
LEMMA TriangleRelaxes ==
  ASSUME Labels, NEW w \in Lengths, Within(w), NEW d \in call.eligible, Triangle(d)
  PROVE  RelaxedBy(w, d)
<1> SUFFICES ASSUME NEW x \in w[StartNode(d)]
             PROVE  EndNode(d) \in labelled /\ dist[EndNode(d)] <= x + len[d]
  BY DEF RelaxedBy
<1>1. StartNode(d) \in Nodes /\ EndNode(d) \in Nodes /\ len[d] \in Int
  BY EligibleDarts DEF Labels
<1>2. StartNode(d) \in labelled /\ dist[StartNode(d)] <= x
  BY <1>1 DEF Within
<1>3. EndNode(d) \in labelled /\ dist[EndNode(d)] <= dist[StartNode(d)] + len[d]
  BY <1>2 DEF Triangle, Offer
<1>4. x \in Int /\ dist[StartNode(d)] \in Int /\ dist[EndNode(d)] \in Int
  BY <1>1 DEF Lengths, Labels
<1> QED
  BY <1>1, <1>2, <1>3, <1>4

\* The label of a node from which k predecessor arcs lead back to a source is long enough.
LEMMA LevelsAreWalks ==
  ASSUME Labels, Linked, NEW walk, IsWalk(walk), NEW T \in [Nat -> SUBSET labelled],
         T[0] = {v \in labelled : pred[v] = NoArc},
         \A k \in Nat : T[k + 1] = {v \in labelled : Before(pred, v) \in T[k]}
  PROVE  \A k \in Nat : \A v \in T[k] : \E x \in walk[k][v] : x <= dist[v]
<1>1. /\ walk[0] = [v \in Nodes |-> IF v \in call.sources THEN {0} ELSE {}]
      /\ \A k \in Nat : walk[k] \in Lengths /\ walk[k + 1] = WalkStep(walk[k])
  BY WalkSteps DEF Labels
<1> DEFINE Reached(k, v) == \E x \in walk[k][v] : x <= dist[v]
           E == {k \in Nat : \A v \in T[k] : Reached(k, v)}
<1>2. E = Nat
  <2>1. 0 \in E
    BY <1>1 DEF Linked, Labels
  <2>2. ASSUME NEW k \in E PROVE k + 1 \in E
    <3> SUFFICES ASSUME NEW v \in T[k + 1] PROVE Reached(k + 1, v)
      OBVIOUS
    <3>1. /\ k \in Nat /\ walk[k] \in Lengths /\ walk[k + 1] = WalkStep(walk[k])
          /\ v \in labelled /\ v \in Nodes /\ Before(pred, v) \in T[k]
      BY <1>1 DEF Labels
    <3>2. \E y \in Prolonged(walk[k], v) : y \in Int /\ y <= dist[v]
      <4>1. CASE pred[v] = NoArc
        <5>1. PICK y \in walk[k][v] : y <= dist[v]
          BY <3>1, <4>1 DEF Before
        <5> QED
          BY <3>1, <5>1 DEF Prolonged, Lengths
      <4>2. CASE pred[v] # NoArc
        <5> DEFINE d == pred[v]
                   u == StartNode(d)
        <5>1. /\ d \in call.eligible /\ u \in Nodes /\ len[d] \in Int /\ EndNode(d) = v
              /\ dist[u] + len[d] <= dist[v] /\ dist[u] \in Int /\ dist[v] \in Int
          BY <3>1, <4>2, LinkedTypes DEF Linked, Labels
        <5>2. PICK y \in walk[k][u] : y <= dist[u]
          BY <3>1, <4>2 DEF Before
        <5> HIDE DEF d
        <5>3. y \in Int
          BY <3>1, <5>1 DEF Lengths
        <5>4. y + len[d] \in Prolonged(walk[k], v)
          BY <5>1 DEF Prolonged
        <5>5. y + len[d] \in Int /\ y + len[d] <= dist[v]
          BY <5>1, <5>2, <5>3
        <5> QED
          BY <5>4, <5>5
      <4> QED
        BY <4>1, <4>2
    <3>3. PICK y \in Prolonged(walk[k], v) : y \in Int /\ y <= dist[v]
      BY <3>2
    <3>4. PICK x \in walk[k + 1][v] : x <= y /\ x \in Int
      BY <3>1, <3>3, WalkStepIsLeast DEF Lengths, Labels
    <3>5. x <= dist[v]
      BY <3>1, <3>3, <3>4 DEF Labels
    <3> QED
      BY <3>4, <3>5
  <2>3. E \in SUBSET Nat
    OBVIOUS
  <2> HIDE DEF E
  <2> QED
    BY <2>1, <2>2, <2>3, AllNumbers
<1> QED
  BY <1>2

\* If no dart offers anything, the labels are the lengths of the shortest walks.
LEMMA FinalWalks ==
  ASSUME Labels, Linked, NoPredCycle, Triangles(call.eligible), NEW walk, IsWalk(walk)
  PROVE  \A k \in Nat : N - 1 <= k =>
           \A v \in Nodes : walk[k][v] = IF v \in labelled THEN {dist[v]} ELSE {}
<1>1. /\ walk[0] = [v \in Nodes |-> IF v \in call.sources THEN {0} ELSE {}]
      /\ \A k \in Nat : walk[k] \in Lengths /\ walk[k + 1] = WalkStep(walk[k])
  BY WalkSteps DEF Labels
<1> DEFINE B == {k \in Nat : Within(walk[k])}
<1>2. B = Nat
  <2>1. 0 \in B
    BY <1>1 DEF Within, Linked
  <2>2. ASSUME NEW k \in B PROVE k + 1 \in B
    <3>1. k \in Nat /\ Within(walk[k]) /\ walk[k] \in Lengths
      BY <1>1
    <3>2. Relaxed(walk[k], call.eligible)
      BY <3>1, TriangleRelaxes DEF Triangles, Relaxed
    <3> QED
      BY <1>1, <3>1, <3>2, WithinOneMore
  <2>3. B \in SUBSET Nat
    OBVIOUS
  <2> HIDE DEF B
  <2> QED
    BY <2>1, <2>2, <2>3, AllNumbers
<1>3. PICK T \in [Nat -> SUBSET labelled] :
        /\ T[0] = {v \in labelled : pred[v] = NoArc}
        /\ \A k \in Nat : T[k + 1] = {v \in labelled : Before(pred, v) \in T[k]}
        /\ \A k \in Nat : N - 1 <= k => T[k] = labelled
  BY TreeLevels
<1>4. \A k \in Nat : \A v \in T[k] : \E x \in walk[k][v] : x <= dist[v]
  BY <1>3, LevelsAreWalks
<1> SUFFICES ASSUME NEW k \in Nat, N - 1 <= k, NEW v \in Nodes
             PROVE  walk[k][v] = IF v \in labelled THEN {dist[v]} ELSE {}
  OBVIOUS
<1>5. \A x \in walk[k][v] : v \in labelled /\ dist[v] <= x
  BY <1>2 DEF Within
<1>6. walk[k][v] = {} \/ \E x \in Int : walk[k][v] = {x}
  <2>1. walk[k] \in Lengths
    BY <1>1
  <2> QED
    BY <2>1 DEF Lengths
<1>7. CASE v \notin labelled
  BY <1>5, <1>7
<1>8. CASE v \in labelled
  <2>1. PICK x \in walk[k][v] : x <= dist[v]
    BY <1>3, <1>4, <1>8
  <2>2. dist[v] <= x /\ dist[v] \in Int /\ x \in Int
    BY <1>5, <1>6, <2>1 DEF Labels
  <2>3. x = dist[v]
    BY <2>1, <2>2
  <2> QED
    BY <1>6, <1>8, <2>1, <2>3
<1> QED
  BY <1>7, <1>8

\* At the end, the predecessor arcs have led back to the sources.
LEMMA FinalBack ==
  ASSUME Labels, Linked, NoPredCycle, found = NoNode, NEW back, IsBack(back)
  PROVE  \A v \in back[N] \cap labelled : v \in call.sources /\ dist[v] = 0
<1>1. PICK T \in [Nat -> SUBSET labelled] :
        /\ T[0] = {v \in labelled : pred[v] = NoArc}
        /\ \A k \in Nat : T[k + 1] = {v \in labelled : Before(pred, v) \in T[k]}
        /\ \A k \in Nat : N - 1 <= k => T[k] = labelled
  BY TreeLevels
<1>2. \A u \in Nodes \ labelled : Before(pred, u) \notin labelled
  BY DEF Linked, Before
<1>3. back[0] = Nodes
  BY DEF IsBack, Exact
<1>4. ASSUME NEW k \in Nat PROVE back[k + 1] = {Before(pred, v) : v \in back[k]}
  <2>1. k + 1 \in Nat /\ k + 1 # 0 /\ (k + 1) - 1 = k
    OBVIOUS
  <2> QED
    BY <2>1 DEF IsBack
<1> DEFINE B == {k \in Nat : back[k] \subseteq Nodes
                             /\ (k <= N - 1 => back[k] \cap labelled \subseteq T[N - 1 - k])}
<1>5. B = Nat
  <2>1. 0 \in B
    BY <1>1, <1>3, NodesAreFinite
  <2>2. ASSUME NEW k \in B PROVE k + 1 \in B
    <3>1. k \in Nat /\ k + 1 \in Nat /\ back[k] \subseteq Nodes
      OBVIOUS
    <3>2. back[k + 1] \subseteq Nodes
      BY <1>4, <3>1, LinkedTypes
    <3>3. ASSUME k + 1 <= N - 1, NEW v \in back[k + 1], v \in labelled
          PROVE  v \in T[N - 1 - (k + 1)]
      <4>1. PICK u \in back[k] : v = Before(pred, u)
        BY <1>4, <3>1, <3>3
      <4> DEFINE j == N - 1 - (k + 1)
      <4>2. j \in Nat /\ j + 1 = N - 1 - k /\ k <= N - 1
        BY <3>1, <3>3, NodesAreFinite
      <4>3. u \in labelled
        BY <1>2, <3>1, <3>3, <4>1
      <4>4. u \in T[j + 1]
        BY <4>1, <4>2, <4>3
      <4> HIDE DEF j
      <4>5. v \in T[j]
        BY <1>1, <4>1, <4>2, <4>4
      <4> QED
        BY <4>5 DEF j
    <3> QED
      BY <3>1, <3>2, <3>3
  <2>3. B \in SUBSET Nat
    OBVIOUS
  <2> HIDE DEF B
  <2> QED
    BY <2>1, <2>2, <2>3, AllNumbers
<1> SUFFICES ASSUME NEW v \in back[N], v \in labelled PROVE pred[v] = NoArc
  BY DEF Linked
<1>6. N - 1 \in Nat /\ (N - 1) + 1 = N /\ (N - 1) - (N - 1) = 0
  BY NodesAreFinite
<1>7. PICK u \in back[N - 1] : v = Before(pred, u)
  BY <1>4, <1>6
<1>8. back[N - 1] \subseteq Nodes /\ back[N - 1] \cap labelled \subseteq T[0]
  <2>1. N - 1 \in B
    BY <1>5, <1>6
  <2> QED
    BY <1>6, <2>1
<1>9. u \in T[0]
  BY <1>2, <1>7, <1>8
<1> QED
  BY <1>1, <1>7, <1>9 DEF Before

\* A search that ends with nothing better to offer has found the distances, and there is no
\* cycle of negative length.
LEMMA FinalIsExact ==
  ASSUME Labels, Linked, NoPredCycle, Triangles(call.eligible), found = NoNode,
         method # "DIJKSTRA"
  PROVE  LabelsAreDistances /\ ~HasNegativeCycle
<1> DEFINE walk == CHOOSE walk : IsWalk(walk)
           back == CHOOSE back : IsBack(back)
<1>1. IsWalk(walk) /\ IsBack(back)
  <2>1. Exact = Nodes /\ \A v \in Nodes : Before(pred, v) \in Nodes
    BY LinkedTypes DEF Exact
  <2> QED
    BY <2>1, WalksExist, BackExists DEF Labels
<1>2. ShortestWalks[N - 1] = walk[N - 1] /\ ShortestWalks[N] = walk[N]
  BY WalksAreRecursive
<1> HIDE DEF walk, back
<1>3. N - 1 \in Nat /\ N \in Nat /\ N - 1 <= N - 1 /\ N - 1 <= N /\ N = (N - 1) + 1
  BY NodesAreFinite
<1>4. \A v \in Nodes : /\ walk[N - 1][v] = IF v \in labelled THEN {dist[v]} ELSE {}
                       /\ walk[N][v] = IF v \in labelled THEN {dist[v]} ELSE {}
  BY <1>1, <1>3, FinalWalks
<1>5. walk[N - 1] \in Lengths /\ walk[N] \in Lengths
  BY <1>1, <1>3, WalkSteps DEF Labels
<1>6. walk[N - 1] = walk[N]
  <2>1. /\ walk[N - 1] = [v \in Nodes |-> walk[N - 1][v]]
        /\ walk[N] = [v \in Nodes |-> walk[N][v]]
    BY <1>5 DEF Lengths
  <2>2. \A v \in Nodes : walk[N - 1][v] = walk[N][v]
    BY <1>4
  <2> QED
    BY <2>1, <2>2
<1>7. ASSUME NEW v \in labelled, pred[v] # NoArc PROVE dist[v] = Offer(pred[v])
  <2>1. /\ pred[v] \in call.eligible /\ EndNode(pred[v]) = v /\ StartNode(pred[v]) \in labelled
        /\ Offer(pred[v]) <= dist[v] /\ Offer(pred[v]) = dist[StartNode(pred[v])] + len[pred[v]]
        /\ dist[StartNode(pred[v])] \in Int /\ len[pred[v]] \in Int /\ dist[v] \in Int
    BY <1>7, LinkedTypes DEF Linked, Labels
  <2>2. dist[v] <= Offer(pred[v])
    BY <2>1 DEF Triangles, Triangle
  <2> QED
    BY <2>1, <2>2
<1>8. \A v \in back[N] \cap labelled : v \in call.sources /\ dist[v] = 0
  BY <1>1, FinalBack
<1>9. Agrees(walk[N - 1], back)
  BY <1>4, <1>7, <1>8 DEF Agrees, Exact
<1>10. LabelsAreDistances
  BY <1>2, <1>9, LabelsAgree DEF walk, back
<1> QED
  BY <1>2, <1>6, <1>10 DEF HasNegativeCycle

-----------------------------------------------------------------------------
(* What a step does that sets a label. *)

LEMMA LabelEffect ==
  ASSUME Labels, Linked, NEW d \in call.eligible, StartNode(d) \in labelled,
         Improves(d), Label(d), call' = call
  PROVE  /\ Labels' /\ len' = len /\ labelled' = labelled \cup {EndNode(d)}
         /\ StartNode(d) \in Nodes /\ EndNode(d) \in Nodes /\ len[d] \in Int
         /\ pred' \in [Nodes -> call.eligible \cup {NoArc}]
         /\ dist'[EndNode(d)] = dist[StartNode(d)] + len[d] /\ pred'[EndNode(d)] = d
         /\ \A v \in Nodes : v # EndNode(d) => dist'[v] = dist[v] /\ pred'[v] = pred[v]
         /\ \A v \in labelled : dist'[v] <= dist[v] /\ (v = EndNode(d) => dist'[v] < dist[v])
<1>1. StartNode(d) \in Nodes /\ EndNode(d) \in Nodes /\ len[d] \in Int
  BY EligibleDarts DEF Labels
<1>2. Offer(d) = dist[StartNode(d)] + len[d] /\ Offer(d) \in Int
  BY <1>1 DEF Offer, Labels
<1>3. /\ dist' = [dist EXCEPT ![EndNode(d)] = Offer(d)]
      /\ labelled' = labelled \cup {EndNode(d)}
      /\ pred' = [pred EXCEPT ![EndNode(d)] = d]
  BY DEF Label
<1>4. /\ dist'[EndNode(d)] = Offer(d) /\ pred'[EndNode(d)] = d
      /\ \A v \in Nodes : v # EndNode(d) => dist'[v] = dist[v] /\ pred'[v] = pred[v]
  BY <1>1, <1>3 DEF Labels, Linked
<1>5. dist' \in [Nodes -> Int] /\ pred' \in [Nodes -> call.eligible \cup {NoArc}]
  BY <1>1, <1>2, <1>3 DEF Labels, Linked
<1>6. ASSUME NEW v \in labelled PROVE dist'[v] <= dist[v] /\ (v = EndNode(d) => dist'[v] < dist[v])
  <2>1. v \in Nodes /\ dist[v] \in Int
    BY DEF Labels
  <2>2. CASE v = EndNode(d)
    BY <1>2, <1>4, <2>1, <2>2 DEF Improves
  <2>3. CASE v # EndNode(d)
    BY <1>4, <2>1, <2>3
  <2> QED
    BY <2>2, <2>3
<1> QED
  BY <1>1, <1>2, <1>3, <1>4, <1>5, <1>6 DEF Labels, len

\* The labels stay large enough for their predecessor arcs.
LEMMA LabelLinks ==
  ASSUME Labels, Linked, NEW d \in call.eligible, StartNode(d) \in labelled,
         Improves(d), Label(d), call' = call
  PROVE  Linked'
<1> DEFINE e == EndNode(d)
<1>1. /\ Labels' /\ len' = len /\ labelled' = labelled \cup {e}
      /\ StartNode(d) \in Nodes /\ e \in Nodes /\ len[d] \in Int
      /\ pred' \in [Nodes -> call.eligible \cup {NoArc}]
      /\ dist'[e] = dist[StartNode(d)] + len[d] /\ pred'[e] = d
      /\ \A v \in Nodes : v # e => dist'[v] = dist[v] /\ pred'[v] = pred[v]
      /\ \A v \in labelled : dist'[v] <= dist[v]
  BY LabelEffect
<1> HIDE DEF e
<1>2. d # NoArc /\ \A v \in labelled : v \in Nodes /\ dist[v] \in Int /\ dist'[v] \in Int
  BY <1>1, LinkedTypes DEF Labels
<1>3. ASSUME NEW v \in labelled', pred'[v] # NoArc
      PROVE  /\ EndNode(pred'[v]) = v /\ StartNode(pred'[v]) \in labelled'
             /\ dist'[StartNode(pred'[v])] + len[pred'[v]] <= dist'[v]
  <2>1. CASE v = e
    BY <1>1, <1>2, <2>1 DEF e
  <2>2. CASE v # e
    <3> DEFINE p == pred[v]
    <3>1. v \in labelled /\ pred'[v] = p /\ dist'[v] = dist[v] /\ p # NoArc
      BY <1>1, <1>2, <1>3, <2>2
    <3>2. /\ EndNode(p) = v /\ StartNode(p) \in labelled /\ Offer(p) <= dist[v]
          /\ Offer(p) = dist[StartNode(p)] + len[p] /\ len[p] \in Int
      BY <3>1, LinkedTypes DEF Linked
    <3> HIDE DEF p
    <3>3. dist'[StartNode(p)] + len[p] <= dist'[v]
      BY <1>1, <1>2, <3>1, <3>2
    <3> QED
      BY <1>1, <3>1, <3>2, <3>3
  <2> QED
    BY <2>1, <2>2
<1>4. \A v \in labelled' : pred'[v] = NoArc => v \in call.sources /\ dist'[v] = 0
  BY <1>1, <1>2 DEF Linked
<1>5. \A v \in call.sources : dist'[v] <= 0
  BY <1>1, <1>2 DEF Linked
<1>6. call.sources \subseteq labelled' /\ \A v \in Nodes \ labelled' : pred'[v] = NoArc
  BY <1>1 DEF Linked
<1> QED
  BY <1>1, <1>3, <1>4, <1>5, <1>6 DEF Linked, Offer

\* Lower bounds for the distances of the nodes that can be reached.
Potential(pi, L) ==
  /\ call.sources \subseteq L
  /\ \A d \in call.eligible : StartNode(d) \in L =>
       EndNode(d) \in L /\ pi[EndNode(d)] <= pi[StartNode(d)] + len[d]

\* If there are any, no cycle can get shorter by going round: so a label never depends on
\* itself.
Forest ==
  \A pi \in [Nodes -> Int], L \in SUBSET Nodes :
    Potential(pi, L) => labelled \subseteq L /\ NoPredCycle

LEMMA LabelKeepsForest ==
  ASSUME Labels, Linked, Forest, NEW d \in call.eligible, StartNode(d) \in labelled,
         Improves(d), Label(d), call' = call
  PROVE  Forest'
<1> DEFINE e == EndNode(d)
<1>1. /\ Labels' /\ len' = len /\ labelled' = labelled \cup {e}
      /\ StartNode(d) \in Nodes /\ e \in Nodes /\ len[d] \in Int
      /\ dist'[e] = dist[StartNode(d)] + len[d] /\ pred'[e] = d
      /\ \A v \in Nodes : v # e => dist'[v] = dist[v] /\ pred'[v] = pred[v]
      /\ \A v \in labelled : v = e => dist'[v] < dist[v]
  BY LabelEffect
<1> HIDE DEF e
<1> SUFFICES ASSUME NEW pi \in [Nodes -> Int], NEW L \in SUBSET Nodes, Potential(pi, L)'
             PROVE  labelled' \subseteq L /\ NoPredCycle'
  BY <1>1 DEF Forest
<1>2. Potential(pi, L)
  BY <1>1 DEF Potential
<1>3. labelled \subseteq L /\ NoPredCycle
  BY <1>2 DEF Forest
<1>4. labelled' \subseteq L
  BY <1>1, <1>2, <1>3 DEF Potential, e
<1> SUFFICES ASSUME NEW C \in SUBSET labelled', C # {},
                    \A v \in C : pred'[v] # NoArc /\ StartNode(pred'[v]) \in C
             PROVE  FALSE
  BY <1>4 DEF NoPredCycle
<1>5. C \subseteq Nodes /\ labelled \subseteq Nodes /\ d # NoArc
  BY <1>1, LinkedTypes DEF Labels
<1>6. ASSUME NEW A \in SUBSET C, A # {}, e \notin A,
             \A v \in A : StartNode(pred[v]) \in A
      PROVE  FALSE
  <2>1. A \in SUBSET labelled
    BY <1>1, <1>6
  <2>2. \A v \in A : pred[v] # NoArc
    BY <1>1, <1>5, <1>6
  <2> QED
    BY <1>3, <1>6, <2>1, <2>2 DEF NoPredCycle
<1>7. e \in C
  <2> SUFFICES ASSUME e \notin C PROVE FALSE
    OBVIOUS
  <2>1. \A v \in C : StartNode(pred[v]) \in C
    BY <1>1, <1>5
  <2> QED
    BY <1>6, <2>1
<1>8. StartNode(d) \in C
  BY <1>1, <1>7
<1>9. ASSUME NEW v \in C, v # e
      PROVE  /\ v \in labelled /\ pred[v] \in call.eligible /\ EndNode(pred[v]) = v
             /\ StartNode(pred[v]) \in C /\ StartNode(pred[v]) \in labelled
             /\ dist[StartNode(pred[v])] + len[pred[v]] <= dist[v] /\ len[pred[v]] \in Int
  <2>1. v \in labelled /\ pred'[v] = pred[v] /\ pred[v] # NoArc /\ StartNode(pred[v]) \in C
    BY <1>1, <1>5, <1>9
  <2> QED
    BY <2>1, LinkedTypes DEF Linked
<1>10. CASE e \notin labelled
  <2>1. \A v \in C \ {e} : StartNode(pred[v]) \in C \ {e}
    BY <1>9, <1>10
  <2>2. StartNode(d) \in C \ {e}
    BY <1>8, <1>10
  <2> QED
    BY <1>6, <2>1, <2>2
<1>11. CASE e \in labelled
  <2> DEFINE Above(v) == dist[v] - pi[v]
             A == {v \in C : Above(v) < Above(e)}
  <2>1. \A v \in Nodes : Above(v) \in Int
    BY DEF Labels
  <2>2. StartNode(d) \in A
    <3>1. pi[e] <= pi[StartNode(d)] + len[d]
      BY <1>2, <1>3 DEF Potential, e
    <3>2. dist[StartNode(d)] + len[d] < dist[e]
      BY <1>1, <1>11
    <3>3. /\ pi[e] \in Int /\ pi[StartNode(d)] \in Int /\ dist[e] \in Int
          /\ dist[StartNode(d)] \in Int
      BY <1>1 DEF Labels
    <3> QED
      BY <1>1, <1>8, <3>1, <3>2, <3>3
  <2>3. e \notin A
    BY <1>1, <2>1
  <2>4. ASSUME NEW v \in A PROVE StartNode(pred[v]) \in A
    <3> DEFINE w == StartNode(pred[v])
    <3>1. /\ v \in C /\ v # e /\ v \in Nodes
      BY <1>5, <2>3
    <3>2. /\ w \in C /\ w \in labelled /\ pred[v] \in call.eligible /\ EndNode(pred[v]) = v
          /\ dist[w] + len[pred[v]] <= dist[v] /\ len[pred[v]] \in Int
      BY <1>9, <3>1
    <3>3. pi[v] <= pi[w] + len[pred[v]]
      BY <1>2, <1>3, <3>2 DEF Potential
    <3>4. pi[v] \in Int /\ pi[w] \in Int /\ dist[v] \in Int /\ dist[w] \in Int
      BY <1>5, <3>1, <3>2 DEF Labels
    <3>5. Above(w) <= Above(v)
      BY <3>2, <3>3, <3>4
    <3>6. Above(v) < Above(e) /\ Above(v) \in Int /\ Above(w) \in Int /\ Above(e) \in Int
      BY <1>1, <1>5, <2>1, <3>1, <3>2
    <3> QED
      BY <3>2, <3>5, <3>6
  <2> HIDE DEF A
  <2>5. A \in SUBSET C
    BY DEF A
  <2> QED
    BY <1>6, <2>2, <2>3, <2>4, <2>5
<1> QED
  BY <1>10, <1>11

-----------------------------------------------------------------------------
(* The methods that correct labels, pass by pass. *)

\* It does not get shorter to go along an arc and back.
NoShortTurn ==
  \A d \in call.eligible : Opposite(d) \in call.eligible => len[d] + len[Opposite(d)] >= 0

\* Darts that are still to be read in this pass.
Open ==
  IF method = "BELLMAN" THEN todo
  ELSE todo \cup {d \in call.eligible : StartNode(d) \in Ahead}

\* Darts that may offer something.
Stale ==
  IF method = "BELLMAN" THEN (IF updates THEN call.eligible ELSE todo)
  ELSE todo \cup {d \in call.eligible : StartNode(d) \in queue}

\* No label is below the length of a shortest walk.
Above(w) == \A v \in labelled : \E x \in w[v] : x <= dist[v]

\* The method has reported a cycle.
Failed == error = "negative cycle"

\* After k passes, no label is above the length of a walk with k arcs; if n arcs are not better
\* than n - 1, nothing is left to correct in pass n.
Passes(walk) ==
  /\ Within(walk[pass - 1]) /\ Relaxed(walk[pass - 1], call.eligible \ Open)
  /\ walk[N] = walk[N - 1] =>
       /\ Above(walk[N - 1])
       /\ pass <= N /\ (pass = N => ~updates) /\ root = NoNode
       /\ method = "FIFO" \/ N > 1 => ~Failed

\* Before the start there is nothing.
Fresh ==
  pc = "start" => /\ pred = [v \in Nodes |-> NoArc] /\ root = NoNode
                  /\ pass = 1 /\ updates = FALSE

\* A label correcting method is running, or has ended.
Correcting == method \in {"BELLMAN", "FIFO"} /\ pc # "start" /\ NoShortTurn

\* What is true of it: nothing that has been read for the current labels offers anything better.
Corrected ==
  /\ Linked /\ Forest /\ found = NoNode
  /\ pass \in Nat \ {0}
  /\ Triangles(call.eligible \ Stale)
  /\ \A walk : IsWalk(walk) => Passes(walk)
  /\ pc = "search" => error = "none"
  /\ pc = "done" => Stale = {} \/ Failed
  /\ method = "BELLMAN" => root = NoNode
  /\ method = "FIFO" => /\ here \in Nodes \cup {-1}
                        /\ pc = "search" /\ ~updates /\ root = NoNode => queue \subseteq Ahead

\* The invariant behind the result of the label correcting methods.
CorrectInv == LabelInv /\ Fresh /\ (Correcting => Corrected)

LEMMA CorrectTypes ==
  ASSUME LabelInv PROVE Labels /\ queue \subseteq Nodes /\ todo \subseteq call.eligible
BY DEF LabelInv, Typed, Labels

\* The walks depend on the call only.
LEMMA WalksUnchanged ==
  ASSUME call' = call
  PROVE  /\ \A walk : IsWalk(walk)' <=> IsWalk(walk)
         /\ Lengths' = Lengths /\ (NoShortTurn' <=> NoShortTurn)
<1>1. \A w, v : Prolonged(w, v)' = Prolonged(w, v)
  BY DEF Prolonged, len
<1>2. \A w : WalkStep(w)' = WalkStep(w)
  BY <1>1 DEF WalkStep
<1>3. \A walk : IsWalk(walk)' <=> IsWalk(walk)
  BY <1>2 DEF IsWalk
<1> QED
  BY <1>3 DEF Lengths, NoShortTurn, len

\* What is known about the labels depends on the labels and the predecessor arcs.
LEMMA LabelsUnchanged ==
  ASSUME UNCHANGED <<call, dist, labelled, pred>>
  PROVE  /\ (Labels' <=> Labels) /\ (Linked' <=> Linked) /\ (Forest' <=> Forest)
         /\ \A w : (Within(w)' <=> Within(w)) /\ (Above(w)' <=> Above(w))
         /\ \A d : Triangle(d)' <=> Triangle(d)
         /\ \A w, d : RelaxedBy(w, d)' <=> RelaxedBy(w, d)
<1>1. len' = len
  BY DEF len
<1>2. (Labels' <=> Labels) /\ (Linked' <=> Linked)
  BY <1>1 DEF Labels, Linked, Offer
<1>3. Forest' <=> Forest
  BY <1>1 DEF Forest, Potential, NoPredCycle
<1>4. \A w : (Within(w)' <=> Within(w)) /\ (Above(w)' <=> Above(w))
  BY DEF Within, Above
<1>5. \A d : Triangle(d)' <=> Triangle(d)
  BY <1>1 DEF Triangle, Offer
<1>6. \A w, d : RelaxedBy(w, d)' <=> RelaxedBy(w, d)
  BY <1>1 DEF RelaxedBy
<1> QED
  BY <1>2, <1>3, <1>4, <1>5, <1>6

\* If n arcs are not better than n - 1, no walk gets better by a dart.
LEMMA FixedWalks ==
  ASSUME Labels, NEW walk, IsWalk(walk), walk[N] = walk[N - 1],
         NEW d \in call.eligible, NEW x \in walk[N - 1][StartNode(d)]
  PROVE  \E y \in walk[N - 1][EndNode(d)] : y \in Int /\ x \in Int /\ y <= x + len[d]
<1> DEFINE w == walk[N - 1]
<1>1. w \in Lengths /\ WalkStep(w) = w
  <2>1. N - 1 \in Nat /\ (N - 1) + 1 = N
    BY NodesAreFinite
  <2> QED
    BY <2>1, WalkSteps DEF Labels
<1>2. StartNode(d) \in Nodes /\ EndNode(d) \in Nodes
  BY EligibleDarts DEF Labels
<1> HIDE DEF w
<1>3. x + len[d] \in Prolonged(w, EndNode(d))
  BY DEF Prolonged, w
<1>4. PICK y \in w[EndNode(d)] : y <= x + len[d]
  <2>1. WalkStep(w)[EndNode(d)] # {}
    BY <1>1, <1>2, <1>3, WalkStepIsLeast DEF Labels
  <2>2. PICK y \in w[EndNode(d)] : TRUE
    BY <1>1, <2>1
  <2>3. y <= x + len[d]
    BY <1>1, <1>2, <1>3, <2>2, WalkStepIsLeast DEF Labels
  <2> QED
    BY <2>3
<1>5. x \in Int /\ y \in Int
  BY <1>1, <1>2, <1>4 DEF Lengths, w
<1> QED
  BY <1>4, <1>5 DEF w

\* Then, if the labels are between these walks, no dart improves a label.
LEMMA NothingImproves ==
  ASSUME Labels, NEW walk, IsWalk(walk), walk[N] = walk[N - 1],
         Within(walk[N - 1]), Above(walk[N - 1]),
         NEW d \in call.eligible, StartNode(d) \in labelled
  PROVE  ~Improves(d)
<1>1. StartNode(d) \in Nodes /\ EndNode(d) \in Nodes /\ len[d] \in Int
  BY EligibleDarts DEF Labels
<1>2. PICK x \in walk[N - 1][StartNode(d)] : x <= dist[StartNode(d)]
  BY DEF Above
<1>3. PICK y \in walk[N - 1][EndNode(d)] : y \in Int /\ x \in Int /\ y <= x + len[d]
  BY FixedWalks
<1>4. EndNode(d) \in labelled /\ dist[EndNode(d)] <= y
  BY <1>1, <1>3 DEF Within
<1>5. dist[StartNode(d)] \in Int /\ dist[EndNode(d)] \in Int
  BY <1>1 DEF Labels
<1> QED
  BY <1>1, <1>2, <1>3, <1>4, <1>5 DEF Improves, Offer

\* A dart that is not used offers nothing: to go back along an arc is not shorter.
LEMMA SkipIsRight ==
  ASSUME Labels, Linked, NoShortTurn, NEW d \in call.eligible,
         StartNode(d) \notin labelled \/ ~Improves(d) \/ ~Usable(d)
  PROVE  Triangle(d)
<1>1. /\ d \in Darts /\ len[d] \in Int /\ StartNode(d) \in Nodes /\ EndNode(d) \in Nodes
      /\ Offer(d) = dist[StartNode(d)] + len[d]
  BY EligibleDarts DEF Labels, Offer
<1> SUFFICES ASSUME StartNode(d) \in labelled PROVE EndNode(d) \in labelled /\ dist[EndNode(d)] <= Offer(d)
  BY DEF Triangle
<1>2. CASE ~Improves(d)
  BY <1>1, <1>2 DEF Improves, Labels
<1>3. CASE ~Usable(d)
  <2> DEFINE u == StartNode(d)
             p == pred[u]
  <2>1. p # NoArc /\ d = Opposite(p)
    BY <1>3 DEF Usable
  <2>2. /\ p \in call.eligible /\ EndNode(p) = u /\ StartNode(p) \in labelled
        /\ dist[StartNode(p)] + len[p] <= dist[u] /\ len[p] \in Int
    BY <2>1, LinkedTypes DEF Linked
  <2>3. Opposite(d) = p
    <3>1. p \in Arcs \X {0, 1}
      BY <2>2, CallsType DEF Labels, Darts
    <3> QED
      BY <2>1, <3>1 DEF Opposite
  <2> HIDE DEF p
  <2>4. EndNode(d) = StartNode(p)
    BY <2>3 DEF EndNode
  <2>5. len[d] + len[p] >= 0
    BY <2>2, <2>3 DEF NoShortTurn
  <2>6. dist[u] \in Int /\ dist[StartNode(p)] \in Int
    BY <1>1, <2>4 DEF Labels
  <2> QED
    BY <1>1, <2>2, <2>4, <2>5, <2>6
<1> QED
  BY <1>2, <1>3

\* What a label does to the bounds: all of them stay, and the dart has been relaxed.
LEMMA LabelBounds ==
  ASSUME Labels, Linked, NEW d \in call.eligible, StartNode(d) \in labelled,
         Improves(d), Label(d), call' = call, NEW w \in Lengths, Within(w)
  PROVE  /\ Within(w)' /\ RelaxedBy(w, d)'
         /\ \A g \in call.eligible : RelaxedBy(w, g) => RelaxedBy(w, g)'
<1>1. /\ Labels' /\ len' = len /\ labelled' = labelled \cup {EndNode(d)}
      /\ StartNode(d) \in Nodes /\ EndNode(d) \in Nodes /\ len[d] \in Int
      /\ dist'[EndNode(d)] = dist[StartNode(d)] + len[d]
      /\ \A v \in labelled : dist'[v] <= dist[v]
  BY LabelEffect
<1>2. \A v \in Nodes : dist[v] \in Int /\ dist'[v] \in Int /\ \A x \in w[v] : x \in Int
  BY <1>1 DEF Labels, Lengths
<1>3. Within(w)'
  <2> SUFFICES ASSUME NEW v \in Nodes, NEW x \in w[v] PROVE v \in labelled' /\ dist'[v] <= x
    BY DEF Within
  <2>1. v \in labelled /\ dist[v] <= x
    BY DEF Within
  <2> QED
    BY <1>1, <1>2, <2>1
<1>4. RelaxedBy(w, d)'
  <2> SUFFICES ASSUME NEW x \in w[StartNode(d)]
               PROVE  EndNode(d) \in labelled' /\ dist'[EndNode(d)] <= x + len[d]
    BY <1>1 DEF RelaxedBy
  <2>1. dist[StartNode(d)] <= x
    BY <1>1 DEF Within
  <2> QED
    BY <1>1, <1>2, <2>1
<1>5. ASSUME NEW g \in call.eligible, RelaxedBy(w, g), NEW x \in w[StartNode(g)]
      PROVE  EndNode(g) \in labelled' /\ dist'[EndNode(g)] <= x + len[g]
  <2>1. StartNode(g) \in Nodes /\ EndNode(g) \in Nodes /\ len[g] \in Int
    BY EligibleDarts DEF Labels
  <2>2. EndNode(g) \in labelled /\ dist[EndNode(g)] <= x + len[g]
    BY <1>5 DEF RelaxedBy
  <2> QED
    BY <1>1, <1>2, <2>1, <2>2
<1>6. \A g \in call.eligible : RelaxedBy(w, g) => RelaxedBy(w, g)'
  BY <1>1, <1>5 DEF RelaxedBy
<1> QED
  BY <1>3, <1>4, <1>6

\* The label is the length of a walk, or above one.
LEMMA LabelAbove ==
  ASSUME Labels, Linked, NEW d \in call.eligible, StartNode(d) \in labelled,
         Improves(d), Label(d), call' = call,
         NEW walk, IsWalk(walk), walk[N] = walk[N - 1], Above(walk[N - 1])
  PROVE  Above(walk[N - 1])'
<1>1. /\ labelled' = labelled \cup {EndNode(d)}
      /\ StartNode(d) \in Nodes /\ EndNode(d) \in Nodes /\ len[d] \in Int
      /\ dist'[EndNode(d)] = dist[StartNode(d)] + len[d]
      /\ \A v \in Nodes : v # EndNode(d) => dist'[v] = dist[v]
  BY LabelEffect
<1>2. PICK x \in walk[N - 1][StartNode(d)] : x <= dist[StartNode(d)]
  BY DEF Above
<1>3. PICK y \in walk[N - 1][EndNode(d)] : y \in Int /\ x \in Int /\ y <= x + len[d]
  BY FixedWalks
<1>4. y <= dist'[EndNode(d)]
  BY <1>1, <1>2, <1>3 DEF Labels
<1>5. ASSUME NEW v \in labelled' PROVE \E z \in walk[N - 1][v] : z <= dist'[v]
  <2>1. CASE v = EndNode(d)
    BY <1>3, <1>4, <2>1
  <2>2. CASE v # EndNode(d)
    BY <1>1, <2>2 DEF Above, Labels
  <2> QED
    BY <2>1, <2>2
<1> QED
  BY <1>5 DEF Above

\* What a step keeps that sets no label.
LEMMA CorrectedStays ==
  ASSUME LabelInv, Corrected, UNCHANGED <<call, dist, labelled, pred, found>>
  PROVE  /\ Linked' /\ Forest' /\ found' = NoNode /\ method' = method
         /\ \A d \in call.eligible : Triangle(d) => Triangle(d)'
         /\ \A walk : IsWalk(walk)' =>
              /\ Passes(walk)
              /\ \A k \in Nat : walk[k] \in Lengths /\ walk[k + 1] = WalkStep(walk[k])
              /\ \A w : (Within(w) => Within(w)') /\ (Above(w) => Above(w)')
              /\ \A w : \A d \in call.eligible : RelaxedBy(w, d) => RelaxedBy(w, d)'
<1>1. Linked' /\ Forest' /\ found' = NoNode /\ method' = method
  BY LabelsUnchanged DEF Corrected, method
<1>2. \A d \in call.eligible : Triangle(d) => Triangle(d)'
  BY LabelsUnchanged
<1>3. ASSUME NEW walk, IsWalk(walk)'
      PROVE  /\ Passes(walk)
             /\ \A k \in Nat : walk[k] \in Lengths /\ walk[k + 1] = WalkStep(walk[k])
  <2>1. IsWalk(walk)
    BY <1>3, WalksUnchanged
  <2> QED
    BY <2>1, WalkSteps, CorrectTypes DEF Corrected, Labels
<1>4. \A w : (Within(w) => Within(w)') /\ (Above(w) => Above(w)')
  BY LabelsUnchanged
<1>5. \A w : \A d \in call.eligible : RelaxedBy(w, d) => RelaxedBy(w, d)'
  BY LabelsUnchanged
<1> QED
  BY <1>1, <1>2, <1>3, <1>4, <1>5

\* A walk to a source need not be longer than no walk at all.
LEMMA SourcesKeepWalks ==
  ASSUME call \in Calls, NEW walk, IsWalk(walk)
  PROVE  \A v \in call.sources : \E x \in walk[N - 1][v] : x <= 0
<1>1. /\ walk[0] = [v \in Nodes |-> IF v \in call.sources THEN {0} ELSE {}]
      /\ \A k \in Nat : walk[k] \in Lengths /\ walk[k + 1] = WalkStep(walk[k])
  BY WalkSteps
<1>2. call.sources \subseteq Nodes
  BY SourcesAreNodes
<1> DEFINE B == {k \in Nat : \A v \in call.sources : \E x \in walk[k][v] : x <= 0}
<1>3. 0 \in B
  BY <1>1, <1>2
<1>4. ASSUME NEW k \in B PROVE k + 1 \in B
  <2> SUFFICES ASSUME NEW v \in call.sources PROVE \E x \in walk[k + 1][v] : x <= 0
    OBVIOUS
  <2>1. k \in Nat /\ walk[k] \in Lengths /\ walk[k + 1] = WalkStep(walk[k]) /\ v \in Nodes
    BY <1>1, <1>2
  <2>2. PICK y \in walk[k][v] : y <= 0
    OBVIOUS
  <2>3. y \in Prolonged(walk[k], v) /\ y \in Int
    BY <2>1, <2>2 DEF Prolonged, Lengths
  <2>4. PICK x \in walk[k + 1][v] : x <= y /\ x \in Int
    BY <2>1, <2>3, WalkStepIsLeast DEF Lengths
  <2>5. x <= 0
    BY <2>2, <2>3, <2>4
  <2> QED
    BY <2>4, <2>5
<1>5. B = Nat
  <2> HIDE DEF B
  <2>1. B \in SUBSET Nat
    BY DEF B
  <2> QED
    BY <1>3, <1>4, <2>1, AllNumbers
<1> QED
  BY <1>5, NodesAreFinite

\* The start: every source has its label, and all darts are to be read.
LEMMA StartCorrects ==
  ASSUME CorrectInv, BellmanStart \/ FIFOStart, NoShortTurn
  PROVE  Corrected'
<1>1. /\ call \in Calls /\ call.sources \subseteq Nodes /\ call.eligible \subseteq Darts
      /\ dist = [v \in Nodes |-> 0] /\ labelled = {} /\ found = NoNode /\ error = "none"
      /\ pred = [v \in Nodes |-> NoArc] /\ root = NoNode /\ pass = 1 /\ updates = FALSE
      /\ todo = {} /\ N \in Nat
  BY CallsType, GraphType DEF BellmanStart, FIFOStart, CorrectInv, LabelInv, Typed, Untouched, Fresh
<1>2. /\ UNCHANGED <<call, dist, pred, pass, updates, found, root, error>>
      /\ labelled' = call.sources /\ pc' = "search" /\ method' = method /\ len' = len
  BY DEF BellmanStart, FIFOStart, method, len
<1>3. Linked'
  BY <1>1, <1>2 DEF Linked
<1>4. Forest'
  <2>1. \A pi, L : Potential(pi, L)' => call.sources \subseteq L
    BY <1>2 DEF Potential
  <2>2. NoPredCycle'
    BY <1>1, <1>2 DEF NoPredCycle
  <2> QED
    BY <1>2, <2>1, <2>2 DEF Forest
<1>5. \A d \in call.eligible : StartNode(d) \in call.sources => d \in Open' /\ d \in Stale'
  <2>1. CASE method = "BELLMAN"
    BY <1>1, <1>2, <2>1 DEF BellmanStart, FIFOStart, Stale, Open, method
  <2>2. CASE method # "BELLMAN"
    <3>1. queue' = call.sources /\ here' = -1
      BY <2>2 DEF BellmanStart, FIFOStart
    <3>2. Ahead' = call.sources
      BY <1>1, <3>1 DEF Ahead, Nodes
    <3> QED
      BY <1>2, <2>2, <3>1, <3>2 DEF Stale, Open
  <2> QED
    BY <2>1, <2>2
<1>6. Triangles(call.eligible \ Stale)'
  BY <1>2, <1>5 DEF Triangles, Triangle
<1>7. ASSUME NEW walk, IsWalk(walk)' PROVE Passes(walk)'
  <2>1. /\ walk[0] = [v \in Nodes |-> IF v \in call.sources THEN {0} ELSE {}]
        /\ IsWalk(walk) /\ pass' - 1 = 0
    BY <1>1, <1>2, <1>7, WalksUnchanged, WalkSteps
  <2>2. Within(walk[0])'
    BY <1>1, <1>2, <2>1 DEF Within
  <2>3. \A d \in call.eligible : d \in Open' \/ walk[0][StartNode(d)] = {}
    BY <1>1, <1>5, <2>1, EligibleDarts
  <2>4. Relaxed(walk[0], call.eligible \ Open)'
    BY <1>2, <2>3 DEF Relaxed, RelaxedBy
  <2>5. Above(walk[N - 1])'
    BY <1>1, <1>2, <2>1, SourcesKeepWalks DEF Above
  <2>6. pass' <= N /\ (pass' = N => ~updates') /\ root' = NoNode
    <3>1. pass' = 1 /\ 1 <= N /\ ~updates' /\ root' = NoNode
      BY <1>1, <1>2, GraphType
    <3> QED
      BY <3>1
  <2>7. ~Failed'
    BY <1>1, <1>2, Zenon DEF Failed
  <2> QED
    BY <2>1, <2>2, <2>4, <2>5, <2>6, <2>7 DEF Passes
<1>8. method' = "FIFO" => here' \in Nodes \cup {-1} /\ queue' \subseteq Ahead'
  <2> SUFFICES ASSUME method' = "FIFO" PROVE here' \in Nodes \cup {-1} /\ queue' \subseteq Ahead'
    OBVIOUS
  <2>1. queue' = call.sources /\ here' = -1
    BY <1>2 DEF BellmanStart, FIFOStart
  <2> QED
    BY <1>1, <2>1 DEF Ahead, Nodes
<1>9. \A walk : IsWalk(walk)' => Passes(walk)'
  BY <1>7
<1>10. pass' \in Nat \ {0} /\ root' = NoNode /\ found' = NoNode
  <2>1. pass' = 1 /\ root' = NoNode /\ found' = NoNode
    BY <1>1, <1>2
  <2> QED
    BY <2>1
<1>11. pc' = "search" /\ error' = "none"
  BY <1>1, <1>2
<1> QED
  BY <1>3, <1>4, <1>6, <1>8, <1>9, <1>10, <1>11 DEF Corrected

\* What the invariant says before a label is set, and what the label changes.
LEMMA LabelCorrects ==
  ASSUME LabelInv, Correcting, Corrected, NEW d \in call.eligible, StartNode(d) \in labelled,
         Improves(d), Label(d), call' = call, pass' = pass, found' = found
  PROVE  /\ Linked' /\ Forest' /\ found' = NoNode /\ method' = method
         /\ \A g \in call.eligible :
              Triangle(g) /\ StartNode(g) # EndNode(d) => Triangle(g)'
         /\ StartNode(d) # EndNode(d) => Triangle(d)'
         /\ \A walk : IsWalk(walk)' =>
              /\ Within(walk[pass - 1])' /\ RelaxedBy(walk[pass - 1], d)'
              /\ \A g \in call.eligible \ Open : RelaxedBy(walk[pass - 1], g)'
              /\ walk[N] = walk[N - 1] =>
                   Above(walk[N - 1])' /\ pass < N /\ root = NoNode
                   /\ (method = "FIFO" \/ N > 1 => ~Failed)
<1>1. Labels /\ Linked /\ Forest /\ found = NoNode
  BY CorrectTypes DEF Corrected
<1>2. Linked' /\ Forest' /\ found' = NoNode /\ method' = method
  BY <1>1, LabelLinks, LabelKeepsForest DEF method
<1>3. /\ Labels' /\ len' = len /\ labelled' = labelled \cup {EndNode(d)}
      /\ StartNode(d) \in Nodes /\ EndNode(d) \in Nodes /\ len[d] \in Int
      /\ dist'[EndNode(d)] = dist[StartNode(d)] + len[d]
      /\ \A v \in Nodes : v # EndNode(d) => dist'[v] = dist[v]
      /\ \A v \in labelled : dist'[v] <= dist[v]
  BY <1>1, LabelEffect
<1>4. \A v \in Nodes : dist[v] \in Int /\ dist'[v] \in Int
  BY <1>1, <1>3 DEF Labels
<1>5. ASSUME NEW g \in call.eligible, Triangle(g), StartNode(g) # EndNode(d)
      PROVE  Triangle(g)'
  <2>1. StartNode(g) \in Nodes /\ EndNode(g) \in Nodes /\ len[g] \in Int
    BY <1>1, EligibleDarts DEF Labels
  <2> SUFFICES ASSUME StartNode(g) \in labelled'
               PROVE  EndNode(g) \in labelled' /\ dist'[EndNode(g)] <= dist'[StartNode(g)] + len[g]
    BY <1>3 DEF Triangle, Offer
  <2>2. StartNode(g) \in labelled /\ dist'[StartNode(g)] = dist[StartNode(g)]
    BY <1>3, <1>5, <2>1
  <2>3. EndNode(g) \in labelled /\ dist[EndNode(g)] <= dist[StartNode(g)] + len[g]
    BY <1>5, <2>2 DEF Triangle, Offer
  <2>4. dist'[EndNode(g)] <= dist[EndNode(g)]
    BY <1>3, <2>3
  <2> QED
    BY <1>3, <1>4, <2>1, <2>2, <2>3, <2>4
<1>6. StartNode(d) # EndNode(d) => Triangle(d)'
  BY <1>3, <1>4 DEF Triangle, Offer
<1>7. ASSUME NEW walk, IsWalk(walk)'
      PROVE  /\ IsWalk(walk) /\ Passes(walk) /\ walk[pass - 1] \in Lengths
  <2>1. IsWalk(walk)
    BY <1>7, WalksUnchanged
  <2>2. pass - 1 \in Nat
    BY DEF Corrected
  <2> QED
    BY <1>1, <2>1, <2>2, WalkSteps DEF Corrected, Labels
<1>8. ASSUME NEW walk, IsWalk(walk)'
      PROVE  /\ Within(walk[pass - 1])' /\ RelaxedBy(walk[pass - 1], d)'
             /\ \A g \in call.eligible \ Open : RelaxedBy(walk[pass - 1], g)'
  <2>1. /\ Within(walk[pass - 1]) /\ Relaxed(walk[pass - 1], call.eligible \ Open)
        /\ walk[pass - 1] \in Lengths
    BY <1>7, <1>8 DEF Passes
  <2> DEFINE w == walk[pass - 1]
  <2> HIDE DEF w
  <2>2. /\ Within(w)' /\ RelaxedBy(w, d)'
        /\ \A g \in call.eligible : RelaxedBy(w, g) => RelaxedBy(w, g)'
    BY <1>1, <2>1, LabelBounds DEF w
  <2>3. \A g \in call.eligible \ Open : RelaxedBy(w, g)
    BY <2>1 DEF w, Relaxed
  <2>4. /\ Within(walk[pass - 1])' <=> Within(w)'
        /\ \A g : RelaxedBy(walk[pass - 1], g)' <=> RelaxedBy(w, g)'
    BY DEF w
  <2> QED
    BY <2>2, <2>3, <2>4
<1>9. ASSUME NEW walk, IsWalk(walk)', walk[N] = walk[N - 1]
      PROVE  /\ Above(walk[N - 1])' /\ pass < N /\ root = NoNode
             /\ (method = "FIFO" \/ N > 1 => ~Failed)
  <2>1. /\ IsWalk(walk) /\ Above(walk[N - 1]) /\ pass <= N /\ root = NoNode
        /\ Within(walk[pass - 1])
        /\ (method = "FIFO" \/ N > 1 => ~Failed)
    BY <1>7, <1>9 DEF Passes
  <2>2. Above(walk[N - 1])'
    BY <1>1, <1>9, <2>1, LabelAbove
  <2>3. pass # N
    BY <1>1, <1>9, <2>1, NothingImproves
  <2>4. pass < N
    BY <2>1, <2>3, GraphType DEF Corrected
  <2> QED
    BY <2>1, <2>2, <2>4
<1> QED
  BY <1>2, <1>5, <1>6, <1>8, <1>9

\* SPX_BellmanFord(): a label is set.
LEMMA BellmanLabels ==
  ASSUME CorrectInv, Correcting, BellmanLabel
  PROVE  Corrected'
<1>1. LabelInv /\ Corrected /\ Labels /\ todo \subseteq call.eligible /\ method = "BELLMAN"
  BY CorrectTypes DEF CorrectInv, BellmanLabel
<1>2. PICK d \in todo : /\ StartNode(d) \in labelled /\ Improves(d) /\ Label(d)
                        /\ todo' = todo \ {d}
  BY DEF BellmanLabel
<1>3. UNCHANGED <<call, pc, queue, here, pass, found, root, error>> /\ updates' /\ pc = "search"
  BY DEF BellmanLabel
<1>4. /\ Linked' /\ Forest' /\ found' = NoNode /\ method' = method
      /\ \A walk : IsWalk(walk)' =>
           /\ Within(walk[pass - 1])' /\ RelaxedBy(walk[pass - 1], d)'
           /\ \A g \in call.eligible \ Open : RelaxedBy(walk[pass - 1], g)'
           /\ walk[N] = walk[N - 1] =>
                Above(walk[N - 1])' /\ pass < N /\ root = NoNode
                /\ (method = "FIFO" \/ N > 1 => ~Failed)
  BY <1>1, <1>2, <1>3, LabelCorrects
<1>5. Stale' = call.eligible /\ Open = todo /\ Open' = todo \ {d}
  BY <1>1, <1>2, <1>3, <1>4 DEF Stale, Open
<1>6. ASSUME NEW walk, IsWalk(walk)' PROVE Passes(walk)'
  <2>1. Within(walk[pass - 1])'
    BY <1>3, <1>4, <1>6
  <2>2. Relaxed(walk[pass - 1], call.eligible \ Open)'
    BY <1>3, <1>4, <1>5, <1>6 DEF Relaxed
  <2>3. ASSUME walk[N] = walk[N - 1]
        PROVE  /\ Above(walk[N - 1])' /\ pass' <= N /\ (pass' = N => ~updates') /\ root' = NoNode
               /\ (method' = "FIFO" \/ N > 1 => ~Failed')
    <3>1. /\ Above(walk[N - 1])' /\ pass < N /\ root = NoNode
          /\ (method = "FIFO" \/ N > 1 => ~Failed)
      BY <1>4, <1>6, <2>3
    <3>2. Failed' <=> Failed
      BY <1>3 DEF Failed
    <3>3. pass' <= N /\ pass' # N
      BY <1>1, <1>3, <3>1, GraphType DEF Corrected
    <3> QED
      BY <1>3, <1>4, <3>1, <3>2, <3>3
  <2> QED
    BY <2>1, <2>2, <2>3 DEF Passes
<1>7. Triangles(call.eligible \ Stale)'
  BY <1>3, <1>5 DEF Triangles
<1>8. \A walk : IsWalk(walk)' => Passes(walk)'
  BY <1>6
<1>9. pass' \in Nat \ {0} /\ root' = NoNode /\ pc' = "search" /\ error' = "none"
  BY <1>1, <1>3 DEF Corrected
<1> QED
  BY <1>1, <1>4, <1>7, <1>8, <1>9 DEF Corrected

\* A step that sets no label keeps the invariant if the walks and the darts that wait agree.
LEMMA CorrectedAgain ==
  ASSUME LabelInv, Corrected, UNCHANGED <<call, dist, labelled, pred, found>>,
         pass' \in Nat \ {0},
         \A d \in call.eligible \ Stale' : Triangle(d),
         \A walk : IsWalk(walk)' => Passes(walk)',
         pc' = "search" => error' = "none",
         pc' = "done" => Stale' = {} \/ Failed',
         method = "BELLMAN" => root' = NoNode,
         method = "FIFO" =>
           /\ here' \in Nodes \cup {-1}
           /\ pc' = "search" /\ ~updates' /\ root' = NoNode => queue' \subseteq Ahead'
  PROVE  Corrected'
<1>1. /\ Linked' /\ Forest' /\ found' = NoNode /\ method' = method
      /\ \A g \in call.eligible : Triangle(g) => Triangle(g)'
  BY CorrectedStays
<1>2. Triangles(call.eligible \ Stale)'
  BY <1>1 DEF Triangles
<1>3. method' = "BELLMAN" => root' = NoNode
  BY <1>1
<1>4. method' = "FIFO" =>
        /\ here' \in Nodes \cup {-1}
        /\ pc' = "search" /\ ~updates' /\ root' = NoNode => queue' \subseteq Ahead'
  BY <1>1
<1> QED
  BY <1>1, <1>2, <1>3, <1>4 DEF Corrected

\* A dart is read that offers nothing.
LEMMA SkipCorrects ==
  ASSUME CorrectInv, Correcting, BellmanSkip \/ FIFOSkip
  PROVE  Corrected'
<1>1. LabelInv /\ Corrected /\ Labels /\ Linked /\ NoShortTurn /\ todo \subseteq call.eligible
  BY CorrectTypes DEF CorrectInv, Correcting, Corrected
<1>2. PICK d \in todo : /\ StartNode(d) \notin labelled \/ ~Improves(d) \/ ~Usable(d)
                        /\ todo' = todo \ {d}
  BY DEF BellmanSkip, FIFOSkip
<1>3. /\ UNCHANGED <<call, pc, dist, labelled, pred, pass, updates, found, root, error>>
      /\ pc = "search" /\ queue' = queue /\ here' = here
  BY DEF BellmanSkip, FIFOSkip
<1>4. d \in call.eligible /\ Triangle(d)
  BY <1>1, <1>2, SkipIsRight
<1>5. /\ method' = method
      /\ \A walk : IsWalk(walk)' =>
           /\ Passes(walk)
           /\ \A k \in Nat : walk[k] \in Lengths /\ walk[k + 1] = WalkStep(walk[k])
           /\ \A w : (Within(w) => Within(w)') /\ (Above(w) => Above(w)')
           /\ \A w : \A g \in call.eligible : RelaxedBy(w, g) => RelaxedBy(w, g)'
  BY <1>1, <1>3, CorrectedStays
<1>6. /\ call.eligible \ Stale' \subseteq (call.eligible \ Stale) \cup {d}
      /\ call.eligible \ Open' \subseteq (call.eligible \ Open) \cup {d}
      /\ Ahead' = Ahead
  BY <1>2, <1>3, <1>5 DEF Stale, Open, Ahead
<1>7. ASSUME NEW walk, IsWalk(walk)' PROVE Passes(walk)'
  <2>1. /\ Passes(walk) /\ walk[pass - 1] \in Lengths
        /\ \A w : (Within(w) => Within(w)') /\ (Above(w) => Above(w)')
        /\ \A w : \A g \in call.eligible : RelaxedBy(w, g) => RelaxedBy(w, g)'
    <3>1. pass - 1 \in Nat
      BY <1>1 DEF Corrected
    <3> QED
      BY <1>5, <1>7, <3>1
  <2> DEFINE w == walk[pass - 1]
  <2>2. /\ w \in Lengths /\ Within(w) /\ Within(walk[pass - 1])'
        /\ \A g \in call.eligible \ Open : RelaxedBy(w, g)
        /\ \A g \in call.eligible : RelaxedBy(w, g) => RelaxedBy(walk[pass - 1], g)'
    BY <1>3, <2>1 DEF Passes, Relaxed
  <2> HIDE DEF w
  <2>3. RelaxedBy(w, d)
    BY <1>1, <1>4, <2>2, TriangleRelaxes
  <2>4. Relaxed(walk[pass - 1], call.eligible \ Open)'
    BY <1>3, <1>6, <2>2, <2>3 DEF Relaxed
  <2>5. walk[N] = walk[N - 1] =>
          /\ Above(walk[N - 1])' /\ pass' <= N /\ (pass' = N => ~updates') /\ root' = NoNode
          /\ (method' = "FIFO" \/ N > 1 => ~Failed')
    <3>1. Failed' <=> Failed
      BY <1>3 DEF Failed
    <3> QED
      BY <1>3, <1>5, <2>1, <3>1 DEF Passes
  <2> QED
    BY <2>2, <2>4, <2>5 DEF Passes
<1>8. \A walk : IsWalk(walk)' => Passes(walk)'
  BY <1>7
<1>9. \A g \in call.eligible \ Stale' : Triangle(g)
  BY <1>1, <1>4, <1>6 DEF Corrected, Triangles
<1> QED
  BY <1>1, <1>3, <1>6, <1>8, <1>9, CorrectedAgain DEF Corrected

\* SPX_BellmanFord(): the next pass, or the end.
LEMMA BellmanTurns ==
  ASSUME CorrectInv, Correcting, BellmanPass \/ BellmanFails \/ BellmanEnd
  PROVE  Corrected'
<1>1. /\ LabelInv /\ Corrected /\ Labels /\ method = "BELLMAN" /\ todo = {} /\ Open = {}
      /\ pc = "search" /\ error = "none" /\ root = NoNode
  BY CorrectTypes DEF CorrectInv, BellmanPass, BellmanFails, BellmanEnd, Open, Corrected
<1>2. UNCHANGED <<call, dist, labelled, pred, found, root>> /\ method' = method
  BY DEF BellmanPass, BellmanFails, BellmanEnd, Throw, Finish, method
<1>3. /\ \A walk : IsWalk(walk)' =>
           /\ Passes(walk)
           /\ \A k \in Nat : walk[k] \in Lengths /\ walk[k + 1] = WalkStep(walk[k])
           /\ \A w : (Within(w) => Within(w)') /\ (Above(w) => Above(w)')
           /\ \A w : \A g \in call.eligible : RelaxedBy(w, g) => RelaxedBy(w, g)'
  BY <1>1, <1>2, CorrectedStays
<1>4. pass \in Nat \ {0} /\ pass - 1 \in Nat /\ N \in Nat \ {0}
  BY <1>1, GraphType DEF Corrected
<1>5. CASE BellmanPass
  <2>1. /\ updates /\ pass' = pass + 1 /\ ~updates' /\ todo' = call.eligible
        /\ pc' = "search" /\ error' = "none"
    BY <1>1, <1>5 DEF BellmanPass
  <2>2. Stale' = call.eligible /\ Open' = call.eligible
    BY <1>1, <1>2, <2>1 DEF Stale, Open
  <2>3. ASSUME NEW walk, IsWalk(walk)' PROVE Passes(walk)'
    <3> DEFINE w == walk[pass - 1]
    <3>1. w \in Lengths /\ Within(w) /\ Relaxed(w, call.eligible) /\ walk[pass] = WalkStep(w)
      <4>1. (pass - 1) + 1 = pass
        BY <1>4
      <4>2. Passes(walk) /\ walk[pass - 1] \in Lengths /\ walk[pass] = WalkStep(walk[pass - 1])
        BY <1>3, <1>4, <2>3, <4>1
      <4> QED
        BY <1>1, <4>2 DEF Passes
    <3> HIDE DEF w
    <3>2. Within(walk[pass])
      BY <1>1, <3>1, WithinOneMore
    <3>3. pass' - 1 = pass
      BY <1>4, <2>1
    <3>5. Within(walk[pass - 1])'
      <4>1. \A x : Within(x) => Within(x)'
        BY <1>3, <2>3
      <4> QED
        BY <3>2, <3>3, <4>1
    <3>6. Relaxed(walk[pass - 1], call.eligible \ Open)'
      BY <2>2, <1>2 DEF Relaxed
    <3>7. walk[N] = walk[N - 1] =>
            /\ Above(walk[N - 1])' /\ pass' <= N /\ (pass' = N => ~updates') /\ root' = NoNode
            /\ (method' = "FIFO" \/ N > 1 => ~Failed')
      <4> SUFFICES ASSUME walk[N] = walk[N - 1]
                   PROVE  /\ Above(walk[N - 1])' /\ pass' <= N /\ root' = NoNode
                          /\ (method' = "FIFO" \/ N > 1 => ~Failed')
        BY <2>1
      <4>1. /\ Above(walk[N - 1])' /\ pass <= N /\ pass # N
            /\ (method = "FIFO" \/ N > 1 => ~Failed)
        BY <1>3, <2>1, <2>3 DEF Passes
      <4>2. pass' <= N
        BY <1>4, <2>1, <4>1
      <4>3. Failed' <=> Failed
        BY <1>1, <2>1 DEF Failed
      <4> QED
        BY <1>1, <1>2, <4>1, <4>2, <4>3
    <3> QED
      BY <3>5, <3>6, <3>7 DEF Passes
  <2>4. pass' \in Nat \ {0}
    BY <1>4, <2>1
  <2>5. \A walk : IsWalk(walk)' => Passes(walk)'
    BY <2>3
  <2> QED
    BY <1>1, <1>2, <2>1, <2>2, <2>4, <2>5, CorrectedAgain DEF Corrected, Triangles
<1>6. CASE BellmanFails
  <2>1. /\ pass = LastPass /\ Failed' /\ UNCHANGED <<pass, updates, todo, queue, here>>
        /\ pc' = "done"
    BY <1>6, Zenon DEF BellmanFails, Throw, Failed
  <2>2. Stale' = Stale /\ Open' = Open
    BY <1>1, <1>2, <2>1 DEF Stale, Open
  <2>3. ASSUME NEW walk, IsWalk(walk)' PROVE Passes(walk)'
    <3>1. Passes(walk) /\ \A w : (Within(w) => Within(w)') /\ (Above(w) => Above(w)')
      BY <1>3, <2>3
    <3>2. \A w : \A g \in call.eligible : RelaxedBy(w, g) => RelaxedBy(w, g)'
      BY <1>3, <2>3
    <3>3. Within(walk[pass - 1])' /\ Relaxed(walk[pass - 1], call.eligible \ Open)'
      BY <1>2, <2>1, <2>2, <3>1, <3>2 DEF Passes, Relaxed
    <3>4. ASSUME walk[N] = walk[N - 1] PROVE N = 1 /\ pass <= N
      <4>1. pass <= N
        BY <3>1, <3>4 DEF Passes
      <4> QED
        BY <1>4, <2>1, <4>1 DEF LastPass
    <3>5. walk[N] = walk[N - 1] =>
            /\ Above(walk[N - 1])' /\ pass' <= N /\ (pass' = N => ~updates') /\ root' = NoNode
            /\ (method' = "FIFO" \/ N > 1 => ~Failed')
      <4>1. walk[N] = walk[N - 1] => ~(method' = "FIFO" \/ N > 1)
        BY <1>1, <1>2, <3>4
      <4> QED
        BY <1>1, <1>2, <2>1, <3>1, <4>1 DEF Passes
    <3> QED
      BY <3>3, <3>5 DEF Passes
  <2>4. \A walk : IsWalk(walk)' => Passes(walk)'
    BY <2>3
  <2> QED
    BY <1>1, <1>2, <1>4, <2>1, <2>2, <2>4, CorrectedAgain DEF Corrected, Triangles
<1>7. CASE BellmanEnd
  <2>1. /\ ~updates /\ UNCHANGED <<pass, updates, todo, queue, here, error>>
        /\ pc' = "done"
    BY <1>7 DEF BellmanEnd, Finish
  <2>2. Stale' = Stale /\ Open' = Open /\ Stale = {}
    BY <1>1, <1>2, <2>1 DEF Stale, Open
  <2>3. ASSUME NEW walk, IsWalk(walk)' PROVE Passes(walk)'
    <3>1. Passes(walk) /\ \A w : (Within(w) => Within(w)') /\ (Above(w) => Above(w)')
      BY <1>3, <2>3
    <3>2. \A w : \A g \in call.eligible : RelaxedBy(w, g) => RelaxedBy(w, g)'
      BY <1>3, <2>3
    <3>3. Within(walk[pass - 1])' /\ Relaxed(walk[pass - 1], call.eligible \ Open)'
      BY <1>2, <2>1, <2>2, <3>1, <3>2 DEF Passes, Relaxed
    <3>4. walk[N] = walk[N - 1] =>
            /\ Above(walk[N - 1])' /\ pass' <= N /\ (pass' = N => ~updates') /\ root' = NoNode
            /\ (method' = "FIFO" \/ N > 1 => ~Failed')
      <4>1. Failed' <=> Failed
        BY <2>1 DEF Failed
      <4> QED
        BY <1>2, <2>1, <3>1, <4>1 DEF Passes
    <3> QED
      BY <3>3, <3>4 DEF Passes
  <2>4. \A walk : IsWalk(walk)' => Passes(walk)'
    BY <2>3
  <2> QED
    BY <1>1, <1>2, <1>4, <2>1, <2>2, <2>4, CorrectedAgain DEF Corrected, Triangles
<1> QED
  BY <1>5, <1>6, <1>7

\* NegativeCycle(): the next active node is scanned.
LEMMA FIFOTakes ==
  ASSUME CorrectInv, Correcting, FIFOTake
  PROVE  Corrected'
<1>1. /\ LabelInv /\ Corrected /\ method = "FIFO" /\ todo = {} /\ queue \subseteq Nodes
      /\ pc = "search" /\ call \in Calls
  BY CorrectTypes DEF CorrectInv, FIFOTake, Labels
<1>2. PICK v \in Ahead : /\ \A w \in Ahead : v <= w
                         /\ here' = v /\ queue' = queue \ {v} /\ todo' = EligibleFrom(v)
  BY DEF FIFOTake
<1>3. /\ UNCHANGED <<call, pc, dist, labelled, pred, pass, updates, found, root, error>>
      /\ method' = method
  BY DEF FIFOTake, method
<1>4. /\ v \in queue /\ v \in Nodes /\ Nodes \subseteq Int /\ \A u \in Ahead : u \in queue
      /\ here \in Int
  <2>1. here \in Nodes \cup {-1}
    BY <1>1 DEF Corrected
  <2> QED
    BY <1>1, <1>2, <2>1 DEF Ahead, Nodes
<1>5. Ahead' = Ahead \ {v}
  <2>1. ASSUME NEW u \in Ahead', here' = v, queue' = queue \ {v} PROVE u \in Ahead \ {v}
    <3>1. u \in queue /\ u # v /\ u > v /\ v > here
      BY <1>2, <2>1 DEF Ahead
    <3>2. u \in Int /\ v \in Int /\ here \in Int
      BY <1>1, <1>4, <3>1
    <3> QED
      BY <3>1, <3>2 DEF Ahead
  <2>2. ASSUME NEW u \in Ahead \ {v} PROVE u \in Ahead'
    <3>1. u \in queue /\ u # v /\ v <= u /\ u \in Int /\ v \in Int
      BY <1>1, <1>2, <1>4
    <3> QED
      BY <1>2, <3>1 DEF Ahead
  <2> QED
    BY <1>2, <2>1, <2>2
<1>6. EligibleFrom(v) = {d \in call.eligible : StartNode(d) = v}
  <2>1. call.eligible \subseteq Darts
    BY <1>1, CallsType
  <2> QED
    BY <2>1 DEF EligibleFrom, DartsFrom
<1>7. Stale' = Stale /\ Open' = Open
  <2>1. /\ Stale = todo \cup {d \in call.eligible : StartNode(d) \in queue}
        /\ Open = todo \cup {d \in call.eligible : StartNode(d) \in Ahead}
    BY <1>1 DEF Stale, Open
  <2>2. /\ Stale' = todo' \cup {d \in call.eligible : StartNode(d) \in queue'}
        /\ Open' = todo' \cup {d \in call.eligible : StartNode(d) \in Ahead'}
    BY <1>1, <1>3 DEF Stale, Open
  <2>3. Stale' = Stale
    BY <1>1, <1>2, <1>4, <1>6, <2>1, <2>2
  <2>4. Open' = Open
    BY <1>1, <1>2, <1>5, <1>6, <2>1, <2>2
  <2> QED
    BY <2>3, <2>4
<1>8. ASSUME NEW walk, IsWalk(walk)' PROVE Passes(walk)'
  <2>1. /\ Passes(walk) /\ \A w : (Within(w) => Within(w)') /\ (Above(w) => Above(w)')
        /\ \A w : \A g \in call.eligible : RelaxedBy(w, g) => RelaxedBy(w, g)'
    BY <1>1, <1>3, <1>8, CorrectedStays
  <2>2. Within(walk[pass - 1])' /\ Relaxed(walk[pass - 1], call.eligible \ Open)'
    BY <1>3, <1>7, <2>1 DEF Passes, Relaxed
  <2>3. Failed' <=> Failed
    BY <1>3 DEF Failed
  <2>4. walk[N] = walk[N - 1] =>
          /\ Above(walk[N - 1])' /\ pass' <= N /\ (pass' = N => ~updates') /\ root' = NoNode
          /\ (method' = "FIFO" \/ N > 1 => ~Failed')
    BY <1>3, <2>1, <2>3 DEF Passes
  <2> QED
    BY <2>2, <2>4 DEF Passes
<1>9. \A walk : IsWalk(walk)' => Passes(walk)'
  BY <1>8
<1>10. /\ here' \in Nodes \cup {-1}
       /\ pc' = "search" /\ ~updates' /\ root' = NoNode => queue' \subseteq Ahead'
  BY <1>1, <1>2, <1>3, <1>4, <1>5 DEF Corrected
<1>11. \A d \in call.eligible \ Stale' : Triangle(d)
  BY <1>1, <1>7 DEF Corrected, Triangles
<1> QED
  BY <1>1, <1>3, <1>9, <1>10, <1>11, CorrectedAgain DEF Corrected

\* NegativeCycle(): a label is set.
LEMMA FIFOLabels ==
  ASSUME CorrectInv, Correcting, FIFOLabel
  PROVE  Corrected'
<1>1. /\ LabelInv /\ Corrected /\ Labels /\ todo \subseteq call.eligible /\ method = "FIFO"
      /\ queue \subseteq Nodes /\ pc = "search"
  BY CorrectTypes DEF CorrectInv, FIFOLabel
<1>2. PICK d \in todo : /\ Improves(d) /\ Label(d) /\ queue' = Activated(EndNode(d))
                        /\ todo' = todo \ {d}
  BY DEF FIFOLabel
<1>3. /\ UNCHANGED <<call, pc, here, pass, found, error>>
      /\ pass < 2 * N => updates' = TRUE /\ root' = root
      /\ ~(pass < 2 * N) => root' = here
  BY DEF FIFOLabel
<1>4. StartNode(d) \in labelled /\ StartNode(d) = here /\ d \in call.eligible
  BY <1>1, <1>2 DEF LabelInv, ScansLabelled
<1>5. /\ Linked' /\ Forest' /\ found' = NoNode /\ method' = method
      /\ \A g \in call.eligible : Triangle(g) /\ StartNode(g) # EndNode(d) => Triangle(g)'
      /\ StartNode(d) # EndNode(d) => Triangle(d)'
      /\ \A walk : IsWalk(walk)' =>
           /\ Within(walk[pass - 1])' /\ RelaxedBy(walk[pass - 1], d)'
           /\ \A g \in call.eligible \ Open : RelaxedBy(walk[pass - 1], g)'
           /\ walk[N] = walk[N - 1] =>
                Above(walk[N - 1])' /\ pass < N /\ root = NoNode
                /\ (method = "FIFO" \/ N > 1 => ~Failed)
  BY <1>1, <1>2, <1>3, <1>4, LabelCorrects
<1>6. queue' = queue \cup {EndNode(d)} /\ Ahead \subseteq Ahead'
  BY <1>2, <1>3 DEF Activated, Ahead
<1>7. ASSUME NEW g \in call.eligible \ Stale'
      PROVE  (g = d \/ g \notin Stale) /\ StartNode(g) # EndNode(d)
  BY <1>1, <1>2, <1>3, <1>5, <1>6 DEF Stale
<1>8. call.eligible \ Open' \subseteq (call.eligible \ Open) \cup {d}
  BY <1>1, <1>2, <1>3, <1>5, <1>6 DEF Open
<1>9. Triangles(call.eligible \ Stale)'
  <2>1. ASSUME NEW g \in call.eligible \ Stale' PROVE Triangle(g)'
    <3>1. CASE g = d
      BY <1>5, <1>7, <2>1, <3>1
    <3>2. CASE g # d
      BY <1>1, <1>5, <1>7, <2>1, <3>2 DEF Corrected, Triangles
    <3> QED
      BY <3>1, <3>2
  <2> QED
    BY <1>3, <2>1 DEF Triangles
<1>10. ASSUME NEW walk, IsWalk(walk)' PROVE Passes(walk)'
  <2>1. Within(walk[pass - 1])'
    BY <1>3, <1>5, <1>10
  <2>2. Relaxed(walk[pass - 1], call.eligible \ Open)'
    BY <1>3, <1>5, <1>8, <1>10 DEF Relaxed
  <2>3. ASSUME walk[N] = walk[N - 1]
        PROVE  /\ Above(walk[N - 1])' /\ pass' <= N /\ (pass' = N => ~updates') /\ root' = NoNode
               /\ (method' = "FIFO" \/ N > 1 => ~Failed')
    <3>1. /\ Above(walk[N - 1])' /\ pass < N /\ root = NoNode /\ ~Failed
      BY <1>1, <1>5, <1>10, <2>3
    <3>2. Failed' <=> Failed
      BY <1>3 DEF Failed
    <3>3. pass < 2 * N /\ pass' <= N /\ pass' # N
      BY <1>1, <1>3, <3>1, GraphType DEF Corrected
    <3> QED
      BY <1>3, <1>5, <3>1, <3>2, <3>3
  <2> QED
    BY <2>1, <2>2, <2>3 DEF Passes
<1>11. \A walk : IsWalk(walk)' => Passes(walk)'
  BY <1>10
<1>12. /\ here' \in Nodes \cup {-1}
       /\ pc' = "search" /\ ~updates' /\ root' = NoNode => queue' \subseteq Ahead'
  <2>1. here' \in Nodes
    BY <1>1, <1>3, <1>4, EligibleDarts DEF Labels
  <2>2. here' # NoNode
    BY <2>1, GraphType DEF Nodes, NoNode
  <2> QED
    BY <1>3, <2>1, <2>2
<1>13. pass' \in Nat \ {0} /\ pc' = "search" /\ error' = "none"
  BY <1>1, <1>3 DEF Corrected
<1> QED
  BY <1>1, <1>5, <1>9, <1>11, <1>12, <1>13 DEF Corrected

\* NegativeCycle(): the next pass.
LEMMA FIFOTurns ==
  ASSUME CorrectInv, Correcting, FIFOPass
  PROVE  Corrected'
<1>1. /\ LabelInv /\ Corrected /\ Labels /\ method = "FIFO" /\ todo = {} /\ Ahead = {} /\ Open = {}
      /\ pc = "search" /\ updates /\ queue \subseteq Nodes
  BY CorrectTypes DEF CorrectInv, FIFOPass, Open
<1>2. /\ UNCHANGED <<call, pc, dist, labelled, pred, queue, todo, found, root, error>>
      /\ pass' = pass + 1 /\ ~updates' /\ here' = -1 /\ method' = method
  BY DEF FIFOPass, method
<1>3. pass \in Nat \ {0} /\ pass - 1 \in Nat /\ N \in Nat \ {0} /\ (pass - 1) + 1 = pass
  BY <1>1, GraphType DEF Corrected
<1>4. Ahead' = queue
  <2>1. \A v \in queue : v > -1
    BY <1>1 DEF Nodes
  <2> QED
    BY <1>2, <2>1 DEF Ahead
<1>5. Stale' = Stale /\ Open' = Stale
  BY <1>1, <1>2, <1>4 DEF Stale, Open
<1>6. ASSUME NEW walk, IsWalk(walk)' PROVE Passes(walk)'
  <2>1. /\ Passes(walk) /\ \A w : (Within(w) => Within(w)') /\ (Above(w) => Above(w)')
        /\ \A w : \A g \in call.eligible : RelaxedBy(w, g) => RelaxedBy(w, g)'
        /\ \A k \in Nat : walk[k] \in Lengths /\ walk[k + 1] = WalkStep(walk[k])
    BY <1>1, <1>2, <1>6, CorrectedStays
  <2>2. PICK x : x = walk[pass]
    OBVIOUS
  <2>3. walk[pass' - 1] = x
    BY <1>2, <1>3, <2>2
  <2>4. x \in Lengths /\ Within(x)
    <3> DEFINE w == walk[pass - 1]
    <3>1. w \in Lengths /\ Within(w) /\ Relaxed(w, call.eligible) /\ x = WalkStep(w)
      BY <1>1, <1>3, <2>1, <2>2 DEF Passes
    <3> HIDE DEF w
    <3> QED
      BY <1>1, <1>3, <2>1, <2>2, <3>1, WithinOneMore
  <2>5. \A g \in call.eligible \ Open' : RelaxedBy(x, g)
    <3> SUFFICES ASSUME NEW g \in call.eligible \ Open' PROVE RelaxedBy(x, g)
      OBVIOUS
    <3>1. Triangle(g)
      BY <1>1, <1>5 DEF Corrected, Triangles
    <3> QED
      BY <1>1, <2>4, <3>1, TriangleRelaxes
  <2>6. Within(x)' /\ \A g \in call.eligible \ Open' : RelaxedBy(x, g)'
    BY <2>1, <2>4, <2>5
  <2>7. Within(walk[pass - 1])' /\ Relaxed(walk[pass - 1], call.eligible \ Open)'
    BY <1>2, <2>3, <2>6 DEF Relaxed
  <2>8. walk[N] = walk[N - 1] =>
          /\ Above(walk[N - 1])' /\ pass' <= N /\ (pass' = N => ~updates') /\ root' = NoNode
          /\ (method' = "FIFO" \/ N > 1 => ~Failed')
    <3> SUFFICES ASSUME walk[N] = walk[N - 1]
                 PROVE  /\ Above(walk[N - 1])' /\ pass' <= N /\ root' = NoNode
                        /\ (method' = "FIFO" \/ N > 1 => ~Failed')
      BY <1>2
    <3>1. /\ Above(walk[N - 1])' /\ pass <= N /\ pass # N /\ root = NoNode
          /\ (method = "FIFO" \/ N > 1 => ~Failed)
      BY <1>1, <2>1 DEF Passes
    <3>2. pass' <= N
      BY <1>2, <1>3, <3>1
    <3>3. Failed' <=> Failed
      BY <1>2 DEF Failed
    <3> QED
      BY <1>2, <3>1, <3>2, <3>3
  <2> QED
    BY <2>7, <2>8 DEF Passes
<1>7. \A walk : IsWalk(walk)' => Passes(walk)'
  BY <1>6
<1>8. pass' \in Nat \ {0} /\ here' \in Nodes \cup {-1} /\ queue' \subseteq Ahead'
  BY <1>2, <1>3, <1>4
<1>9. \A d \in call.eligible \ Stale' : Triangle(d)
  BY <1>1, <1>5 DEF Corrected, Triangles
<1> QED
  BY <1>1, <1>2, <1>7, <1>8, <1>9, CorrectedAgain DEF Corrected

\* NegativeCycle(): the end.
LEMMA FIFOStops ==
  ASSUME CorrectInv, Correcting, FIFOEnd \/ FIFOFails
  PROVE  Corrected'
<1>1. /\ LabelInv /\ Corrected /\ method = "FIFO" /\ todo = {} /\ Ahead = {}
      /\ pc = "search" /\ ~updates
  BY Zenon DEF CorrectInv, FIFOEnd, FIFOFails
<1>2. /\ UNCHANGED <<call, dist, labelled, pred, queue, here, todo, pass, updates, found>>
      /\ pc' = "done" /\ method' = method
  BY Zenon DEF FIFOEnd, FIFOFails, Finish, method
<1>3. \/ root = NoNode /\ root' = NoNode /\ error' = error
      \/ root # NoNode /\ Failed'
  <2>1. CASE FIFOEnd
    BY <2>1 DEF FIFOEnd, Finish
  <2>2. CASE FIFOFails
    <3>1. root # NoNode /\ error' = "negative cycle"
      BY <2>2, Zenon DEF FIFOFails
    <3> QED
      BY <3>1, Zenon DEF Failed
  <2> QED
    BY <2>1, <2>2
<1>4. Stale' = Stale /\ Open' = Open
  BY <1>1, <1>2 DEF Stale, Open, Ahead
<1>5. root = NoNode => Stale' = {}
  <2>1. root = NoNode => queue = {}
    BY <1>1 DEF Corrected
  <2> QED
    BY <1>1, <1>4, <2>1 DEF Stale
<1>6. ASSUME NEW walk, IsWalk(walk)' PROVE Passes(walk)'
  <2>1. /\ Passes(walk) /\ \A w : (Within(w) => Within(w)') /\ (Above(w) => Above(w)')
        /\ \A w : \A g \in call.eligible : RelaxedBy(w, g) => RelaxedBy(w, g)'
    BY <1>1, <1>2, <1>6, CorrectedStays
  <2>2. Within(walk[pass - 1])' /\ Relaxed(walk[pass - 1], call.eligible \ Open)'
    BY <1>2, <1>4, <2>1 DEF Passes, Relaxed
  <2>3. root = NoNode => root' = NoNode /\ (Failed' <=> Failed)
    BY <1>3 DEF Failed
  <2>4. walk[N] = walk[N - 1] =>
          /\ Above(walk[N - 1])' /\ pass' <= N /\ (pass' = N => ~updates') /\ root' = NoNode
          /\ (method' = "FIFO" \/ N > 1 => ~Failed')
    BY <1>1, <1>2, <2>1, <2>3 DEF Passes
  <2> QED
    BY <2>2, <2>4 DEF Passes
<1>7. \A walk : IsWalk(walk)' => Passes(walk)'
  BY <1>6
<1>8. pc' = "done" => Stale' = {} \/ Failed'
  BY <1>3, <1>5
<1>9. \A d \in call.eligible \ Stale' : Triangle(d)
  BY <1>1, <1>4 DEF Corrected, Triangles
<1> QED
  BY <1>1, <1>2, <1>7, <1>8, <1>9, CorrectedAgain DEF Corrected

LEMMA CorrectStutters ==
  ASSUME CorrectInv, Correcting, UNCHANGED vars
  PROVE  Corrected'
<1>1. /\ UNCHANGED <<call, pc, dist, labelled, pred, queue, here, todo, pass, updates, found, root,
                     error>>
      /\ method' = method /\ LabelInv /\ Corrected
  BY DEF vars, method, CorrectInv
<1>2. Stale' = Stale /\ Open' = Open /\ Ahead' = Ahead /\ (Failed' <=> Failed)
  BY <1>1 DEF Stale, Open, Ahead, Failed
<1>3. ASSUME NEW walk, IsWalk(walk)' PROVE Passes(walk)'
  <2>1. /\ Passes(walk) /\ \A w : (Within(w) => Within(w)') /\ (Above(w) => Above(w)')
        /\ \A w : \A g \in call.eligible : RelaxedBy(w, g) => RelaxedBy(w, g)'
    BY <1>1, <1>3, CorrectedStays
  <2>2. Within(walk[pass - 1])' /\ Relaxed(walk[pass - 1], call.eligible \ Open)'
    BY <1>1, <1>2, <2>1 DEF Passes, Relaxed
  <2>3. walk[N] = walk[N - 1] =>
          /\ Above(walk[N - 1])' /\ pass' <= N /\ (pass' = N => ~updates') /\ root' = NoNode
          /\ (method' = "FIFO" \/ N > 1 => ~Failed')
    BY <1>1, <1>2, <2>1 DEF Passes
  <2> QED
    BY <2>2, <2>3 DEF Passes
<1>4. \A walk : IsWalk(walk)' => Passes(walk)'
  BY <1>3
<1> QED
  BY <1>1, <1>2, <1>4, CorrectedAgain DEF Corrected, Triangles

\* What the other methods do does not matter.
LEMMA StepCorrects == CorrectInv /\ [Next]_vars => CorrectInv'
<1> SUFFICES ASSUME CorrectInv, [Next]_vars PROVE CorrectInv'
  OBVIOUS
<1>1. LabelInv'
  BY StepKeepsLabels DEF CorrectInv
<1>2. call' = call /\ Fresh'
  <2>1. CASE UNCHANGED vars
    BY <2>1 DEF CorrectInv, Fresh, vars, NoNode
  <2>2. CASE Next
    <3>1. pc' # "start" /\ call' = call
      BY <2>2 DEF Next, DijkstraStart, DijkstraTake, DijkstraSkip, NegativeLength, NoSuchItem,
           DijkstraLabel, DijkstraEnd, BellmanStart, BellmanSkip, BellmanLabel, BellmanPass,
           BellmanFails, BellmanEnd, FIFOStart, FIFOTake, FIFOSkip, FIFOLabel, FIFOPass, FIFOEnd,
           FIFOFails, DAGStart, DAGTake, DAGRead, DAGFails, DAGEnd, Throw, Finish
    <3> QED
      BY <3>1 DEF Fresh
  <2> QED
    BY <2>1, <2>2
<1>3. method' = method /\ (NoShortTurn' <=> NoShortTurn)
  BY <1>2, WalksUnchanged DEF method
<1> SUFFICES ASSUME Correcting' PROVE Corrected'
  BY <1>1, <1>2 DEF CorrectInv
<1>4. method \in {"BELLMAN", "FIFO"} /\ NoShortTurn /\ (pc # "start" => Correcting)
  BY <1>3 DEF Correcting
<1>5. CASE UNCHANGED vars
  <2>1. pc # "start"
    BY <1>5 DEF Correcting, vars
  <2> QED
    BY <1>4, <1>5, <2>1, CorrectStutters
<1>6. CASE BellmanStart \/ FIFOStart
  BY <1>4, <1>6, StartCorrects
<1>7. CASE BellmanSkip \/ FIFOSkip
  <2>1. pc # "start"
    BY <1>7 DEF BellmanSkip, FIFOSkip
  <2> QED
    BY <1>4, <1>7, <2>1, SkipCorrects
<1>8. CASE BellmanLabel
  <2>1. pc # "start"
    BY <1>8 DEF BellmanLabel
  <2> QED
    BY <1>4, <1>8, <2>1, BellmanLabels
<1>9. CASE BellmanPass \/ BellmanFails \/ BellmanEnd
  <2>1. pc # "start"
    BY <1>9 DEF BellmanPass, BellmanFails, BellmanEnd
  <2> QED
    BY <1>4, <1>9, <2>1, BellmanTurns
<1>10. CASE FIFOTake
  <2>1. pc # "start"
    BY <1>10 DEF FIFOTake
  <2> QED
    BY <1>4, <1>10, <2>1, FIFOTakes
<1>11. CASE FIFOLabel
  <2>1. pc # "start"
    BY <1>11 DEF FIFOLabel
  <2> QED
    BY <1>4, <1>11, <2>1, FIFOLabels
<1>12. CASE FIFOPass
  <2>1. pc # "start"
    BY <1>12 DEF FIFOPass
  <2> QED
    BY <1>4, <1>12, <2>1, FIFOTurns
<1>13. CASE FIFOEnd \/ FIFOFails
  <2>1. pc # "start"
    BY <1>13 DEF FIFOEnd, FIFOFails
  <2> QED
    BY <1>4, <1>13, <2>1, FIFOStops
<1>14. CASE \/ DijkstraStart \/ DijkstraTake \/ DijkstraSkip \/ NegativeLength \/ NoSuchItem
            \/ DijkstraLabel \/ DijkstraEnd
  <2>1. method = "DIJKSTRA"
    BY <1>14 DEF DijkstraStart, DijkstraTake, DijkstraSkip, NegativeLength, NoSuchItem,
                 DijkstraLabel, DijkstraEnd
  <2> QED
    BY <1>4, <2>1
<1>15. CASE DAGStart \/ DAGTake \/ DAGRead \/ DAGFails \/ DAGEnd
  <2>1. method = "DAG"
    BY <1>15 DEF DAGStart, DAGTake, DAGRead, DAGFails, DAGEnd
  <2> QED
    BY <1>4, <2>1
<1> QED
  BY <1>5, <1>6, <1>7, <1>8, <1>9, <1>10, <1>11, <1>12, <1>13, <1>14, <1>15 DEF Next

LEMMA LabelsStayCorrect == Spec => []CorrectInv
<1>1. Init => CorrectInv
  BY InitLabels DEF Init, CorrectInv, Fresh, Correcting
<1> QED
  BY <1>1, StepCorrects, PTL DEF Spec

\* At the end of a label correcting method.
LEMMA CorrectedIsExact ==
  ASSUME CorrectInv, method \in {"BELLMAN", "FIFO"}, NoShortTurn
  PROVE  /\ LabelsAreDistances
         /\ pc = "done" => /\ Failed => (method = "BELLMAN" /\ N = 1) \/ HasNegativeCycle
                           /\ HasNegativeCycle => Failed
<1> SUFFICES ASSUME pc = "done"
             PROVE  /\ LabelsAreDistances
                    /\ Failed => (method = "BELLMAN" /\ N = 1) \/ HasNegativeCycle
                    /\ HasNegativeCycle => Failed
  BY DEF LabelsAreDistances
<1>1. Corrected /\ Labels
  BY CorrectTypes DEF CorrectInv, Correcting
<1>2. CASE Failed
  <2>1. LabelsAreDistances
    <3>1. error # "none"
      BY <1>2, Zenon DEF Failed
    <3> QED
      BY <3>1, Zenon DEF LabelsAreDistances
  <2>2. ASSUME ~HasNegativeCycle PROVE method = "BELLMAN" /\ N = 1
    <3>1. PICK walk : IsWalk(walk) /\ ShortestWalks[N - 1] = walk[N - 1] /\ ShortestWalks[N] = walk[N]
      BY <1>1, WalksExist, WalksAreRecursive DEF Labels
    <3>2. walk[N] = walk[N - 1]
      BY <2>2, <3>1 DEF HasNegativeCycle
    <3>3. ~(method = "FIFO" \/ N > 1)
      BY <1>1, <1>2, <3>1, <3>2 DEF Corrected, Passes
    <3> QED
      BY <3>3, GraphType
  <2> QED
    BY <1>2, <2>1, <2>2
<1>3. CASE ~Failed
  <2>1. Stale = {}
    BY <1>1, <1>3 DEF Corrected
  <2>2. Triangles(call.eligible) /\ Linked /\ found = NoNode
    BY <1>1, <2>1 DEF Corrected
  <2>3. NoPredCycle
    <3>1. dist \in [Nodes -> Int] /\ labelled \in SUBSET Nodes
      BY <1>1 DEF Labels
    <3>2. Potential(dist, labelled)
      BY <2>2 DEF Potential, Linked, Triangles, Triangle, Offer
    <3> QED
      BY <1>1, <3>1, <3>2 DEF Corrected, Forest
  <2>4. LabelsAreDistances /\ ~HasNegativeCycle
    BY <1>1, <2>2, <2>3, FinalIsExact
  <2> QED
    BY <1>3, <2>4
<1> QED
  BY <1>2, <1>3

-----------------------------------------------------------------------------
(* The cycle that is reported. *)

\* Wherever the predecessor arcs lead round, a label could be improved along them: going
\* round saves something.
Saving == \A C \in SUBSET labelled : Turns(C) => \E v \in C : Offer(pred[v]) < dist[v]

\* The predecessor arcs lead from r back to r.
OnCycle(r) ==
  \E m \in 1 .. N : \E h \in [Nat -> labelled] :
    /\ h[0] = r /\ h[m] = r
    /\ \A k \in Nat : pred[h[k]] # NoArc /\ h[k + 1] = StartNode(pred[h[k]])

\* The search that CyclesAreFound makes.
Turn(r, b) ==
  b = [k \in Nat |->
         IF k = 0 THEN <<r, 0>>
         ELSE IF k > 1 /\ b[k - 1][1] = r THEN b[k - 1]
              ELSE <<StartNode(pred[b[k - 1][1]]), b[k - 1][2] + len[pred[b[k - 1][1]]]>>]

\* It has come back to r, over a negative length.
Closes(b, r) == b[N][1] = r /\ b[N][2] < 0

\* What is known of cycles: a label that is set in pass 2n depends on one.
Looped ==
  /\ Saving
  /\ pc = "search" /\ root # NoNode =>
       2 * N <= pass /\ \E C \in SUBSET labelled : Turns(C) /\ root \in C
  /\ pc = "done" /\ root # NoNode => OnCycle(root)

\* The invariant behind the cycle that is reported.
LoopInv == CorrectInv /\ (Correcting /\ method = "FIFO" => Looped)

\* A label that gets smaller leaves something to save for the next node of the cycle.
LEMMA LabelSaves ==
  ASSUME Labels, Linked, Saving, NEW d \in call.eligible, StartNode(d) \in labelled,
         Improves(d), Label(d), call' = call
  PROVE  Saving'
<1> DEFINE e == EndNode(d)
<1>1. /\ Labels' /\ len' = len /\ labelled' = labelled \cup {e}
      /\ StartNode(d) \in Nodes /\ e \in Nodes /\ len[d] \in Int
      /\ dist'[e] = dist[StartNode(d)] + len[d] /\ pred'[e] = d
      /\ \A v \in Nodes : v # e => dist'[v] = dist[v] /\ pred'[v] = pred[v]
      /\ \A v \in labelled : v = e => dist'[v] < dist[v]
  BY LabelEffect
<1> HIDE DEF e
<1>2. \A v \in Nodes : dist[v] \in Int /\ dist'[v] \in Int
  BY <1>1 DEF Labels
<1> SUFFICES ASSUME NEW C \in SUBSET labelled', Turns(C)'
             PROVE  \E v \in C : Offer(pred[v])' < dist'[v]
  BY DEF Saving
<1>3. \A v \in C : v \in Nodes /\ pred'[v] # NoArc /\ StartNode(pred'[v]) \in C
  BY <1>1 DEF Turns, Labels
<1>4. \A v \in C : v # e => v \in labelled /\ pred'[v] = pred[v] /\ dist'[v] = dist[v]
  BY <1>1, <1>3
<1>5. CASE \E v \in C : v # e /\ StartNode(pred[v]) = e
  <2>1. PICK v \in C : v # e /\ StartNode(pred[v]) = e
    BY <1>5
  <2>2. /\ v \in labelled /\ v \in Nodes /\ pred'[v] = pred[v] /\ dist'[v] = dist[v]
        /\ pred[v] # NoArc
    BY <1>3, <1>4, <2>1
  <2>3. /\ e \in labelled /\ len[pred[v]] \in Int
        /\ dist[e] + len[pred[v]] <= dist[v]
    BY <2>1, <2>2, LinkedTypes DEF Linked
  <2>4. Offer(pred[v])' = dist'[e] + len[pred[v]]
    BY <1>1, <2>1, <2>2 DEF Offer
  <2>5. dist'[e] < dist[e]
    BY <1>1, <2>3
  <2>6. dist'[e] + len[pred[v]] < dist'[v]
    BY <1>1, <1>2, <2>2, <2>3, <2>5
  <2> QED
    BY <2>4, <2>6
<1>6. CASE (\A v \in C : v = e \/ StartNode(pred[v]) # e) /\ StartNode(d) # e
  <2> DEFINE B == C \ {e}
  <2>1. \A v \in B : v \in labelled /\ pred[v] # NoArc /\ StartNode(pred[v]) \in B
    BY <1>3, <1>4, <1>6
  <2>2. B # {}
    <3>1. PICK v : v \in C
      BY DEF Turns
    <3>2. v = e => StartNode(d) \in B
      BY <1>1, <1>3, <1>6, <3>1
    <3> QED
      BY <3>1, <3>2
  <2>3. B \in SUBSET labelled /\ Turns(B)
    BY <2>1, <2>2 DEF Turns
  <2>4. PICK v \in B : Offer(pred[v]) < dist[v]
    BY <2>3 DEF Saving
  <2>5. /\ v # e /\ v \in C /\ pred'[v] = pred[v] /\ dist'[v] = dist[v]
        /\ StartNode(pred[v]) # e /\ StartNode(pred[v]) \in Nodes
    BY <1>3, <1>4, <2>1, <2>4
  <2>6. Offer(pred[v])' = Offer(pred[v])
    BY <1>1, <2>5 DEF Offer
  <2> QED
    BY <2>4, <2>5, <2>6
<1>7. CASE StartNode(d) = e /\ e \in C
  <2>1. e \in labelled /\ dist'[e] < dist[e] /\ dist'[e] = dist[e] + len[d]
    BY <1>1, <1>7
  <2>2. Offer(pred[e])' = dist'[e] + len[d]
    BY <1>1, <1>7 DEF Offer
  <2>3. dist'[e] + len[d] < dist'[e]
    BY <1>1, <1>2, <2>1
  <2> QED
    BY <1>7, <2>2, <2>3
<1>8. CASE StartNode(d) = e /\ e \notin C
  <2>1. C \in SUBSET labelled /\ Turns(C)
    <3>1. C # {}
      BY DEF Turns
    <3> QED
      BY <1>3, <1>4, <1>8, <3>1 DEF Turns
  <2>2. PICK v \in C : Offer(pred[v]) < dist[v]
    BY <2>1 DEF Saving
  <2>3. /\ v # e /\ pred'[v] = pred[v] /\ dist'[v] = dist[v]
        /\ StartNode(pred[v]) # e /\ StartNode(pred[v]) \in Nodes
    BY <1>3, <1>4, <1>8, <2>2
  <2>4. Offer(pred[v])' = Offer(pred[v])
    BY <1>1, <2>3 DEF Offer
  <2> QED
    BY <2>2, <2>3, <2>4
<1> QED
  BY <1>5, <1>6, <1>7, <1>8

\* With more arcs, a walk need not be longer.
LEMMA WalksGetShorter ==
  ASSUME call \in Calls, NEW walk, IsWalk(walk), NEW v \in Nodes,
         NEW i \in Nat, NEW x \in walk[i][v]
  PROVE  \A k \in Nat : i <= k => \E y \in walk[k][v] : y \in Int /\ y <= x
<1>1. \A k \in Nat : walk[k] \in Lengths /\ walk[k + 1] = WalkStep(walk[k])
  BY WalkSteps
<1>2. x \in Int
  <2>1. walk[i] \in Lengths
    BY <1>1
  <2> QED
    BY <2>1 DEF Lengths
<1> DEFINE B == {k \in Nat : i <= k => \E y \in walk[k][v] : y \in Int /\ y <= x}
<1>3. 0 \in B
  BY <1>2
<1>4. ASSUME NEW k \in B PROVE k + 1 \in B
  <2> SUFFICES ASSUME i <= k + 1 PROVE \E y \in walk[k + 1][v] : y \in Int /\ y <= x
    OBVIOUS
  <2>1. k \in Nat
    OBVIOUS
  <2>2. CASE i = k + 1
    BY <1>2, <2>2
  <2>3. CASE i # k + 1
    <3>1. i <= k
      BY <2>1, <2>3
    <3>2. PICK y \in walk[k][v] : y \in Int /\ y <= x
      BY <3>1
    <3>3. walk[k] \in Lengths /\ walk[k + 1] = WalkStep(walk[k])
      BY <1>1, <2>1
    <3>4. y \in Prolonged(walk[k], v)
      BY <3>2 DEF Prolonged
    <3>5. PICK z \in walk[k + 1][v] : z <= y
      BY <3>3, <3>4, WalkStepIsLeast
    <3>6. z \in Int
      <4>1. walk[k + 1] \in Lengths
        BY <1>1, <2>1
      <4> QED
        BY <4>1, <3>5 DEF Lengths
    <3> QED
      BY <1>2, <3>2, <3>5, <3>6
  <2> QED
    BY <2>2, <2>3
<1>5. B = Nat
  <2> HIDE DEF B
  <2>1. B \in SUBSET Nat
    BY DEF B
  <2> QED
    BY <1>3, <1>4, <2>1, AllNumbers
<1> QED
  BY <1>5

\* A label that is set after n passes depends on a cycle.
LEMMA LateLabelTurns ==
  ASSUME Labels, Linked, NEW d \in call.eligible, StartNode(d) \in labelled,
         Improves(d), Label(d), call' = call, NEW walk, IsWalk(walk),
         pass \in Nat, 2 * N <= pass, Within(walk[pass - 1])
  PROVE  \E C \in SUBSET labelled : Turns(C)' /\ StartNode(d) \in C
<1> DEFINE u == StartNode(d)
           e == EndNode(d)
<1>1. /\ len' = len /\ u \in Nodes /\ e \in Nodes /\ len[d] \in Int
      /\ pred'[e] = d
      /\ \A v \in Nodes : v # e => pred'[v] = pred[v]
  BY LabelEffect
<1>2. PICK T \in [Nat -> SUBSET labelled] :
        /\ T[0] = {v \in labelled : pred[v] = NoArc}
        /\ \A k \in Nat : T[k + 1] = {v \in labelled : Before(pred, v) \in T[k]}
        /\ \E C \in SUBSET labelled :
             /\ C # {} => Turns(C)
             /\ \A k \in Nat : N - 1 <= k => T[k] = labelled \ C
  BY LevelsExist
<1>3. PICK C \in SUBSET labelled :
        /\ C # {} => Turns(C)
        /\ \A k \in Nat : N - 1 <= k => T[k] = labelled \ C
  BY <1>2
<1>4. u \in C
  <2> SUFFICES ASSUME u \notin C PROVE FALSE
    OBVIOUS
  <2>1. N - 1 \in Nat /\ N \in Nat /\ (N - 1) + 1 = N /\ pass - 1 \in Nat /\ N <= pass - 1
    BY NodesAreFinite, GraphType
  <2>2. PICK x \in walk[N - 1][u] : x <= dist[u]
    BY <1>2, <1>3, <2>1, LevelsAreWalks
  <2>3. walk[N - 1] \in Lengths /\ walk[N] = WalkStep(walk[N - 1])
    BY <2>1, WalkSteps DEF Labels
  <2>4. x \in Int /\ x + len[d] \in Prolonged(walk[N - 1], e)
    BY <1>1, <2>2, <2>3 DEF Lengths, Prolonged
  <2>5. PICK y \in walk[N][e] : y <= x + len[d]
    BY <1>1, <2>3, <2>4, WalkStepIsLeast DEF Labels
  <2>6. PICK z \in walk[pass - 1][e] : z \in Int /\ z <= y
    BY <1>1, <2>1, <2>5, WalksGetShorter DEF Labels
  <2>7. y \in Int
    <3>1. walk[N] \in Lengths
      BY <2>1, WalkSteps DEF Labels
    <3> QED
      BY <1>1, <2>5, <3>1 DEF Lengths
  <2>8. e \in labelled /\ dist[e] <= z
    BY <1>1, <2>6 DEF Within
  <2>9. dist[u] \in Int /\ dist[e] \in Int
    BY <1>1 DEF Labels
  <2>10. ~(dist[u] + len[d] < dist[e])
    BY <1>1, <2>2, <2>4, <2>5, <2>6, <2>7, <2>8, <2>9
  <2> QED
    BY <2>8, <2>10 DEF Improves, Offer
<1>5. Turns(C)'
  <2>1. ASSUME NEW v \in C PROVE pred'[v] # NoArc /\ StartNode(pred'[v]) \in C
    <3>1. CASE v = e
      BY <1>1, <1>4, <3>1, LinkedTypes
    <3>2. CASE v # e
      BY <1>1, <1>3, <3>2 DEF Turns, Labels
    <3> QED
      BY <3>1, <3>2
  <2> QED
    BY <1>4, <2>1 DEF Turns
<1> QED
  BY <1>4, <1>5

\* n arcs back from a node that depends on a cycle there is a node of the cycle.
LEMMA CycleNodeTurns ==
  ASSUME Labels, NEW C \in SUBSET labelled, Turns(C), root \in C
  PROVE  OnCycle(CycleNode)
<1> DEFINE IsTrail(b) == b = [k \in Nat |-> IF k = 0 THEN root ELSE StartNode(pred[b[k - 1]])]
           b == CHOOSE b : IsTrail(b)
<1>1. IsTrail(b)
  <2> DEFINE D == C
             F == [v \in D |-> StartNode(pred[v])]
             a == root
  <2>1. \A v \in D : F[v] = StartNode(pred[v])
    OBVIOUS
  <2>2. PICK g : g = [k \in Nat |-> IF k = 0 THEN a ELSE F[g[k - 1]]] /\ g \in [Nat -> D]
    <3>1. F \in [D -> D] /\ a \in D
      BY DEF Turns
    <3> HIDE DEF D, F, a
    <3> QED
      BY <3>1, IterationExists
  <2> HIDE DEF D, F, a
  <2>3. ASSUME NEW k \in Nat
        PROVE  (IF k = 0 THEN a ELSE F[g[k - 1]])
                 = IF k = 0 THEN a ELSE StartNode(pred[g[k - 1]])
    <3>1. CASE k = 0
      BY <3>1
    <3>2. CASE k # 0
      <4>1. k - 1 \in Nat
        BY <3>2
      <4> QED
        BY <2>1, <2>2, <3>2, <4>1
    <3> QED
      BY <3>1, <3>2
  <2>4. g = [k \in Nat |-> IF k = 0 THEN a ELSE StartNode(pred[g[k - 1]])]
    BY <2>2, <2>3
  <2>5. IsTrail(g)
    BY <2>4, Zenon DEF a
  <2> HIDE DEF IsTrail
  <2> QED
    BY <2>5
<1>2. CycleNode = b[N]
  BY Zenon DEF CycleNode
<1> HIDE DEF b
<1>3. b[0] = root /\ \A k \in Nat : b[k + 1] = StartNode(pred[b[k]])
  <2>1. b[0] = root
    BY <1>1
  <2>2. ASSUME NEW k \in Nat PROVE b[k + 1] = StartNode(pred[b[k]])
    <3>1. k + 1 \in Nat /\ k + 1 # 0 /\ (k + 1) - 1 = k
      OBVIOUS
    <3> QED
      BY <1>1, <3>1
  <2> QED
    BY <2>1, <2>2
<1> HIDE DEF IsTrail
<1>4. \A k \in Nat : b[k] \in C
  <2> DEFINE B == {k \in Nat : b[k] \in C}
  <2>1. 0 \in B
    BY <1>3
  <2>2. \A k \in B : k + 1 \in B
    BY <1>3 DEF Turns
  <2>3. B \in SUBSET Nat
    OBVIOUS
  <2> HIDE DEF B
  <2>4. B = Nat
    BY <2>1, <2>2, <2>3, AllNumbers
  <2> QED
    BY <2>4 DEF B
<1>5. N \in Nat /\ C \subseteq Nodes /\ IsFiniteSet(Nodes) /\ Cardinality(Nodes) = N
  BY NodesAreFinite DEF Labels
<1>6. \E j \in 0 .. N : \E i \in Nat : i < j /\ b[i] = b[j]
  <2> SUFFICES ASSUME \A j \in 0 .. N : \A i \in Nat : i < j => b[i] # b[j] PROVE FALSE
    OBVIOUS
  <2> DEFINE P(n) == {b[i] : i \in 0 .. n}
             E == {n \in Nat : n <= N => Cardinality(P(n)) = n + 1}
  <2>1. \A n \in Nat : P(n) \subseteq Nodes /\ IsFiniteSet(P(n)) /\ Cardinality(P(n)) <= N
    <3>1. \A n \in Nat : P(n) \in SUBSET Nodes
      BY <1>4, <1>5
    <3> HIDE DEF P
    <3> QED
      BY <1>5, <3>1, FS_Subset
  <2>2. 0 \in E
    <3>1. P(0) = {b[0]}
      OBVIOUS
    <3> HIDE DEF P
    <3>2. Cardinality(P(0)) = 1
      BY <3>1, FS_Singleton
    <3>3. 1 = 0 + 1
      OBVIOUS
    <3> QED
      BY <3>2, <3>3
  <2>3. ASSUME NEW n \in E PROVE n + 1 \in E
    <3> SUFFICES ASSUME n + 1 <= N PROVE Cardinality(P(n + 1)) = (n + 1) + 1
      OBVIOUS
    <3>1. n \in Nat /\ n <= N /\ n + 1 \in 0 .. N /\ Cardinality(P(n)) = n + 1
      BY <1>5
    <3>2. P(n + 1) = P(n) \cup {b[n + 1]}
      <4>1. 0 .. n + 1 = (0 .. n) \cup {n + 1}
        BY <3>1
      <4> QED
        BY <4>1
    <3>3. b[n + 1] \notin P(n)
      BY <3>1
    <3>4. IsFiniteSet(P(n))
      BY <2>1, <3>1
    <3> HIDE DEF P
    <3> QED
      BY <3>1, <3>2, <3>3, <3>4, FS_AddElement
  <2>4. E = Nat
    <3>1. E \in SUBSET Nat
      OBVIOUS
    <3> HIDE DEF E
    <3> QED
      BY <2>2, <2>3, <3>1, AllNumbers
  <2>5. Cardinality(P(N)) = N + 1 /\ Cardinality(P(N)) <= N
    <3> HIDE DEF P, E
    <3>1. N \in E
      BY <1>5, <2>4
    <3>2. N <= N => Cardinality(P(N)) = N + 1
      BY <3>1 DEF E
    <3>3. N <= N
      BY <1>5
    <3> QED
      BY <1>5, <2>1, <3>2, <3>3
  <2> HIDE DEF P
  <2> QED
    BY <1>5, <2>5
<1>7. PICK j \in 0 .. N, i \in Nat : i < j /\ b[i] = b[j]
  BY <1>6
<1> DEFINE p == j - i
<1>8. p \in 1 .. N /\ i <= N /\ i + p = j
  BY <1>5, <1>7
<1> HIDE DEF p
<1>9. \A k \in Nat : i <= k => b[k + p] = b[k]
  <2> DEFINE B == {k \in Nat : i <= k => b[k + p] = b[k]}
  <2>1. 0 \in B
    BY <1>7, <1>8
  <2>2. ASSUME NEW k \in B PROVE k + 1 \in B
    <3> SUFFICES ASSUME i <= k + 1 PROVE b[(k + 1) + p] = b[k + 1]
      OBVIOUS
    <3>1. CASE i = k + 1
      BY <1>7, <1>8, <3>1
    <3>2. CASE i # k + 1
      <4>1. k \in Nat /\ i <= k /\ k + p \in Nat /\ (k + 1) + p = (k + p) + 1
        BY <1>8, <3>2
      <4>2. b[k + p] = b[k]
        BY <4>1
      <4> QED
        BY <1>3, <4>1, <4>2
    <3> QED
      BY <3>1, <3>2
  <2>3. B \in SUBSET Nat
    OBVIOUS
  <2> HIDE DEF B
  <2>4. B = Nat
    BY <2>1, <2>2, <2>3, AllNumbers
  <2> QED
    BY <2>4 DEF B
<1> DEFINE h == [k \in Nat |-> b[N + k]]
<1>10. h \in [Nat -> labelled] /\ h[0] = CycleNode /\ h[p] = CycleNode
  <2>1. N + 0 = N /\ p \in Nat /\ b[N + p] = b[N]
    BY <1>5, <1>8, <1>9
  <2>2. \A k \in Nat : N + k \in Nat
    BY <1>5
  <2> QED
    BY <1>2, <1>4, <2>1, <2>2
<1>11. ASSUME NEW k \in Nat PROVE pred[h[k]] # NoArc /\ h[k + 1] = StartNode(pred[h[k]])
  <2>1. N + k \in Nat /\ N + (k + 1) = (N + k) + 1 /\ k + 1 \in Nat
    BY <1>5
  <2>2. b[N + k] \in C /\ b[(N + k) + 1] = StartNode(pred[b[N + k]])
    BY <1>3, <1>4, <2>1
  <2> QED
    BY <2>1, <2>2 DEF Turns
<1> HIDE DEF h
<1> QED
  BY <1>8, <1>10, <1>11 DEF OnCycle

\* g is the sequence that F makes from a.
Iterates(g, D, F, a) ==
  g = [k \in Nat |-> IF k = 0 THEN a ELSE F[g[k - 1]]] /\ g \in [Nat -> D]

LEMMA Iterations == \A D : \A F \in [D -> D] : \A a \in D : \E g : Iterates(g, D, F, a)
BY IterationExists DEF Iterates

\* Partial sums.
LEMMA SumsExist ==
  ASSUME NEW l \in [Nat -> Int]
  PROVE  \E s \in [Nat -> Int] : s[0] = 0 /\ \A k \in Nat : s[k + 1] = s[k] + l[k]
<1> DEFINE D == Nat \X Int
           next == [x \in D |-> <<x[1] + 1, x[2] + l[x[1]]>>]
<1>1. next \in [D -> D] /\ \A k \in Nat : \A y \in Int : next[<<k, y>>] = <<k + 1, y + l[k]>>
  OBVIOUS
<1>2. PICK F \in [D -> D] : \A k \in Nat : \A y \in Int : F[<<k, y>>] = <<k + 1, y + l[k]>>
  <2> HIDE DEF D, next
  <2> QED
    BY <1>1
<1>3. PICK a \in D : a = <<0, 0>>
  <2>1. <<0, 0>> \in D
    OBVIOUS
  <2> HIDE DEF D
  <2> QED
    BY <2>1
<1>4. PICK g : g = [k \in Nat |-> IF k = 0 THEN a ELSE F[g[k - 1]]] /\ g \in [Nat -> D]
  <2> HIDE DEF D
  <2>1. PICK g : Iterates(g, D, F, a)
    BY Iterations
  <2> QED
    BY <2>1, Zenon DEF Iterates
<1>5. g[0] = <<0, 0>>
  BY <1>3, <1>4
<1>6. ASSUME NEW k \in Nat PROVE g[k + 1] = F[g[k]] /\ \E i \in Nat : \E y \in Int : g[k] = <<i, y>>
  <2>1. k + 1 \in Nat /\ k + 1 # 0 /\ (k + 1) - 1 = k
    OBVIOUS
  <2> QED
    BY <1>4, <2>1
<1> HIDE DEF D
<1> DEFINE E == {k \in Nat : \E y \in Int : g[k] = <<k, y>>}
<1>7. E = Nat
  <2>1. 0 \in E
    BY <1>5
  <2>2. ASSUME NEW k \in E PROVE k + 1 \in E
    <3>1. PICK y \in Int : g[k] = <<k, y>>
      OBVIOUS
    <3>2. g[k + 1] = <<k + 1, y + l[k]>>
      BY <1>2, <1>6, <3>1
    <3>3. y + l[k] \in Int /\ k + 1 \in Nat
      OBVIOUS
    <3> QED
      BY <3>2, <3>3
  <2>3. E \in SUBSET Nat
    OBVIOUS
  <2> HIDE DEF E
  <2> QED
    BY <2>1, <2>2, <2>3, AllNumbers
<1> DEFINE s == [k \in Nat |-> g[k][2]]
<1>8. ASSUME NEW k \in Nat PROVE s[k] \in Int /\ s[k + 1] = s[k] + l[k]
  <2>1. PICK y \in Int : g[k] = <<k, y>>
    BY <1>7
  <2>2. g[k + 1] = <<k + 1, y + l[k]>>
    BY <1>2, <1>6, <2>1
  <2>3. s[k] = y
    BY <2>1
  <2>4. s[k + 1] = y + l[k]
    BY <2>2
  <2> QED
    BY <2>3, <2>4
<1>9. s[0] = 0
  BY <1>5
<1>10. s \in [Nat -> Int]
  BY <1>8
<1> HIDE DEF s
<1> QED
  BY <1>8, <1>9, <1>10

\* The search goes round the cycle once, and finds its length below zero.
LEMMA CyclesAreNegative ==
  ASSUME Labels, Linked, Saving, OnCycle(root)
  PROVE  Closes(CHOOSE b : Turn(root, b), root)
<1>1. PICK n \in 1 .. N, h \in [Nat -> labelled] :
        /\ h[0] = root /\ h[n] = root
        /\ \A k \in Nat : pred[h[k]] # NoArc /\ h[k + 1] = StartNode(pred[h[k]])
  BY DEF OnCycle
<1>2. /\ \A k \in Nat : h[k] \in labelled /\ h[k] \in Nodes /\ dist[h[k]] \in Int
      /\ root \in labelled /\ dist[root] \in Int /\ N \in Nat
  BY <1>1, NodesAreFinite DEF Labels
<1>3. ASSUME NEW k \in Nat
      PROVE  /\ len[pred[h[k]]] \in Int
             /\ len[pred[h[k]]] <= dist[h[k]] - dist[h[k + 1]]
             /\ Offer(pred[h[k]]) < dist[h[k]] => len[pred[h[k]]] < dist[h[k]] - dist[h[k + 1]]
  <2> DEFINE l == len[pred[h[k]]]
  <2>1. k + 1 \in Nat /\ h[k] \in labelled /\ pred[h[k]] # NoArc
        /\ h[k + 1] = StartNode(pred[h[k]])
    BY <1>1, <1>2
  <2>2. /\ l \in Int /\ Offer(pred[h[k]]) = dist[h[k + 1]] + l
        /\ Offer(pred[h[k]]) <= dist[h[k]]
    BY <2>1, LinkedTypes DEF Linked
  <2> HIDE DEF l
  <2>3. dist[h[k]] \in Int /\ dist[h[k + 1]] \in Int
    BY <1>2, <2>1
  <2>4. l <= dist[h[k]] - dist[h[k + 1]]
    BY <2>2, <2>3
  <2>5. Offer(pred[h[k]]) < dist[h[k]] => l < dist[h[k]] - dist[h[k + 1]]
    BY <2>2, <2>3
  <2> QED
    BY <2>2, <2>4, <2>5 DEF l
\* m: the first return
<1> DEFINE S == {k \in Nat : k # 0 /\ h[k] = root}
<1>4. PICK m \in S : \A k \in S : m <= k
  <2>1. S \in SUBSET Nat /\ S # {}
    BY <1>1
  <2> HIDE DEF S
  <2> QED
    BY <2>1, LeastNumber
<1>5. /\ m \in Nat /\ m # 0 /\ 1 <= m /\ m <= N /\ h[m] = root
      /\ \A k \in Nat : k # 0 /\ k < m => h[k] # root
  <2>1. m \in Nat /\ m # 0 /\ h[m] = root
    OBVIOUS
  <2>2. n \in S /\ n \in Nat /\ n <= N
    BY <1>1, <1>2
  <2>3. m <= n
    BY <1>4, <2>2
  <2>4. ASSUME NEW k \in Nat, k # 0, k < m PROVE h[k] # root
    <3>1. ~(m <= k)
      BY <2>1, <2>4
    <3> QED
      BY <1>4, <2>4, <3>1
  <2> HIDE DEF S
  <2> QED
    BY <1>2, <2>1, <2>2, <2>3, <2>4
<1> HIDE DEF S
<1>6. PICK j \in 0 .. m - 1 : Offer(pred[h[j]]) < dist[h[j]]
  <2> DEFINE O == {h[k] : k \in 0 .. m - 1}
  <2>1. O \in SUBSET labelled /\ O # {}
    <3>1. 0 \in 0 .. m - 1 /\ \A k \in 0 .. m - 1 : k \in Nat
      BY <1>5
    <3> QED
      BY <1>2, <3>1
  <2>2. ASSUME NEW k \in 0 .. m - 1 PROVE pred[h[k]] # NoArc /\ StartNode(pred[h[k]]) \in O
    <3>1. k \in Nat /\ pred[h[k]] # NoArc /\ h[k + 1] = StartNode(pred[h[k]])
      BY <1>1, <1>5
    <3>2. CASE k = m - 1
      <4>1. k + 1 = m /\ 0 \in 0 .. m - 1
        BY <1>5, <3>2
      <4>2. h[k + 1] = h[0]
        BY <1>1, <1>5, <4>1
      <4> QED
        BY <3>1, <4>1, <4>2
    <3>3. CASE k # m - 1
      <4>1. k + 1 \in 0 .. m - 1
        BY <1>5, <3>3
      <4> QED
        BY <3>1, <4>1
    <3> QED
      BY <3>2, <3>3
  <2>3. Turns(O)
    <3>1. \A v \in O : pred[v] # NoArc /\ StartNode(pred[v]) \in O
      BY <2>2
    <3> HIDE DEF O
    <3> QED
      BY <2>1, <3>1 DEF Turns
  <2>4. PICK v \in O : Offer(pred[v]) < dist[v]
    <3> HIDE DEF O
    <3> QED
      BY <2>1, <2>3 DEF Saving
  <2> QED
    BY <2>4
<1>7. \E b : Turn(root, b)
  <2>1. [k \in Nat |-> len[pred[h[k]]]] \in [Nat -> Int]
    BY <1>3
  <2>2. PICK g \in [Nat -> Int] : /\ g[0] = 0
                                 /\ \A k \in Nat : g[k + 1] = g[k] + len[pred[h[k]]]
    BY <2>1, SumsExist
  <2> DEFINE b == [k \in Nat |-> IF k <= m THEN <<h[k], g[k]>> ELSE <<h[m], g[m]>>]
  <2>3. ASSUME NEW k \in Nat
        PROVE  b[k] = IF k = 0 THEN <<root, 0>>
                      ELSE IF k > 1 /\ b[k - 1][1] = root THEN b[k - 1]
                           ELSE <<StartNode(pred[b[k - 1][1]]),
                                  b[k - 1][2] + len[pred[b[k - 1][1]]]>>
    <3>1. CASE k = 0
      BY <1>1, <1>5, <2>2, <3>1
    <3>2. CASE k # 0 /\ k <= m
      <4>1. /\ k - 1 \in Nat /\ k - 1 <= m /\ (k - 1) + 1 = k /\ k - 1 < m
            /\ (k > 1 => k - 1 # 0)
        BY <1>5, <3>2
      <4>2. b[k - 1] = <<h[k - 1], g[k - 1]>> /\ b[k] = <<h[k], g[k]>>
        BY <3>2, <4>1
      <4>3. ~(k > 1 /\ b[k - 1][1] = root)
        BY <1>5, <4>1, <4>2
      <4>4. h[k] = StartNode(pred[h[k - 1]]) /\ g[k] = g[k - 1] + len[pred[h[k - 1]]]
        BY <1>1, <2>2, <4>1
      <4> HIDE DEF b
      <4> QED
        BY <3>2, <4>2, <4>3, <4>4
    <3>3. CASE k # 0 /\ ~(k <= m)
      <4>1. k - 1 \in Nat /\ k > 1 /\ m <= k - 1
        BY <1>5, <3>3
      <4>2. b[k] = <<h[m], g[m]>> /\ b[k - 1] = <<h[m], g[m]>>
        <5>1. CASE k - 1 = m
          BY <3>3, <4>1, <5>1
        <5>2. CASE k - 1 # m
          BY <1>5, <3>3, <4>1, <5>2
        <5> QED
          BY <5>1, <5>2
      <4> HIDE DEF b
      <4> QED
        BY <1>5, <3>3, <4>1, <4>2
    <3> QED
      BY <3>1, <3>2, <3>3
  <2>4. b = [k \in Nat |-> b[k]]
    OBVIOUS
  <2> HIDE DEF b
  <2>5. Turn(root, b)
    BY <2>3, <2>4 DEF Turn
  <2> QED
    BY <2>5
<1> DEFINE c == CHOOSE b : Turn(root, b)
<1>8. Turn(root, c)
  BY <1>7
<1> HIDE DEF c
<1>9. c[0] = <<root, 0>>
  BY <1>8 DEF Turn
<1>10. ASSUME NEW k \in Nat
       PROVE  /\ k # 0 /\ c[k][1] = root => c[k + 1] = c[k]
              /\ k = 0 \/ c[k][1] # root =>
                   c[k + 1] = <<StartNode(pred[c[k][1]]), c[k][2] + len[pred[c[k][1]]]>>
  <2>1. k + 1 \in Nat /\ k + 1 # 0 /\ (k + 1) - 1 = k /\ (k + 1 > 1 <=> k # 0)
    OBVIOUS
  <2> QED
    BY <1>8, <2>1 DEF Turn
<1> DEFINE Short(k, y) == /\ y \in Int /\ y <= dist[root] - dist[h[k]]
                          /\ j < k => y < dist[root] - dist[h[k]]
           B == {k \in Nat : k <= m => \E y : c[k] = <<h[k], y>> /\ Short(k, y)}
<1>11. B = Nat
  <2>1. 0 \in B
    BY <1>1, <1>2, <1>6, <1>9
  <2>2. ASSUME NEW k \in B PROVE k + 1 \in B
    <3> SUFFICES ASSUME k + 1 <= m
                 PROVE  \E y : c[k + 1] = <<h[k + 1], y>> /\ Short(k + 1, y)
      OBVIOUS
    <3>1. k \in Nat /\ k < m /\ k <= m /\ k + 1 \in Nat
      BY <1>5
    <3>2. PICK y : c[k] = <<h[k], y>> /\ Short(k, y)
      BY <3>1
    <3> DEFINE l == len[pred[h[k]]]
    <3>3. c[k + 1] = <<h[k + 1], y + l>>
      <4>1. ~(k # 0 /\ c[k][1] = root)
        BY <1>5, <3>1, <3>2
      <4>2. h[k + 1] = StartNode(pred[h[k]])
        BY <1>1, <3>1
      <4>3. /\ c[k + 1] = <<StartNode(pred[c[k][1]]), c[k][2] + len[pred[c[k][1]]]>>
            /\ c[k][1] = h[k] /\ c[k][2] = y
        BY <1>10, <3>1, <3>2, <4>1
      <4> QED
        BY <4>2, <4>3
    <3>4. /\ l \in Int /\ l <= dist[h[k]] - dist[h[k + 1]]
          /\ j = k => l < dist[h[k]] - dist[h[k + 1]]
      BY <1>3, <1>6, <3>1
    <3> HIDE DEF l
    <3>5. Short(k + 1, y + l)
      <4>1. dist[h[k]] \in Int /\ dist[h[k + 1]] \in Int /\ dist[root] \in Int /\ j \in Int
        BY <1>2, <3>1
      <4>2. j < k + 1 => j < k \/ j = k
        BY <3>1, <4>1
      <4> QED
        BY <3>2, <3>4, <4>1, <4>2
    <3> QED
      BY <3>3, <3>5
  <2>3. B \in SUBSET Nat
    OBVIOUS
  <2> HIDE DEF B
  <2> QED
    BY <2>1, <2>2, <2>3, AllNumbers
<1>12. PICK y \in Int : c[m] = <<root, y>> /\ y < 0
  <2>1. PICK y : c[m] = <<h[m], y>> /\ Short(m, y)
    BY <1>5, <1>11
  <2>2. j < m
    BY <1>5, <1>6
  <2>3. y \in Int /\ y < dist[root] - dist[root]
    BY <1>5, <2>1, <2>2
  <2> QED
    BY <1>2, <1>5, <2>1, <2>3
<1> DEFINE G == {k \in Nat : m <= k => c[k] = c[m]}
<1>13. G = Nat
  <2>1. 0 \in G
    BY <1>5
  <2>2. ASSUME NEW k \in G PROVE k + 1 \in G
    <3> SUFFICES ASSUME m <= k + 1 PROVE c[k + 1] = c[m]
      OBVIOUS
    <3>1. k \in Nat /\ (m = k + 1 \/ (m <= k /\ k # 0))
      BY <1>5
    <3>2. CASE m <= k /\ k # 0
      <4>1. c[k] = c[m]
        BY <3>2
      <4>2. c[k][1] = root
        BY <1>12, <4>1
      <4> QED
        BY <1>10, <3>1, <3>2, <4>1, <4>2
    <3> QED
      BY <3>1, <3>2
  <2>3. G \in SUBSET Nat
    OBVIOUS
  <2> HIDE DEF G
  <2> QED
    BY <2>1, <2>2, <2>3, AllNumbers
<1>14. c[N] = <<root, y>>
  BY <1>2, <1>5, <1>12, <1>13
<1>15. Closes(c, root)
  BY <1>12, <1>14 DEF Closes
<1> QED
  BY <1>15 DEF c

\* A step that sets no label.
LEMMA LoopsStay ==
  ASSUME Looped, UNCHANGED <<call, pc, dist, labelled, pred, root>>,
         root # NoNode => pass' \in Nat /\ pass \in Nat /\ pass <= pass', N \in Nat
  PROVE  Looped'
<1>1. /\ \A C : Turns(C)' <=> Turns(C)
      /\ \A d : Offer(d)' = Offer(d)
  BY DEF Turns, Offer, len
<1>2. Saving'
  BY <1>1 DEF Looped, Saving
<1>3. OnCycle(root) => OnCycle(root)'
  BY DEF OnCycle
<1>4. pc' = "done" /\ root' # NoNode => OnCycle(root)'
  BY <1>3 DEF Looped, NoNode
<1>5. pc' = "search" /\ root' # NoNode =>
        2 * N <= pass' /\ \E C \in SUBSET labelled' : Turns(C)' /\ root' \in C
  <2> SUFFICES ASSUME pc' = "search", root' # NoNode
               PROVE  2 * N <= pass' /\ \E C \in SUBSET labelled' : Turns(C)' /\ root' \in C
    OBVIOUS
  <2>1. 2 * N <= pass /\ \E C \in SUBSET labelled : Turns(C) /\ root \in C
    BY DEF Looped, NoNode
  <2>2. 2 * N <= pass'
    BY <2>1 DEF NoNode
  <2> QED
    BY <1>1, <2>1, <2>2
<1> QED
  BY <1>2, <1>4, <1>5 DEF Looped, NoNode

\* NegativeCycle(): the cycle that is reported, step by step.
LEMMA FIFOKeepsLoops ==
  ASSUME LoopInv, method = "FIFO", NoShortTurn,
         \/ FIFOStart \/ FIFOTake \/ FIFOSkip \/ FIFOLabel \/ FIFOPass \/ FIFOEnd \/ FIFOFails
  PROVE  Looped'
<1>1. LabelInv /\ Labels /\ N \in Nat /\ todo \subseteq call.eligible
  BY CorrectTypes, GraphType DEF LoopInv, CorrectInv
<1>2. pc # "start" => Corrected /\ Looped
  BY DEF LoopInv, CorrectInv, Correcting
<1>3. CASE FIFOStart
  <2>1. /\ pred' = [v \in Nodes |-> NoArc] /\ root' = NoNode /\ pc' = "search"
        /\ labelled' \subseteq Nodes
    BY <1>1, <1>3, SourcesAreNodes DEF FIFOStart, LoopInv, CorrectInv, Fresh, Labels
  <2>2. Saving'
    <3>1. \A C \in SUBSET labelled' : ~Turns(C)'
      BY <2>1 DEF Turns
    <3> QED
      BY <3>1 DEF Saving
  <2> QED
    BY <2>1, <2>2 DEF Looped, NoNode
<1>4. CASE FIFOTake \/ FIFOSkip \/ FIFOPass
  <2>1. pc # "start" /\ UNCHANGED <<call, pc, dist, labelled, pred, root>>
    BY <1>4 DEF FIFOTake, FIFOSkip, FIFOPass
  <2>2. pass' = pass \/ pass' = pass + 1
    BY <1>4 DEF FIFOTake, FIFOSkip, FIFOPass
  <2>3. pass' \in Nat /\ pass \in Nat /\ pass <= pass'
    BY <1>2, <2>1, <2>2 DEF Corrected
  <2> QED
    BY <1>1, <1>2, <2>1, <2>3, LoopsStay
<1>5. CASE FIFOLabel
  <2>1. PICK d \in todo : Improves(d) /\ Label(d)
    BY <1>5 DEF FIFOLabel
  <2>2. /\ UNCHANGED <<call, pc, here, pass>> /\ pc = "search"
        /\ pass < 2 * N => root' = root
        /\ ~(pass < 2 * N) => root' = here
    BY <1>5 DEF FIFOLabel
  <2>3. StartNode(d) \in labelled /\ StartNode(d) = here /\ d \in call.eligible
    BY <1>1, <2>1 DEF LabelInv, ScansLabelled
  <2>4. Corrected /\ Looped /\ Linked /\ pass \in Nat
    BY <1>2, <2>2 DEF Corrected
  <2>5. Saving'
    BY <1>1, <2>1, <2>2, <2>3, <2>4, LabelSaves DEF Looped
  <2>6. labelled' = labelled \cup {EndNode(d)}
    BY <2>1 DEF Label
  <2>7. ASSUME root' # NoNode
        PROVE  2 * N <= pass' /\ \E C \in SUBSET labelled' : Turns(C)' /\ root' \in C
    <3>1. ~(pass < 2 * N) /\ 2 * N <= pass
      <4>1. pass < 2 * N => 2 * N <= pass
        BY <2>2, <2>4, <2>7 DEF Looped, NoNode
      <4> QED
        BY <1>1, <2>4, <4>1
    <3>2. PICK walk : IsWalk(walk)
      BY <1>1, WalksExist DEF Labels
    <3>3. Within(walk[pass - 1])
      BY <2>4, <3>2 DEF Corrected, Passes
    <3>4. PICK C \in SUBSET labelled : Turns(C)' /\ StartNode(d) \in C
      BY <1>1, <2>1, <2>2, <2>3, <2>4, <3>1, <3>2, <3>3, LateLabelTurns
    <3>5. root' = StartNode(d) /\ pass' = pass /\ C \in SUBSET labelled'
      BY <2>2, <2>3, <2>6, <3>1
    <3> QED
      BY <3>1, <3>4, <3>5
  <2>8. pc' # "done"
    BY <2>2
  <2> QED
    BY <2>5, <2>7, <2>8 DEF Looped, NoNode
<1>6. CASE FIFOEnd
  <2>1. pc # "start" /\ root = NoNode /\ pc' = "done" /\ UNCHANGED <<call, dist, labelled, pred, root>>
    BY <1>6 DEF FIFOEnd, Finish
  <2>2. /\ \A C : Turns(C)' <=> Turns(C)
        /\ \A d : Offer(d)' = Offer(d)
    BY <2>1 DEF Turns, Offer, len
  <2>3. Saving'
    BY <1>2, <2>1, <2>2 DEF Looped, Saving
  <2> QED
    BY <2>1, <2>3 DEF Looped, NoNode
<1>7. CASE FIFOFails
  <2>1. /\ pc = "search" /\ root # NoNode /\ pc' = "done" /\ root' = CycleNode
        /\ UNCHANGED <<call, dist, labelled, pred>>
    BY <1>7, Zenon DEF FIFOFails
  <2>2. /\ \A C : Turns(C)' <=> Turns(C)
        /\ \A d : Offer(d)' = Offer(d)
    BY <2>1 DEF Turns, Offer, len
  <2>3. Saving'
    BY <1>2, <2>1, <2>2 DEF Looped, Saving
  <2>4. PICK C \in SUBSET labelled : Turns(C) /\ root \in C
    BY <1>2, <2>1 DEF Looped
  <2>5. OnCycle(CycleNode)
    BY <1>1, <2>4, CycleNodeTurns
  <2>6. OnCycle(root)'
    BY <2>1, <2>5 DEF OnCycle
  <2> QED
    BY <2>1, <2>3, <2>6 DEF Looped
<1> QED
  BY <1>3, <1>4, <1>5, <1>6, <1>7

LEMMA StepKeepsLoops == LoopInv /\ [Next]_vars => LoopInv'
<1> SUFFICES ASSUME LoopInv, [Next]_vars PROVE LoopInv'
  OBVIOUS
<1>1. CorrectInv'
  BY StepCorrects DEF LoopInv
<1>2. CASE UNCHANGED vars
  <2> SUFFICES ASSUME Correcting', method' = "FIFO" PROVE Looped'
    BY <1>1 DEF LoopInv
  <2>1. UNCHANGED <<call, pc, dist, labelled, pred, pass, root>>
    BY <1>2 DEF vars
  <2>2. Correcting /\ method = "FIFO"
    BY <2>1, WalksUnchanged DEF Correcting, method
  <2>3. Looped /\ pass \in Nat /\ N \in Nat
    BY <2>2, GraphType DEF LoopInv, CorrectInv, Corrected
  <2> QED
    BY <2>1, <2>3, LoopsStay
<1>3. CASE \/ FIFOStart \/ FIFOTake \/ FIFOSkip \/ FIFOLabel \/ FIFOPass \/ FIFOEnd \/ FIFOFails
  <2> SUFFICES ASSUME Correcting' PROVE Looped'
    BY <1>1 DEF LoopInv
  <2>1. call' = call
    BY <1>3, Zenon DEF FIFOStart, FIFOTake, FIFOSkip, FIFOLabel, FIFOPass, FIFOEnd, FIFOFails, Finish
  <2>2. method = "FIFO" /\ NoShortTurn
    BY <1>3, <2>1, WalksUnchanged DEF Correcting, FIFOStart, FIFOTake, FIFOSkip, FIFOLabel, FIFOPass,
       FIFOEnd, FIFOFails
  <2> QED
    BY <1>3, <2>2, FIFOKeepsLoops
<1>4. CASE \/ DijkstraStart \/ DijkstraTake \/ DijkstraSkip \/ NegativeLength \/ NoSuchItem
           \/ DijkstraLabel \/ DijkstraEnd
  <2>1. method' # "FIFO"
    BY <1>4 DEF DijkstraStart, DijkstraTake, DijkstraSkip, NegativeLength, NoSuchItem,
                DijkstraLabel, DijkstraEnd, Throw, Finish, method
  <2> QED
    BY <1>1, <2>1 DEF LoopInv
<1>5. CASE \/ BellmanStart \/ BellmanSkip \/ BellmanLabel \/ BellmanPass \/ BellmanFails
           \/ BellmanEnd
  <2>1. method' # "FIFO"
    BY <1>5 DEF BellmanStart, BellmanSkip, BellmanLabel, BellmanPass, BellmanFails, BellmanEnd,
                Throw, Finish, method
  <2> QED
    BY <1>1, <2>1 DEF LoopInv
<1>6. CASE DAGStart \/ DAGTake \/ DAGRead \/ DAGFails \/ DAGEnd
  <2>1. method' # "FIFO"
    BY <1>6 DEF DAGStart, DAGTake, DAGRead, DAGFails, DAGEnd, Throw, Finish, method
  <2> QED
    BY <1>1, <2>1 DEF LoopInv
<1> QED
  BY <1>2, <1>3, <1>4, <1>5, <1>6 DEF Next

LEMMA LoopsStayInv == Spec => []LoopInv
<1>1. Init => CorrectInv
  BY InitLabels DEF Init, CorrectInv, Fresh, Correcting
<1>2. Init => LoopInv
  BY <1>1 DEF Init, LoopInv, Correcting
<1> QED
  BY <1>2, StepKeepsLoops, PTL DEF Spec

\* At the end of a label correcting method.
LEMMA CorrectedResult ==
  ASSUME LoopInv, method \in {"BELLMAN", "FIFO"}, NoShortTurn, method = "FIFO" \/ N > 1
  PROVE  ResultIsExact
<1>1. LabelsAreDistances
  BY CorrectedIsExact DEF LoopInv
<1> SUFFICES ASSUME pc = "done" PROVE CyclesAreFound
  BY <1>1, Zenon DEF ResultIsExact, CyclesAreFound
<1>2. Corrected /\ Labels /\ (method = "FIFO" => Looped)
  BY CorrectTypes DEF LoopInv, CorrectInv, Correcting
<1>3. Failed <=> HasNegativeCycle
  <2>1. ~(method = "BELLMAN" /\ N = 1)
    BY GraphType
  <2> QED
    BY <2>1, CorrectedIsExact DEF LoopInv
<1>4. method \in {"BELLMAN", "FIFO"} => (error = "negative cycle") = HasNegativeCycle
  BY <1>3, Zenon DEF Failed
<1>5. method # "DAG"
  OBVIOUS
<1>6. root # NoNode => Closes(CHOOSE b : Turn(root, b), root)
  <2> SUFFICES ASSUME root # NoNode PROVE Closes(CHOOSE b : Turn(root, b), root)
    OBVIOUS
  <2>1. method = "FIFO"
    BY <1>2 DEF Corrected
  <2> QED
    BY <1>2, <2>1, CyclesAreNegative DEF Looped, Corrected
<1> QED
  BY <1>4, <1>5, <1>6, Zenon DEF CyclesAreFound, Closes, Turn

\* SPX_BellmanFord(): in every graph with more than one node, and in whatever order the arcs
\* are read in every pass, the search ends with the distances of all the nodes and with
\* shortest paths, or else there is a cycle of negative length, and it fails if and only if
\* there is one; unless an arc can be used in both directions, and is shorter than zero there
\* and back, which is such a cycle, but one that the code does not see.
THEOREM BellmanFordIsExact ==
  Spec => [](method = "BELLMAN" /\ NoShortTurn /\ N > 1 => ResultIsExact)
<1>1. LoopInv => (method = "BELLMAN" /\ NoShortTurn /\ N > 1 => ResultIsExact)
  BY CorrectedResult
<1> QED
  BY <1>1, LoopsStayInv, PTL

\* SPX_FIFOLabelCorrecting(), NegativeCycle(): the same, and the node which is reported is on a
\* cycle of negative length that the predecessor arcs lead round.
THEOREM LabelCorrectingIsExact ==
  Spec => [](method = "FIFO" /\ NoShortTurn => ResultIsExact)
<1>1. LoopInv => (method = "FIFO" /\ NoShortTurn => ResultIsExact)
  BY CorrectedResult
<1> QED
  BY <1>1, LoopsStayInv, PTL
-----------------------------------------------------------------------------
(* The search in topological order. *)

\* The nodes that have been taken from the queue: all arcs into them had been read.
Taken == {v \in Nodes : degree[v] = 0} \ queue

\* The darts that have not been read.
Unread == {d \in call.eligible : StartNode(d) \notin Taken} \cup todo

\* A dart leads from C to v.
Enters(C, v) == \E d \in call.eligible : StartNode(d) \in C /\ EndNode(d) = v

\* No set of nodes contains a cycle: it has a node which no dart enters from it.
Acyclic(S) == \A C \in SUBSET S : C # {} => \E v \in C : ~Enters(C, v)

\* The search in topological order is running, or has ended.
Reading == method = "DAG" /\ pc # "start"

\* The degrees count what is left to be read; what has been read leads to no cycle, and offers
\* nothing better.
Sorted ==
  /\ Linked /\ found = NoNode /\ root = NoNode
  /\ degree \in [Nodes -> Nat]
  /\ \A v \in Nodes : degree[v] = Cardinality({d \in Unread : EndNode(d) = v})
  /\ \A v \in queue : degree[v] = 0
  /\ pass = Cardinality(Taken)
  /\ todo # {} => here \in Taken
  /\ Triangles(call.eligible \ Unread)
  /\ \A v \in labelled : pred[v] \notin Unread
  /\ Acyclic(Taken)
  /\ pc = "search" => error = "none"
  /\ pc = "done" => /\ todo = {} /\ queue = {}
                    /\ \/ error = "none" /\ pass = N
                       \/ error = "recurrent" /\ pass < N

\* The invariant behind the result in topological order.
SortInv == CorrectInv /\ (Reading => Sorted)

LEMMA DartsAreFinite ==
  ASSUME call \in Calls, NEW D \in SUBSET call.eligible
  PROVE  IsFiniteSet(D) /\ Cardinality(D) \in Nat
<1>1. IsFiniteSet(Darts)
  <2>1. IsFiniteSet({0} \cup {1}) /\ {0} \cup {1} = {0, 1}
    BY FS_Singleton, FS_Union
  <2> QED
    BY <2>1, GraphType, FS_Product DEF Darts
<1>2. D \in SUBSET Darts
  BY CallsType
<1> QED
  BY <1>1, <1>2, FS_Subset, FS_CardinalityType

\* No dart into a node that has been taken, or can be taken, is left to be read.
LEMMA NothingIsLeft ==
  ASSUME Labels, Sorted, todo \subseteq call.eligible, NEW d \in Unread
  PROVE  EndNode(d) \in Nodes /\ degree[EndNode(d)] # 0 /\ EndNode(d) \notin Taken \cup queue
<1>1. Unread \subseteq call.eligible /\ EndNode(d) \in Nodes
  BY EligibleDarts DEF Unread, Labels
<1> DEFINE v == EndNode(d)
           S == {g \in Unread : EndNode(g) = v}
<1>2. d \in S /\ S \in SUBSET call.eligible
  BY <1>1
<1>3. IsFiniteSet(S) /\ Cardinality(S) # 0
  BY <1>2, DartsAreFinite, FS_EmptySet DEF Labels
<1>4. degree[v] # 0
  BY <1>1, <1>3 DEF Sorted
<1> QED
  BY <1>1, <1>4 DEF Taken, Sorted

LEMMA StartSorts ==
  ASSUME CorrectInv, DAGStart PROVE Sorted'
<1>1. /\ call \in Calls /\ call.sources \subseteq Nodes /\ call.eligible \subseteq Darts
      /\ dist = [v \in Nodes |-> 0] /\ labelled = {} /\ found = NoNode /\ error = "none"
      /\ pred = [v \in Nodes |-> NoArc] /\ root = NoNode /\ todo = {} /\ N \in Nat
  BY CallsType, GraphType DEF DAGStart, CorrectInv, LabelInv, Typed, Untouched, Fresh
<1>2. /\ UNCHANGED <<call, dist, pred, todo, found, root, error>>
      /\ degree' = [v \in Nodes |-> Cardinality({d \in call.eligible : EndNode(d) = v})]
      /\ queue' = {v \in Nodes : degree'[v] = 0}
      /\ labelled' = call.sources /\ pass' = 0 /\ pc' = "search"
  BY DEF DAGStart
<1>3. Linked'
  BY <1>1, <1>2 DEF Linked
<1>4. Taken' = {} /\ Unread' = call.eligible
  <2>1. Taken' = {}
    BY <1>2 DEF Taken
  <2> QED
    BY <1>1, <1>2, <2>1 DEF Unread
<1>5. \A v \in Nodes : Cardinality({d \in call.eligible : EndNode(d) = v}) \in Nat
  BY <1>1, DartsAreFinite
<1>6. degree' \in [Nodes -> Nat]
  BY <1>2, <1>5
<1>7. \A v \in Nodes : degree'[v] = Cardinality({d \in call.eligible : EndNode(d) = v})
  BY <1>2
<1>8. \A v \in labelled' : pred'[v] \notin Unread'
  <2>1. NoArc \notin call.eligible
    BY <1>1, CallsType DEF Darts, NoArc
  <2> QED
    BY <1>1, <1>2, <1>4, <2>1
<1>9. Triangles(call.eligible \ Unread)' /\ Acyclic(Taken)' /\ pass' = Cardinality(Taken')
  BY <1>2, <1>4, FS_EmptySet DEF Triangles, Acyclic
<1> QED
  BY <1>1, <1>2, <1>3, <1>4, <1>6, <1>7, <1>8, <1>9 DEF Sorted

LEMMA TakeSorts ==
  ASSUME SortInv, Reading, DAGTake PROVE Sorted'
<1>1. Sorted /\ Labels /\ queue \subseteq Nodes /\ todo \subseteq call.eligible
  BY CorrectTypes DEF SortInv, CorrectInv
<1>2. PICK u \in queue : queue' = queue \ {u} /\ here' = u /\ todo' = EligibleFrom(u)
  BY DEF DAGTake
<1>3. /\ UNCHANGED <<call, pc, dist, labelled, pred, degree, found, root, error>>
      /\ pass' = pass + 1 /\ todo = {} /\ pc = "search"
  BY DEF DAGTake
<1>4. u \in Nodes /\ degree[u] = 0 /\ u \notin Taken
  BY <1>1 DEF Sorted, Taken
<1>5. Taken' = Taken \cup {u}
  BY <1>2, <1>3, <1>4 DEF Taken
<1>6. Unread' = Unread
  <2>1. todo' = {d \in call.eligible : StartNode(d) = u}
    BY <1>1, <1>2, CallsType DEF EligibleFrom, DartsFrom, Labels
  <2>2. Unread = {d \in call.eligible : StartNode(d) \notin Taken}
    BY <1>3 DEF Unread
  <2>3. Unread' = {d \in call.eligible : StartNode(d) \notin Taken \cup {u}} \cup todo'
    BY <1>3, <1>5 DEF Unread
  <2> QED
    BY <1>4, <2>1, <2>2, <2>3
<1>7. pass' = Cardinality(Taken')
  <2>1. Taken \in SUBSET Nodes
    BY DEF Taken
  <2> QED
    BY <1>1, <1>3, <1>4, <1>5, <2>1, NodesAreFinite, FS_AddElement DEF Sorted
<1>8. \A d \in call.eligible : EndNode(d) \in Taken \cup {u} => StartNode(d) \in Taken
  <2>1. \A d \in Unread : EndNode(d) \notin Taken \cup {u}
    BY <1>1, NothingIsLeft
  <2> QED
    BY <2>1 DEF Unread
<1>9. ASSUME NEW C \in SUBSET (Taken \cup {u}), C # {} PROVE \E v \in C : ~Enters(C, v)
  <2>1. CASE C = {u}
    BY <1>4, <1>8, <2>1 DEF Enters
  <2>2. CASE C # {u}
    <3>1. C \ {u} \in SUBSET Taken /\ C \ {u} # {}
      BY <1>9, <2>2
    <3>2. PICK v \in C \ {u} : ~Enters(C \ {u}, v)
      BY <1>1, <3>1 DEF Sorted, Acyclic
    <3> QED
      BY <1>4, <1>8, <3>1, <3>2 DEF Enters
  <2> QED
    BY <2>1, <2>2
<1>10. Acyclic(Taken)'
  BY <1>3, <1>5, <1>9 DEF Acyclic, Enters
<1>11. Linked' /\ Triangles(call.eligible \ Unread)'
  BY <1>1, <1>3, <1>6 DEF Sorted, Linked, Offer, len, Triangles, Triangle
<1>12. (\A v \in Nodes : degree[v] = Cardinality({d \in Unread : EndNode(d) = v}))'
  BY <1>1, <1>3, <1>6 DEF Sorted
<1>13. (todo # {} => here \in Taken)' /\ (\A v \in queue : degree[v] = 0)'
  BY <1>1, <1>2, <1>3, <1>5 DEF Sorted
<1>14. (\A v \in labelled : pred[v] \notin Unread)'
  BY <1>1, <1>3, <1>6 DEF Sorted
<1> QED
  BY <1>1, <1>3, <1>7, <1>10, <1>11, <1>12, <1>13, <1>14 DEF Sorted

\* Reading a dart into e: e is neither taken nor waiting, and has one dart less to wait for.
LEMMA ReadSorts ==
  ASSUME SortInv, Reading, DAGRead PROVE Sorted'
<1>1. Sorted /\ Labels /\ queue \subseteq Nodes /\ todo \subseteq call.eligible
  BY CorrectTypes DEF SortInv, CorrectInv
<1>2. PICK d \in todo :
        /\ IF here \in labelled /\ Improves(d) THEN Label(d) ELSE UNCHANGED <<dist, labelled, pred>>
        /\ degree' = [degree EXCEPT ![EndNode(d)] = @ - 1]
        /\ queue' = IF degree'[EndNode(d)] = 0 THEN queue \cup {EndNode(d)} ELSE queue
        /\ todo' = todo \ {d}
  BY DEF DAGRead
<1>3. /\ UNCHANGED <<call, pc, here, pass, found, root, error>> /\ pc = "search"
      /\ len' = len
  BY DEF DAGRead, len
<1> DEFINE e == EndNode(d)
<1>4. /\ d \in call.eligible /\ d \in Unread /\ StartNode(d) = here /\ here \in Taken
      /\ here \in Nodes
  <2>1. StartNode(d) = here
    BY <1>2 DEF SortInv, CorrectInv, LabelInv, ScansLabelled, Reading
  <2> QED
    BY <1>1, <1>2, <2>1 DEF Sorted, Unread, Taken
<1>5. e \in Nodes /\ degree[e] # 0 /\ e \notin Taken /\ e \notin queue
  BY <1>1, <1>4, NothingIsLeft
<1> HIDE DEF e
<1>6. /\ degree'[e] = degree[e] - 1 /\ degree[e] \in Nat /\ degree[e] - 1 \in Nat
      /\ \A v \in Nodes : v # e => degree'[v] = degree[v]
      /\ degree' \in [Nodes -> Nat]
  <2>1. degree \in [Nodes -> Nat] /\ degree[e] \in Nat /\ degree[e] - 1 \in Nat
    BY <1>1, <1>5 DEF Sorted
  <2> QED
    BY <1>2, <1>5, <2>1 DEF e
<1>7. Taken' = Taken
  <2>1. CASE degree'[e] = 0
    BY <1>2, <1>5, <1>6, <2>1 DEF Taken, e
  <2>2. CASE degree'[e] # 0
    BY <1>2, <1>5, <1>6, <2>2 DEF Taken, e
  <2> QED
    BY <2>1, <2>2
<1>8. Unread' = Unread \ {d} /\ Unread \in SUBSET call.eligible
  BY <1>1, <1>2, <1>3, <1>4, <1>7 DEF Unread
<1>9. ASSUME NEW v \in Nodes PROVE degree'[v] = Cardinality({g \in Unread' : EndNode(g) = v})
  <2> DEFINE S == {g \in Unread : EndNode(g) = v}
  <2>1. degree[v] = Cardinality(S) /\ IsFiniteSet(S)
    BY <1>1, <1>8, DartsAreFinite DEF Sorted, Labels
  <2>2. {g \in Unread' : EndNode(g) = v} = S \ {d}
    BY <1>8
  <2>3. d \in S <=> v = e
    BY <1>4 DEF e
  <2> HIDE DEF S
  <2>4. Cardinality(S \ {d}) = IF d \in S THEN Cardinality(S) - 1 ELSE Cardinality(S)
    BY <2>1, FS_RemoveElement
  <2> QED
    BY <1>6, <2>1, <2>2, <2>3, <2>4
<1>10. \A v \in queue' : degree'[v] = 0
  BY <1>1, <1>2, <1>5, <1>6 DEF Sorted, e
<1>11. ASSUME NEW g \in call.eligible \ Unread' PROVE g = d \/ (Triangle(g) /\ StartNode(g) # e)
  <2>1. g # d => g \notin Unread /\ StartNode(g) \in Taken
    BY <1>8 DEF Unread
  <2> QED
    BY <1>1, <1>5, <2>1 DEF Sorted, Triangles
<1>12. Linked' /\ (\A v \in labelled' : pred'[v] \notin Unread') /\ Triangles(call.eligible \ Unread)'
  <2>1. CASE here \in labelled /\ Improves(d)
    <3>1. StartNode(d) \in labelled /\ Label(d) /\ Linked
      BY <1>1, <1>2, <1>4, <2>1 DEF Sorted
    <3>2. Linked'
      BY <1>1, <1>3, <1>4, <2>1, <3>1, LabelLinks
    <3>3. /\ labelled' = labelled \cup {e} /\ len[d] \in Int
          /\ dist'[e] = dist[here] + len[d] /\ pred'[e] = d
          /\ \A v \in Nodes : v # e => dist'[v] = dist[v] /\ pred'[v] = pred[v]
          /\ \A v \in labelled : dist'[v] <= dist[v]
          /\ dist' \in [Nodes -> Int] /\ dist \in [Nodes -> Int] /\ labelled \subseteq Nodes
      BY <1>1, <1>3, <1>4, <2>1, <3>1, LabelEffect DEF e, Labels
    <3>4. ASSUME NEW v \in labelled' PROVE pred'[v] \notin Unread'
      <4>1. CASE v = e
        BY <1>8, <3>3, <4>1
      <4>2. CASE v # e
        <5>1. v \in labelled /\ pred'[v] = pred[v]
          BY <3>3, <4>2
        <5> QED
          BY <1>1, <1>8, <5>1 DEF Sorted
      <4> QED
        BY <4>1, <4>2
    <3>5. ASSUME NEW g \in call.eligible \ Unread', StartNode(g) \in labelled'
          PROVE  EndNode(g) \in labelled' /\ dist'[EndNode(g)] <= dist'[StartNode(g)] + len[g]
      <4>1. CASE g = d
        BY <1>4, <1>5, <3>3, <4>1 DEF e
      <4>2. CASE g # d
        <5> DEFINE s == StartNode(g)
                   t == EndNode(g)
        <5>1. s # e /\ s \in labelled
          BY <1>11, <3>3, <3>5, <4>2
        <5>2. s \in Nodes /\ len[g] \in Int /\ t \in labelled /\ dist[t] <= dist[s] + len[g]
          BY <1>1, <1>11, <4>2, <5>1, EligibleDarts DEF Triangle, Offer, Labels
        <5> HIDE DEF s, t
        <5>3. t \in Nodes /\ dist'[t] <= dist[t] /\ dist'[s] = dist[s] /\ t \in labelled'
              /\ dist[t] \in Int /\ dist[s] \in Int /\ dist'[t] \in Int
          BY <3>3, <5>1, <5>2
        <5> QED
          BY <5>2, <5>3 DEF s, t
      <4> QED
        BY <4>1, <4>2
    <3>6. Triangles(call.eligible \ Unread)'
      BY <1>3, <3>5 DEF Triangles, Triangle, Offer
    <3> QED
      BY <3>2, <3>4, <3>6
  <2>2. CASE ~(here \in labelled /\ Improves(d))
    <3>1. UNCHANGED <<dist, labelled, pred>>
      BY <1>2, <2>2
    <3>2. Linked'
      BY <1>1, <1>3, <3>1 DEF Sorted, Linked, Offer
    <3>3. Triangle(d)
      <4>1. StartNode(d) \in labelled => ~Improves(d)
        BY <1>4, <2>2
      <4>2. EndNode(d) \in Nodes /\ Offer(d) \in Int
        BY <1>1, <1>4, EligibleDarts DEF Labels, Offer
      <4> QED
        BY <1>1, <4>1, <4>2 DEF Triangle, Improves, Labels
    <3>4. Triangles(call.eligible \ Unread)'
      BY <1>3, <1>11, <3>1, <3>3 DEF Triangles, Triangle, Offer
    <3> QED
      BY <1>1, <1>8, <3>1, <3>2, <3>4 DEF Sorted
  <2> QED
    BY <2>1, <2>2
<1>13. Acyclic(Taken)' /\ pass' = Cardinality(Taken') /\ (todo' # {} => here' \in Taken')
  BY <1>1, <1>3, <1>4, <1>7 DEF Sorted, Acyclic, Enters
<1> QED
  BY <1>1, <1>3, <1>6, <1>9, <1>10, <1>12, <1>13 DEF Sorted

LEMMA StopSorts ==
  ASSUME SortInv, Reading, DAGFails \/ DAGEnd \/ UNCHANGED vars PROVE Sorted'
<1>1. Sorted /\ Labels /\ queue \subseteq Nodes
  BY CorrectTypes DEF SortInv, CorrectInv
<1>2. /\ UNCHANGED <<call, dist, labelled, pred, queue, here, todo, pass, degree, found, root>>
      /\ len' = len
  BY DEF DAGFails, DAGEnd, Throw, Finish, vars, len
<1>3. Taken' = Taken /\ Unread' = Unread
  BY <1>2 DEF Taken, Unread
<1>4. /\ pc' = "search" => error' = "none"
      /\ pc' = "done" => /\ todo' = {} /\ queue' = {}
                         /\ \/ error' = "none" /\ pass' = N
                            \/ error' = "recurrent" /\ pass' < N
  <2>1. CASE DAGFails
    BY <1>2, <2>1 DEF DAGFails, Throw
  <2>2. CASE DAGEnd
    BY <1>1, <1>2, <2>2 DEF DAGEnd, Finish, Sorted
  <2>3. CASE UNCHANGED vars
    BY <1>1, <1>2, <2>3 DEF vars, Sorted
  <2> QED
    BY <2>1, <2>2, <2>3
<1>5. Linked' /\ Triangles(call.eligible \ Unread)' /\ Acyclic(Taken)'
  BY <1>1, <1>2, <1>3 DEF Sorted, Linked, Offer, Triangles, Triangle, Acyclic, Enters
<1>6. \A v \in Nodes : degree'[v] = Cardinality({d \in Unread' : EndNode(d) = v})
  BY <1>1, <1>2, <1>3 DEF Sorted
<1> QED
  BY <1>1, <1>2, <1>3, <1>4, <1>5, <1>6 DEF Sorted

LEMMA StepSorts == SortInv /\ [Next]_vars => SortInv'
<1> SUFFICES ASSUME SortInv, [Next]_vars PROVE SortInv'
  OBVIOUS
<1>1. CorrectInv'
  BY StepCorrects DEF SortInv
<1> SUFFICES ASSUME Reading' PROVE Sorted'
  BY <1>1 DEF SortInv
<1>2. CASE UNCHANGED vars
  <2>1. Reading
    BY <1>2 DEF Reading, vars, method
  <2> QED
    BY <1>2, <2>1, StopSorts
<1>3. CASE DAGStart
  BY <1>3, StartSorts DEF SortInv
<1>4. CASE DAGTake \/ DAGRead \/ DAGFails \/ DAGEnd
  <2>1. Reading
    BY <1>4 DEF Reading, DAGTake, DAGRead, DAGFails, DAGEnd
  <2> QED
    BY <1>4, <2>1, TakeSorts, ReadSorts, StopSorts
<1>5. CASE \/ DijkstraStart \/ DijkstraTake \/ DijkstraSkip \/ NegativeLength \/ NoSuchItem
           \/ DijkstraLabel \/ DijkstraEnd
           \/ BellmanStart \/ BellmanSkip \/ BellmanLabel \/ BellmanPass \/ BellmanFails
           \/ BellmanEnd
           \/ FIFOStart \/ FIFOTake \/ FIFOSkip \/ FIFOLabel \/ FIFOPass \/ FIFOEnd \/ FIFOFails
  <2>1. method # "DAG" /\ call' = call
    BY <1>5 DEF DijkstraStart, DijkstraTake, DijkstraSkip, NegativeLength, NoSuchItem,
           DijkstraLabel, DijkstraEnd, BellmanStart, BellmanSkip, BellmanLabel, BellmanPass,
           BellmanFails, BellmanEnd, FIFOStart, FIFOTake, FIFOSkip, FIFOLabel, FIFOPass, FIFOEnd,
           FIFOFails, Throw, Finish
  <2> QED
    BY <2>1 DEF Reading, method
<1> QED
  BY <1>2, <1>3, <1>4, <1>5 DEF Next

LEMMA SortsStay == Spec => []SortInv
<1>1. Init => CorrectInv /\ ~Reading
  BY InitLabels DEF Init, CorrectInv, Fresh, Correcting, Reading
<1>2. Init => SortInv
  BY <1>1 DEF SortInv
<1> QED
  BY <1>2, StepSorts, PTL DEF Spec

\* The nodes that the darts lead to from S.
Reached(S) == {EndNode(d) : d \in {e \in call.eligible : StartNode(e) \in S}}

\* The search that HasCycle makes.
IsAfter(after) == after = [k \in Nat |-> IF k = 0 THEN Nodes ELSE Reached(after[k - 1])]

LEMMA AfterExists ==
  ASSUME call \in Calls
  PROVE  \E after : /\ IsAfter(after) /\ after[0] = Nodes
                    /\ \A k \in Nat : after[k] \in SUBSET Nodes /\ after[k + 1] = Reached(after[k])
<1> DEFINE D == SUBSET Nodes
           F == [S \in D |-> Reached(S)]
           a == Nodes
<1>1. \A S \in D : Reached(S) \in D
  BY EligibleDarts DEF Reached
<1>2. F \in [D -> D] /\ a \in D /\ \A S \in D : F[S] = Reached(S)
  BY <1>1
<1> HIDE DEF D, F, a
<1>3. PICK g : g = [k \in Nat |-> IF k = 0 THEN a ELSE F[g[k - 1]]] /\ g \in [Nat -> D]
  <2>1. F \in [D -> D] /\ a \in D
    BY <1>2
  <2> QED
    BY <2>1, IterationExists
<1>4. ASSUME NEW k \in Nat
      PROVE  (IF k = 0 THEN a ELSE F[g[k - 1]]) = IF k = 0 THEN a ELSE Reached(g[k - 1])
  <2>1. k # 0 => k - 1 \in Nat
    OBVIOUS
  <2> QED
    BY <1>2, <1>3, <2>1
<1>5. g = [k \in Nat |-> IF k = 0 THEN a ELSE Reached(g[k - 1])]
  BY <1>3, <1>4
<1>6. IsAfter(g)
  BY <1>5, Zenon DEF IsAfter, a
<1>7. g[0] = Nodes
  BY <1>3 DEF a
<1>8. ASSUME NEW k \in Nat PROVE g[k] \in SUBSET Nodes /\ g[k + 1] = Reached(g[k])
  <2>1. k + 1 \in Nat /\ k + 1 # 0 /\ (k + 1) - 1 = k /\ g[k] \in D
    BY <1>3
  <2>2. g[k + 1] = Reached(g[k])
    BY <1>5, <2>1
  <2> QED
    BY <2>1, <2>2 DEF D
<1> QED
  BY <1>6, <1>7, <1>8

LEMMA CycleIsRecursive ==
  ASSUME \A after : IsAfter(after) => after[N] # {}, \E after : IsAfter(after)
  PROVE  HasCycle
<1>1. IsAfter(CHOOSE after : IsAfter(after))
  BY Zenon
<1>2. (CHOOSE after : IsAfter(after))[N] # {}
  BY <1>1
<1> QED
  BY <1>2, Zenon DEF HasCycle, IsAfter, Reached

LEMMA NoCycleIsRecursive ==
  ASSUME \A after : IsAfter(after) => after[N] = {}, \E after : IsAfter(after)
  PROVE  ~HasCycle
<1>1. IsAfter(CHOOSE after : IsAfter(after))
  BY Zenon
<1>2. (CHOOSE after : IsAfter(after))[N] = {}
  BY <1>1
<1> QED
  BY <1>2, Zenon DEF HasCycle, IsAfter, Reached

\* If every node of C is entered from C, then one can go on in C.
LEMMA CyclesGoOn ==
  ASSUME call \in Calls, NEW C \in SUBSET Nodes, C # {}, \A v \in C : Enters(C, v)
  PROVE  HasCycle
<1>1. ASSUME NEW after, IsAfter(after) PROVE after[N] # {}
  <2>1. after[0] = Nodes /\ \A k \in Nat : after[k + 1] = Reached(after[k])
    <3>1. after[0] = Nodes
      BY <1>1 DEF IsAfter
    <3>2. ASSUME NEW k \in Nat PROVE after[k + 1] = Reached(after[k])
      <4>1. k + 1 \in Nat /\ k + 1 # 0 /\ (k + 1) - 1 = k
        OBVIOUS
      <4> QED
        BY <1>1, <4>1 DEF IsAfter
    <3> QED
      BY <3>1, <3>2
  <2> DEFINE B == {k \in Nat : C \subseteq after[k]}
  <2>2. B = Nat
    <3>1. 0 \in B
      BY <2>1
    <3>2. ASSUME NEW k \in B PROVE k + 1 \in B
      BY <2>1 DEF Enters, Reached
    <3>3. B \in SUBSET Nat
      OBVIOUS
    <3> HIDE DEF B
    <3> QED
      BY <3>1, <3>2, <3>3, AllNumbers
  <2>3. N \in B
    BY <2>2, NodesAreFinite
  <2> QED
    BY <2>3
<1> QED
  BY <1>1, AfterExists, CycleIsRecursive

\* Without cycles, every step leaves a node behind.
LEMMA NothingGoesOn ==
  ASSUME call \in Calls, Acyclic(Nodes)
  PROVE  ~HasCycle
<1>1. ASSUME NEW after, IsAfter(after) PROVE after[N] = {}
  <2>1. after[0] = Nodes /\ \A k \in Nat : after[k + 1] = Reached(after[k])
    <3>1. after[0] = Nodes
      BY <1>1 DEF IsAfter
    <3>2. ASSUME NEW k \in Nat PROVE after[k + 1] = Reached(after[k])
      <4>1. k + 1 \in Nat /\ k + 1 # 0 /\ (k + 1) - 1 = k
        OBVIOUS
      <4> QED
        BY <1>1, <4>1 DEF IsAfter
    <3> QED
      BY <3>1, <3>2
  <2>2. \A S \in SUBSET Nodes : Reached(S) \in SUBSET Nodes
    BY EligibleDarts DEF Reached
  <2>3. \A S, R \in SUBSET Nodes : S \subseteq R => Reached(S) \subseteq Reached(R)
    BY DEF Reached
  <2> DEFINE B == {k \in Nat : /\ after[k] \in SUBSET Nodes /\ after[k + 1] \subseteq after[k]
                               /\ \/ after[k] = {}
                                  \/ Cardinality(after[k]) + k <= N}
  <2>4. B = Nat
    <3>1. 0 \in B
      BY <2>1, <2>2, NodesAreFinite
    <3>2. ASSUME NEW k \in B PROVE k + 1 \in B
      <4> DEFINE S == after[k]
                 R == after[k + 1]
      <4>1. /\ k \in Nat /\ k + 1 \in Nat /\ S \in SUBSET Nodes /\ R = Reached(S) /\ R \subseteq S
            /\ (S = {} \/ Cardinality(S) + k <= N) /\ after[(k + 1) + 1] = Reached(R)
        BY <2>1
      <4>2. R \in SUBSET Nodes /\ after[(k + 1) + 1] = Reached(R)
        BY <2>1, <2>2, <4>1
      <4>3. Reached(R) \subseteq R
        BY <2>3, <4>1, <4>2
      <4> HIDE DEF S, R
      <4>4. R = {} \/ Cardinality(R) + (k + 1) <= N
        <5> SUFFICES ASSUME R # {} PROVE Cardinality(R) + (k + 1) <= N
          OBVIOUS
        <5>1. S # {} /\ Cardinality(S) + k <= N
          BY <4>1
        <5>2. PICK v \in S : ~Enters(S, v)
          BY <4>1, <5>1 DEF Acyclic
        <5>3. v \notin R
          BY <4>1, <5>2 DEF Reached, Enters
        <5>4. R \in SUBSET (S \ {v}) /\ IsFiniteSet(S) /\ IsFiniteSet(S \ {v})
          BY <4>1, <5>3, NodesAreFinite, FS_RemoveElement
        <5>5. Cardinality(R) <= Cardinality(S \ {v})
          BY <5>4, FS_Subset
        <5>6. Cardinality(S \ {v}) = Cardinality(S) - 1
          BY <5>2, <5>4, FS_RemoveElement
        <5>7. Cardinality(R) \in Nat /\ Cardinality(S) \in Nat /\ N \in Nat
          BY <4>1, <4>2, NodesAreFinite
        <5> QED
          BY <4>1, <5>1, <5>5, <5>6, <5>7
      <4> QED
        BY <4>1, <4>2, <4>3, <4>4 DEF R
    <3>3. B \in SUBSET Nat
      OBVIOUS
    <3> HIDE DEF B
    <3> QED
      BY <3>1, <3>2, <3>3, AllNumbers
  <2>5. N \in B
    BY <2>4, NodesAreFinite
  <2>6. after[N] \in SUBSET Nodes /\ (after[N] = {} \/ Cardinality(after[N]) + N <= N)
    BY <2>5
  <2> HIDE DEF B
  <2>7. /\ IsFiniteSet(after[N]) /\ Cardinality(after[N]) \in Nat /\ N \in Nat
    BY <2>6, NodesAreFinite
  <2>8. after[N] # {} => Cardinality(after[N]) # 0
    BY <2>7, FS_EmptySet
  <2> QED
    BY <2>6, <2>7, <2>8
<1> QED
  BY <1>1, AfterExists, NoCycleIsRecursive

\* At the end of the search in topological order.
LEMMA SortedIsExact ==
  ASSUME SortInv, method = "DAG" PROVE ResultIsExact
<1> SUFFICES ASSUME pc = "done" PROVE LabelsAreDistances /\ CyclesAreFound
  BY Zenon DEF ResultIsExact, LabelsAreDistances, CyclesAreFound
<1>1. Sorted /\ Labels /\ todo = {} /\ queue = {}
  BY CorrectTypes DEF SortInv, CorrectInv, Reading, Sorted
<1>2. Taken \in SUBSET Nodes /\ Unread = {d \in call.eligible : StartNode(d) \notin Taken}
  BY <1>1 DEF Taken, Unread
<1>3. LabelsAreDistances /\ (error = "recurrent" <=> HasCycle)
  <2>1. CASE error = "none"
    <3>1. Taken = Nodes
      <4>1. Cardinality(Taken) = Cardinality(Nodes)
        BY <1>1, <2>1, NodesAreFinite DEF Sorted
      <4> QED
        BY <1>2, <4>1, NodesAreFinite, FS_Subset
    <3>2. Unread = {} /\ Acyclic(Nodes)
      BY <1>1, <1>2, <3>1, EligibleDarts DEF Sorted, Labels
    <3>3. Triangles(call.eligible) /\ Linked /\ found = NoNode
      BY <1>1, <3>2 DEF Sorted
    <3>4. ASSUME NEW C \in SUBSET labelled, C # {}
          PROVE  \E v \in C : pred[v] = NoArc \/ StartNode(pred[v]) \notin C
      <4>1. C \in SUBSET Nodes
        BY <1>1 DEF Labels
      <4>2. PICK v \in C : ~Enters(C, v)
        BY <3>2, <3>4, <4>1 DEF Acyclic
      <4>3. pred[v] # NoArc => pred[v] \in call.eligible /\ EndNode(pred[v]) = v
        BY <1>1, <3>3, LinkedTypes DEF Linked
      <4> QED
        BY <4>2, <4>3 DEF Enters
    <3>5. NoPredCycle
      BY <3>4 DEF NoPredCycle
    <3>6. LabelsAreDistances
      BY <1>1, <3>3, <3>5, FinalIsExact
    <3>7. ~HasCycle
      BY <1>1, <3>2, NothingGoesOn DEF Labels
    <3> QED
      BY <1>1, <2>1, <3>6, <3>7 DEF Sorted
  <2>2. CASE error # "none"
    <3>1. error = "recurrent" /\ pass < N
      BY <1>1, <2>2 DEF Sorted
    <3> DEFINE C == Nodes \ Taken
    <3>2. C # {}
      BY <1>1, <1>2, <3>1, NodesAreFinite DEF Sorted
    <3>3. ASSUME NEW v \in C PROVE Enters(C, v)
      <4>1. degree[v] # 0
        BY <1>1 DEF Taken
      <4>2. {d \in Unread : EndNode(d) = v} # {}
        BY <1>1, <4>1, FS_EmptySet DEF Sorted
      <4>3. PICK d \in Unread : EndNode(d) = v
        BY <4>2
      <4>4. d \in call.eligible /\ StartNode(d) \notin Taken /\ StartNode(d) \in Nodes
        BY <1>1, <1>2, <4>3, EligibleDarts DEF Labels
      <4> QED
        BY <4>3, <4>4 DEF Enters
    <3>4. HasCycle
      BY <1>1, <3>2, <3>3, CyclesGoOn DEF Labels
    <3>5. LabelsAreDistances
      BY <2>2, Zenon DEF LabelsAreDistances
    <3> QED
      BY <1>1, <3>1, <3>4, <3>5 DEF Sorted
  <2> QED
    BY <2>1, <2>2
<1>4. (error = "recurrent") = HasCycle
  BY <1>3, Zenon DEF HasCycle
<1>5. method \notin {"BELLMAN", "FIFO"} /\ root = NoNode
  BY <1>1 DEF Sorted
<1> QED
  BY <1>3, <1>4, <1>5, Zenon DEF CyclesAreFound

\* DAGSearch(): in every graph, and in whatever order nodes and arcs are taken, the search fails
\* if and only if the arcs that it may use contain a cycle, a loop or an edge included; it
\* ends with the distances of all the nodes and with shortest paths otherwise, whatever the
\* signs of the lengths are.
THEOREM DAGSearchIsExact == Spec => [](method = "DAG" => ResultIsExact)
<1>1. SortInv => (method = "DAG" => ResultIsExact)
  BY SortedIsExact
<1> QED
  BY <1>1, SortsStay, PTL
=============================================================================
