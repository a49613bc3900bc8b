---------------------------- MODULE BranchScheme ----------------------------
(***************************************************************************)
(* The branch and bound scheme of lib_src/branchScheme.cpp, over any       *)
(* problem that is described by branch nodes.                              *)
(*                                                                         *)
(* Objectives are multiplied by `sign', so that every problem minimizes,   *)
(* and integral, so that a test with CT.epsilon is a test on integers.  A  *)
(* branch node is what the scheme sees of it: the bound `obj' of its       *)
(* relaxation, the number of `unfixed' variables and what Feasible() says  *)
(* of the relaxed solution; and what it does not see: the best objective   *)
(* `opt' of the solutions below it.  Nodes have addresses, since some of   *)
(* them stay referenced while others are deleted.                          *)
(***************************************************************************)
EXTENDS Integers, FiniteSetsExt, SequencesExt, Functions

CONSTANTS
  MaxObj,           \* the finite objectives are 0 .. MaxObj
  MaxUnfixed,       \* number of variables of the root node
  Addresses,        \* positive integers, where branch nodes are allocated
  Clients           \* the problems: [sense : {"min", "max"},
                    \*   absorbs : Infeasibility() + epsilon - 1 equals
                    \*     Infeasibility() (so for 1e50, not for NoNode),
                    \*   mayHalt : a limit or a stop may end the search]

ASSUME ObjectiveTypes == MaxObj \in Nat /\ MaxUnfixed \in Nat
ASSUME AddressesType == Addresses \subseteq Nat \ {0} /\ Addresses # {}
ASSUME ClientsType ==
  Clients \subseteq [sense : {"min", "max"}, absorbs : BOOLEAN, mayHalt : BOOLEAN]

VARIABLES
  client,           \* the problem solved
  optimum,          \* its optimal objective, which the program looks for
  phase,            \* where the constructor or Optimize() is
  node,             \* the branch node at every address in use
  queue,            \* the addresses from firstActive along succNode
  hand,             \* root, or leftChild and rightChild, to be inspected
  inspected,        \* how many of them have been inspected
  doomed,           \* those whose deleteLeft or deleteRight is set
  nActive, savedObjective, bestBound, feasible,
  primal, dual      \* the optimization bounds of the module guard M

heap == <<node, queue, nActive>>
best == <<savedObjective, feasible, primal>>
vars == <<client, optimum, phase, heap, hand, inspected, doomed, best, bestBound, dual>>

Infeasible == MaxObj + 1
Objectives == 0 .. Infeasible
Unbounded  == -1                            \* -InfFloat, for `dual'

\* A relaxed solution that is feasible is optimal for its node; a fixed node
\* is feasible or has no solution (manual.tex:5141).  What Feasible() says of
\* a node without a solution depends on the client.
Nodes(u) ==
  {x \in [obj : Objectives, opt : Objectives, unfixed : {u}, feasible : BOOLEAN] :
     /\ x.obj =< x.opt
     /\ x.obj # Infeasible => /\ x.feasible => x.obj = x.opt
                              /\ u = 0 => x.feasible}

Phases == {"inspect", "loop", "final", "optimal", "interrupted", "error"}
Ended  == {"optimal", "interrupted", "error"}

TypeOK ==
  /\ client \in Clients
  /\ optimum \in Objectives
  /\ phase \in Phases
  /\ DOMAIN node \subseteq Addresses
  /\ \A a \in DOMAIN node : node[a] \in UNION {Nodes(u) : u \in 0 .. MaxUnfixed}
  /\ queue \in Seq(Addresses)
  /\ hand \in Seq(Addresses) /\ inspected \in 0 .. Len(hand) /\ doomed \subseteq ToSet(hand)
  /\ nActive \in Nat
  /\ savedObjective \in Objectives /\ bestBound \in Objectives
  /\ feasible \in BOOLEAN
  /\ primal \in Objectives /\ dual \in Objectives \cup {Unbounded}

-----------------------------------------------------------------------------
\* Problems of the library; a search for a maximum cut, interrupted or not.
MIP     == [sense |-> "min", absorbs |-> TRUE, mayHalt |-> TRUE]
Colour  == [sense |-> "min", absorbs |-> FALSE, mayHalt |-> TRUE]
MaxCut  == [sense |-> "max", absorbs |-> TRUE, mayHalt |-> FALSE]
Halting == [sense |-> "max", absorbs |-> TRUE, mayHalt |-> TRUE]

\* A maximization that is interrupted is not among the clients whose bounds are right.
CarefulClients == {MIP, Colour, MaxCut}
Maximizing     == {Halting}

-----------------------------------------------------------------------------
\* Variant: an epsilon on the wrong side.
ImprovesByMore(x, y) == (client.absorbs /\ y = Infeasible) \/ x =< y - 2

\* x <= y + epsilon - 1, in floating point numbers; x <= y + epsilon is =<.
Improves(x, y) == (client.absorbs /\ y = Infeasible) \/ x =< y - 1

\* The constructor's last test has sign*(y + epsilon) instead: when the
\* problem is a maximization problem, x has to be an epsilon smaller.
LastTest(x, y) ==
  \/ client.absorbs /\ y = Infeasible
  \/ x =< (IF client.sense = "min" THEN y - 1 ELSE y - 2)

LastTie(x, y) ==
  \/ client.absorbs /\ y = Infeasible
  \/ x =< (IF client.sense = "min" THEN y ELSE y - 1)

Obj(a) == node[a].obj

-----------------------------------------------------------------------------
\* The constructor; an a priori bound is the objective of a known solution.
Init ==
  /\ client \in Clients
  /\ \E root \in Nodes(MaxUnfixed), aPrioriBound \in Objectives :
       /\ root.opt =< aPrioriBound
       /\ optimum = root.opt
       /\ node = [a \in {Min(Addresses)} |-> root]
       /\ savedObjective = aPrioriBound
       /\ primal = aPrioriBound
       /\ bestBound = root.obj
       /\ dual = IF root.obj =< aPrioriBound THEN root.obj ELSE Unbounded
       /\ feasible = (aPrioriBound # Infeasible)
  /\ phase = "inspect"
  /\ queue = <<>> /\ nActive = 0
  /\ hand = <<Min(Addresses)>> /\ inspected = 0 /\ doomed = {}

\* Variant: the best bound is not lowered.
QueueKeepsBound(a) ==
  /\ queue' = <<a>> \o queue
  /\ nActive' = nActive + 1
  /\ UNCHANGED <<node, doomed, best, bestBound>>

QueueExploredNode(a) ==
  /\ queue' = <<a>> \o queue
  /\ nActive' = nActive + 1
  /\ bestBound' = Min({bestBound, Obj(a)})
  /\ UNCHANGED <<node, doomed, best>>

CutOff(a) ==
  /\ doomed' = doomed \cup {a}
  /\ UNCHANGED <<heap, best, bestBound>>

\* The elements of q at the positions in P, in their order.
Picked(q, P) ==
  [k \in 1 .. Cardinality(P) |-> q[CHOOSE p \in P : Cardinality({i \in P : i =< p}) = k]]

\* Variant: the first node of the list is deleted like the others.
StripWholeQueue(value) ==
  /\ queue' = Picked(queue, {i \in DOMAIN queue : Improves(Obj(queue[i]), value)})
  /\ node' = Restrict(node, DOMAIN node \ (ToSet(queue) \ ToSet(queue')))
  /\ nActive' = Len(queue')

\* The positions that StripQueue leaves in the list.  It tests the node behind
\* the one it stands at, so never the first of the list; and it goes on from
\* the node behind a deleted one, which it does not test.  So of the nodes in
\* a row that cannot improve the solution every other one is left.
Spared(value) ==
  LET Passing == {i \in DOMAIN queue : i = 1 \/ Improves(Obj(queue[i]), value)}
  IN  {i \in DOMAIN queue : (i - Max({k \in Passing : k =< i})) % 2 = 0}

StripQueue(value) ==
  /\ queue' = Picked(queue, Spared(value))
  /\ node' = Restrict(node, DOMAIN node \ (ToSet(queue) \ ToSet(queue')))
  /\ nActive' = nActive - (Len(queue) - Len(queue'))

\* LocalSearch() may improve the solution before it is saved.
SaveSolution(a) ==
  \E value \in IF Obj(a) = Infeasible THEN {Infeasible} ELSE optimum .. Obj(a) :
    /\ savedObjective' = value
    /\ feasible' = TRUE
    /\ primal' = Min({primal, value})
    /\ StripQueue(value)
    /\ doomed' = doomed \cup {a}
    /\ UNCHANGED bestBound

\* The test of Inspect: as long as no solution is known, a tie with the a
\* priori bound is worth a look.
MayImprove(x) ==
  \/ Improves(x, savedObjective)
  \/ x =< savedObjective /\ x # Infeasible /\ ~ feasible

Inspect ==
  LET a == hand[inspected + 1] IN
    /\ phase = "inspect" /\ inspected < Len(hand)
    /\ inspected' = inspected + 1
    /\ \/ MayImprove(Obj(a)) /\ node[a].feasible /\ SaveSolution(a)
       \/ MayImprove(Obj(a)) /\ ~ node[a].feasible /\ QueueExploredNode(a)
       \/ ~ MayImprove(Obj(a)) /\ CutOff(a)
    /\ UNCHANGED <<client, optimum, phase, hand, dual>>

\* The end of an iteration: leftChild and rightChild have been inspected.
Discard ==
  /\ phase = "inspect" /\ inspected = Len(hand)
  /\ dual' = IF Len(hand) = 2 /\ bestBound =< primal THEN Max({dual, bestBound}) ELSE dual
  /\ node' = Restrict(node, DOMAIN node \ doomed)
  /\ phase' = "loop"
  /\ hand' = <<>> /\ inspected' = 0 /\ doomed' = {}
  /\ UNCHANGED <<client, optimum, queue, nActive, best, bestBound>>

\* The loop condition of Optimize(), without the limits.
Continues ==
  /\ nActive > 0
  /\ \/ Improves(bestBound, savedObjective)
     \/ bestBound =< savedObjective /\ ~ feasible

\* The search is at its end, or a limit is reached: maxBBNodes (not less than
\* the addresses leave room for), maxBBIterations, or a stop by the user.
LeaveLoop ==
  /\ phase = "loop"
  /\ \/ ~ Continues
     \/ client.mayHalt
     \/ DOMAIN node = Addresses
  /\ phase' = "final"
  /\ UNCHANGED <<client, optimum, heap, hand, inspected, doomed, best, bestBound, dual>>

\* Depth first search takes the first node of the list, best first search the
\* first one of those with the best bound.
Selected(i) ==
  \/ i = 1
  \/ /\ \A k \in DOMAIN queue : Obj(queue[i]) =< Obj(queue[k])
     /\ \A k \in 1 .. i - 1 : Obj(queue[i]) < Obj(queue[k])

Unlink(i) ==
  /\ queue' = RemoveAt(queue, i)
  /\ nActive' = nActive - 1
  /\ bestBound' = Min({savedObjective} \cup {Obj(b) : b \in ToSet(queue')})

\* Variants: the variable is not fixed; it is counted twice.
SameSize(u) == 0 .. u
\* Raise() and Lower() fix the variable, and others if they can.
Smaller(u) == 0 .. u - 1

\* One iteration begins: the node is split into two which together have its
\* solutions, one of them in its place.  The search direction says which one is
\* inspected first; here it is the one at address a, since the two are alike.
Branch ==
  \E i \in DOMAIN queue, b \in {Min(Addresses \ DOMAIN node)} : \E a \in {queue[i]} :
    /\ Selected(i)
    /\ node[a].unfixed > 0
    /\ Unlink(i)
    /\ \E u, v \in Smaller(node[a].unfixed) : \E x \in Nodes(u), y \in Nodes(v) :
         /\ Min({x.opt, y.opt}) = node[a].opt
         /\ node' = [c \in DOMAIN node \cup {b} |->
                       CASE c = a -> x [] c = b -> y [] OTHER -> node[c]]
    /\ hand' = <<a, b>>
    /\ phase' = "inspect"

\* SelectVariable() finds all variables fixed and throws.
NothingToBranchOn ==
  \E i \in DOMAIN queue :
    /\ Selected(i)
    /\ node[queue[i]].unfixed = 0
    /\ Unlink(i)
    /\ phase' = "error"
    /\ UNCHANGED <<node, hand>>

Optimize ==
  /\ phase = "loop"
  /\ Continues
  /\ DOMAIN node # Addresses
  /\ Branch \/ NothingToBranchOn
  /\ UNCHANGED <<client, optimum, inspected, doomed, best, dual>>

\* The end of the constructor: either the search has been interrupted, or the
\* saved solution is optimal and both bounds become its objective.
Certify ==
  /\ phase = "final"
  /\ IF \/ LastTest(bestBound, savedObjective)
        \/ LastTie(bestBound, savedObjective) /\ ~ feasible /\ nActive > 0
     THEN phase' = "interrupted" /\ UNCHANGED <<bestBound, dual>>
     ELSE /\ phase' = "optimal"
          /\ bestBound' = savedObjective
          /\ dual' = Max({dual, savedObjective})
  /\ UNCHANGED <<client, optimum, heap, hand, inspected, doomed, best>>

Done == phase \in Ended /\ UNCHANGED vars

Next == Inspect \/ Discard \/ LeaveLoop \/ Optimize \/ Certify \/ Done

Spec == Init /\ [][Next]_vars

\* The scheme is a sequential program.
FairSpec == Spec /\ WF_vars(Next)

-----------------------------------------------------------------------------
\* The nodes in use are those of the list and those of the iteration: none is
\* lost, and leftChild and rightChild are not deleted by StripQueue() while
\* Optimize() still refers to them; nActive counts the list.
NodesAreReferenced ==
  phase # "error" =>
    /\ DOMAIN node = ToSet(queue) \cup ToSet(hand)
    /\ IsInjective(queue)
    /\ ToSet(queue) \cap doomed = {}
    /\ nActive = Len(queue)

\* An optimal solution is saved, or there is a node left that leads to it.
NothingIsLost ==
  phase # "error" =>
    \/ savedObjective = optimum
    \/ \E a \in ToSet(queue) : node[a].opt = optimum
    \/ \E i \in inspected + 1 .. Len(hand) : node[hand[i]].opt = optimum

\* The bounds of the module guard enclose the optimum at any time, also when
\* the search has been interrupted (moduleGuard.h:93).
BoundsEnclose == dual =< optimum /\ optimum =< primal

\* What is not true, though doku/manual.tex:5253 says that "StripQueue() deletes
\* irrelevant branch nodes when an improving feasible solution is found": behind
\* the first node, only nodes that can improve a new solution are left.
StrippedQueueImproves ==
  [][savedObjective' # savedObjective =>
       \A i \in DOMAIN queue' : i = 1 \/ Improves(Obj(queue'[i]), savedObjective')]_vars

\* Only nodes whose relaxation has a solution wait for being branched
\* (manual.tex:5052).
OpenNodesAreFeasible == \A a \in ToSet(queue) : Obj(a) # Infeasible

\* The search comes to an end, even if it never reaches a limit.
SearchEnds == <>(phase \in Ended)
=============================================================================
