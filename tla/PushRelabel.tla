----------------------------- MODULE PushRelabel -----------------------------
(***************************************************************************)
(* abstractDiGraph::MXF_PushRelabel (lib_src/solveMaxFlow.cpp).  The three *)
(* methods differ in the choice of the next active node, and in the amount *)
(* of flow that excess scaling allows a push to carry.                     *)
(*                                                                         *)
(* Q is the set of active nodes: first-in first-out is any order here.     *)
(* The key of an active node depends on its label, which does not change   *)
(* while the node is in Q.  The order of an incidence list and of the      *)
(* queue of admissible arcs is open as well.                               *)
(***************************************************************************)
EXTENDS Network

CONSTANT LongBits     \* width of unsigned long, the type of TNode

VARIABLES Q,            \* active nodes
          admissible,   \* Admissible[]: arcs that are worth a try
          u,            \* the node that is discharged
          canRelabel,
          delta,        \* bound on the excess of a node, excess scaling only
          todo          \* arcs of the source that are not saturated yet

local == <<Q, admissible, u, canRelabel, delta, todo>>

Preflows == {"FIFO", "HIGH", "SCALE"}

Inner == Nodes \ {s, t}

\* The arcs that should be in the queue of their start node.
IsAdmissible(d) == ResCap(d) > 0 /\ dist[StartNode(d)] = dist[EndNode(d)] + 1

-----------------------------------------------------------------------------
PreflowStart ==
  /\ pc = "start" /\ method \in Preflows
  /\ dist' = [v \in Nodes |-> IF v = s THEN N ELSE 0]
  /\ todo' = DartsFrom(s)
  /\ pc' = "saturate"
  /\ UNCHANGED <<ucap, lcap, flow, div, method, lower, upper, failed>>
  /\ UNCHANGED <<Q, admissible, u, canRelabel, delta>>

\* Push all flow away from the root node.
Saturate ==
  /\ pc = "saturate"
  /\ \E d \in todo : Push(d, ResCap(d)) /\ todo' = todo \ {d}
  /\ UNCHANGED <<ucap, lcap, dist, method, pc, lower, upper, failed>>
  /\ UNCHANGED <<Q, admissible, u, canRelabel, delta>>

\* x is the largest excess that is left to be distributed.
IsLargestExcess(x) == x >= 0 /\ \A v \in Inner : div[v] <= x

Crowded(D) == {v \in Inner : 2 * div[v] >= D}

Activate ==
  /\ pc = "saturate" /\ todo = {}
  /\ IF method = "SCALE"
     THEN \E x \in {0} \cup {div[v] : v \in Inner} : IsLargestExcess(x) /\ delta' = x
     ELSE delta' = 0
  /\ Q' = IF method = "SCALE" THEN Crowded(delta') ELSE {v \in Inner : div[v] > 0}
  /\ lower' = div[t] /\ upper' = -div[s]
  /\ pc' = "select"
  /\ UNCHANGED <<ucap, lcap, flow, div, dist, method, failed>>
  /\ UNCHANGED <<admissible, u, canRelabel, todo>>

\* The heap returns a node with the least key.  The key of the highest label method is
\* -dist[v]: an unsigned number, so that the nodes with the label 0 come first; and when
\* it has 64 bits, the mantissa of a double does not tell the others apart.
HasLeastKey(v) ==
  CASE method = "HIGH"  -> \/ dist[v] = 0
                           \/ /\ \A w \in Q : dist[w] > 0
                              /\ LongBits <= 53 => \A w \in Q : dist[w] <= dist[v]
    [] method = "SCALE" -> \A w \in Q : dist[w] >= dist[v]
    [] OTHER            -> TRUE

Select ==
  /\ pc = "select"
  /\ \E v \in Q : HasLeastKey(v) /\ u' = v /\ Q' = Q \ {v}
  /\ canRelabel' = TRUE
  /\ pc' = "push"
  /\ UNCHANGED <<ucap, lcap, flow, div, dist, method, lower, upper, failed>>
  /\ UNCHANGED <<admissible, delta, todo>>

-----------------------------------------------------------------------------
\* How much of the excess of u goes along d.
Amount(d) ==
  LET all == Least(ResCap(d), div[u])
      v == EndNode(d)
  IN  IF method = "SCALE" /\ v # t THEN Least(all, delta - div[v]) ELSE all

\* In excess scaling, all non-saturating pushes carry at least delta / 2 units.
TooSmall(d) == method = "SCALE" /\ 2 * Amount(d) < delta /\ Amount(d) < ResCap(d)

Discharging == pc = "push" /\ div[u] > 0

Skip(d) ==
  /\ Discharging /\ d \in admissible[u]
  /\ TooSmall(d) \/ dist[u] # dist[EndNode(d)] + 1
  /\ admissible' = [admissible EXCEPT ![u] = @ \ {d}]
  /\ canRelabel' = (canRelabel /\ ~(TooSmall(d) /\ dist[u] = dist[EndNode(d)] + 1))
  /\ UNCHANGED network /\ UNCHANGED <<Q, u, delta, todo>>

\* The end node v of a push of x units joins the active nodes.
BecomesActive(v, x) ==
  /\ v \in Inner
  /\ IF method = "SCALE" THEN 2 * div[v] < delta /\ 2 * (div[v] + x) >= delta
                         ELSE div[v] = 0

PushAlong(d) ==
  LET v == EndNode(d)
      x == Amount(d)
  IN  /\ Discharging /\ d \in admissible[u]
      /\ ~TooSmall(d) /\ dist[u] = dist[v] + 1
      /\ Push(d, x)
      /\ Q' = IF BecomesActive(v, x) THEN Q \cup {v} ELSE Q
      /\ failed' = (failed \/ (BecomesActive(v, x) /\ v \in Q))
      /\ upper' = IF v = s THEN -div'[s] ELSE upper
      /\ lower' = IF v = t THEN div'[t] ELSE lower
      /\ admissible' = [admissible EXCEPT ![u] = IF x < ResCap(d) THEN @ ELSE @ \ {d}]
      /\ IF method = "SCALE" /\ 2 * (div[u] - x) < delta
         THEN pc' = "rest" /\ canRelabel' = FALSE
         ELSE UNCHANGED <<pc, canRelabel>>
      /\ UNCHANGED <<ucap, lcap, dist, method>> /\ UNCHANGED <<u, delta, todo>>

Exhausted == pc = "rest" \/ (pc = "push" /\ (admissible[u] = {} \/ div[u] <= 0))

\* The labels of the nodes that u can push to.
Targets == {dist[EndNode(d)] : d \in {e \in DartsFrom(u) : ResCap(e) > 0}}

\* Variant: the label is the largest possible one.
RaisedTooFar == (CHOOSE x \in Targets : \A y \in Targets : y <= x) + 1

Raised == (CHOOSE x \in Targets : \A y \in Targets : x <= y) + 1

\* When u is lifted above the lowest node that it can push to, its own arcs to nodes of this
\* height become admissible, and so do the arcs from the nodes above.
NewlyAdmissible ==
  {d \in DartsFrom(u) : ResCap(d) > 0 /\ dist[EndNode(d)] + 1 = Raised}
    \cup {Opposite(d) : d \in {e \in DartsFrom(u) :
                               ResCap(Opposite(e)) > 0 /\ dist[EndNode(e)] = Raised + 1}}

Relabel ==
  LET new(v) == {d \in NewlyAdmissible : StartNode(d) = v}
  IN  /\ Exhausted /\ canRelabel /\ div[u] > 0
      /\ IF Targets = {} THEN failed' = TRUE /\ UNCHANGED <<dist, admissible>>
         ELSE /\ dist' = [dist EXCEPT ![u] = Raised]
              /\ failed' = (failed \/ \E v \in Nodes : new(v) \cap admissible[v] # {})
              /\ admissible' = [v \in Nodes |-> admissible[v] \cup new(v)]
      /\ Q' = Q \cup {u}
      /\ pc' = "select"
      /\ UNCHANGED <<ucap, lcap, flow, div, method, lower, upper>>
      /\ UNCHANGED <<u, canRelabel, delta, todo>>

\* u leaves the active nodes.  When it was the last one, excess scaling begins a phase.
Retire ==
  /\ Exhausted /\ ~(canRelabel /\ div[u] > 0)
  /\ IF method = "SCALE" /\ Q = {} /\ delta > 2
     THEN delta' = (delta + 1) \div 2 /\ Q' = Crowded(delta')
     ELSE UNCHANGED <<delta, Q>>
  /\ pc' = "select"
  /\ UNCHANGED <<ucap, lcap, flow, div, dist, method, lower, upper, failed>>
  /\ UNCHANGED <<admissible, u, canRelabel, todo>>

PreflowEnd ==
  /\ pc = "select" /\ Q = {}
  /\ pc' = "search"
  /\ UNCHANGED <<ucap, lcap, flow, div, dist, method, lower, upper, failed>>
  /\ UNCHANGED local

PreflowStep ==
  \/ PreflowStart \/ Saturate \/ Activate \/ Select \/ Relabel \/ Retire \/ PreflowEnd
  \/ \E d \in Darts : Skip(d) \/ PushAlong(d)

-----------------------------------------------------------------------------
Working == pc \in {"select", "push", "rest"}

\* A residual arc never goes down more than one step, and the source stays above all
\* arcs: no flow can reach the target from the height N.
LabelsAreValid ==
  Working =>
    /\ Legal
    /\ dist[s] = N /\ dist[t] = 0
    /\ \A d \in Darts : ResCap(d) > 0 => dist[StartNode(d)] <= dist[EndNode(d)] + 1

\* No flow gets past the labels: at any time, all arcs out of some set of nodes around the
\* source are saturated, although the flow into this set need not be balanced yet.
SourceIsCutOff ==
  Working => \E S \in SUBSET Nodes :
               /\ s \in S /\ t \notin S
               /\ \A d \in Darts : StartNode(d) \in S /\ EndNode(d) \notin S => ResCap(d) = 0

\* Excess scaling lets go of a node or an arc when the next node is full: it finds them
\* again in the next phase, or when it lifts the node.  The other methods may not lose sight
\* of any work: between two discharges, the active nodes are those with an excess; only the
\* node that is discharged is an exception.  Every admissible arc is in the queue of its
\* start node.  And they do not put a node or an arc into a queue where it already is.
WorkIsKnown ==
  Working /\ method # "SCALE" =>
    /\ ~failed
    /\ \A v \in Inner \ (IF pc = "select" THEN {} ELSE {u}) : v \in Q <=> div[v] > 0
    /\ \A d \in Darts : IsAdmissible(d) /\ StartNode(d) \in Inner
                          => d \in admissible[StartNode(d)]

\* In a network with parallel arcs, excess scaling may put an arc into a queue where it
\* already is: a node that has skipped one of two parallel arcs is lifted to the label that it
\* has, so that the arcs from the nodes above are entered again.
NothingIsEnteredTwice == Working => ~failed
=============================================================================
