---------------------------- MODULE MaxFlow_proofs ----------------------------
(***************************************************************************)
(* Proofs about maximum and minimum cost flows in every network.           *)
(*                                                                         *)
(* The labels stay valid whatever node is discharged next (PreflowInv), so *)
(* that they show a cut which separates the source from the target at any  *)
(* time.  The methods that push all they can know their work (WorkInv): a  *)
(* node with an excess is active, and an admissible arc is in a queue; the *)
(* arcs in a queue can carry flow and go down one step at most, so that    *)
(* none is entered again when its node is lifted.  A node with an excess   *)
(* always has somewhere to push, since the capacities around it would let  *)
(* the flow on (ExcessIsReal); this holds from the start, where there is   *)
(* an st-flow, and needs sums over arcs, which are treated by induction on *)
(* finite sets.  So at the end there is an st-flow and a saturated cut;    *)
(* no flow is larger than a cut (ValueIsBounded), the search for the check *)
(* finds a saturated one (DepthIsCut), and the flow is maximum.            *)
(*                                                                         *)
(* The methods that augment along paths keep an st-flow between two        *)
(* augmentations (AugmentInv); the search that fails labels a saturated    *)
(* cut, so that their flow is maximum as well.  In the layered network of  *)
(* Dinic's method the degrees count the arcs that are not dead (LayerInv), *)
(* so that exactly the nodes are blocked that no path leads to.            *)
(*                                                                         *)
(* The minimum cost flow methods that augment along cheapest paths keep    *)
(* complementary slackness (CheapInv): the paths consist of arcs of        *)
(* reduced length zero after the update of the potentials.                 *)
(* Potentials bound the weight of every flow from below (DualIsBound), and *)
(* a flow with complementary slackness attains its bound, so that these    *)
(* methods end with a cheapest flow (CostInv); a search that fails has     *)
(* found a set of nodes that lacks more than can be sent to it.            *)
(***************************************************************************)
EXTENDS MinCostFlow, FiniteSetTheorems, WellFoundedInduction, TLAPS

PreflowPlaces == {"start", "saturate", "select", "push", "rest", "search", "verify", "done"}

\* The values of the variables of a push and relabel method.
Typed ==
  /\ ucap \in [Arcs -> Int] /\ lcap \in [Arcs -> Int] /\ flow \in [Arcs -> Int]
  /\ div \in [Nodes -> Int] /\ dist \in [Nodes -> Nat] /\ delta \in Nat
  /\ Q \subseteq Inner
  /\ admissible \in [Nodes -> SUBSET Darts]
  /\ \A v \in Nodes : admissible[v] \subseteq DartsFrom(v)
  /\ pc \in {"push", "rest"} => u \in Inner

\* While the arcs of the source are saturated, all other labels are zero.
Saturating ==
  pc = "saturate" =>
    /\ todo \subseteq DartsFrom(s)
    /\ dist = [v \in Nodes |-> IF v = s THEN N ELSE 0]
    /\ \A d \in DartsFrom(s) \ todo : ResCap(d) = 0

\* The labels and the residual capacities.
Labelled ==
  /\ dist[s] = N /\ dist[t] = 0
  /\ \A d \in Darts : ResCap(d) > 0 => dist[StartNode(d)] <= dist[EndNode(d)] + 1

NeverNegative == \A d \in Darts : ResCap(d) >= 0

\* The inductive invariant.  The other methods never get to the places of these ones.
PreflowInv ==
  \/ method \in Augmentations /\ pc \notin {"saturate", "select", "push", "rest"}
  \/ /\ method \in Preflows /\ pc \in PreflowPlaces
     /\ pc \in {"start", "saturate"} \/ Working =>
          Typed /\ NeverNegative /\ Saturating /\ (Working => Labelled)

-----------------------------------------------------------------------------
\* The ends of a dart.
LEMMA DartEnds ==
  ASSUME NEW d \in Darts
  PROVE  /\ StartNode(d) \in Nodes /\ EndNode(d) \in Nodes /\ StartNode(d) # EndNode(d)
         /\ Opposite(d) \in Darts /\ Opposite(d) # d /\ Opposite(Opposite(d)) = d
         /\ StartNode(Opposite(d)) = EndNode(d) /\ EndNode(Opposite(d)) = StartNode(d)
<1>1. PICK a \in Arcs, i \in {0, 1} : d = <<a, i>>
  BY DEF Darts
<1>2. Opposite(d) = <<a, 1 - i>> /\ 1 - i \in {0, 1} /\ 1 - i # i /\ 1 - (1 - i) = i
  BY <1>1 DEF Opposite
<1>3. Opposite(Opposite(d)) = <<a, i>>
  BY <1>2 DEF Opposite
<1>4. From[a] \in Nodes /\ To[a] \in Nodes /\ From[a] # To[a]
  BY GraphType, TerminalsType, NoLoops
<1>5. /\ StartNode(d) = IF i = 0 THEN From[a] ELSE To[a]
      /\ EndNode(d) = IF i = 0 THEN To[a] ELSE From[a]
  BY <1>1, <1>2 DEF StartNode, EndNode
<1> QED
  BY <1>1, <1>2, <1>3, <1>4, <1>5 DEF Darts, EndNode

\* The flow is within the bounds if and only if no residual capacity is negative.
LEMMA LegalIsResidual ==
  ASSUME ucap \in [Arcs -> Int], lcap \in [Arcs -> Int], flow \in [Arcs -> Int]
  PROVE  Legal <=> NeverNegative
<1>1. \A a \in Arcs : /\ <<a, 0>> \in Darts /\ <<a, 1>> \in Darts
                      /\ ResCap(<<a, 0>>) = ucap[a] - flow[a]
                      /\ ResCap(<<a, 1>>) = flow[a] - lcap[a]
  BY DEF Darts, ResCap, Capacity
<1>2. ASSUME Legal, NEW d \in Darts PROVE ResCap(d) >= 0
  <2>1. PICK a \in Arcs, i \in {0, 1} : d = <<a, i>>
    BY DEF Darts
  <2>2. lcap[a] <= flow[a] /\ flow[a] <= ucap[a] /\ {lcap[a], flow[a], ucap[a]} \subseteq Int
    BY <1>2 DEF Legal
  <2> QED
    BY <2>1, <2>2 DEF ResCap, Capacity
<1>3. ASSUME NeverNegative, NEW a \in Arcs PROVE lcap[a] <= flow[a] /\ flow[a] <= ucap[a]
  <2>1. ucap[a] - flow[a] >= 0 /\ flow[a] - lcap[a] >= 0
    BY <1>1, <1>3 DEF NeverNegative
  <2> QED
    BY <2>1
<1> QED
  BY <1>2, <1>3 DEF Legal, NeverNegative

\* What a push does to the residual capacities.
LEMMA PushResidual ==
  ASSUME ucap \in [Arcs -> Int], lcap \in [Arcs -> Int], flow \in [Arcs -> Int],
         UNCHANGED <<ucap, lcap>>,
         NEW d \in Darts, NEW x \in Int, flow' = Pushed(flow, d, x)
  PROVE  /\ flow' \in [Arcs -> Int]
         /\ ResCap(d)' = ResCap(d) - x
         /\ ResCap(Opposite(d))' = ResCap(Opposite(d)) + x
         /\ \A e \in Darts \ {d, Opposite(d)} : ResCap(e)' = ResCap(e)
<1>1. PICK a \in Arcs, i \in {0, 1} : d = <<a, i>>
  BY DEF Darts
<1>2. flow' = [flow EXCEPT ![a] = IF i = 0 THEN @ + x ELSE @ - x]
  BY <1>1 DEF Pushed
<1>3. flow' \in [Arcs -> Int] /\ flow'[a] = (IF i = 0 THEN flow[a] + x ELSE flow[a] - x)
  BY <1>2
<1>4. ResCap(d) \in Int /\ ResCap(d)' = ResCap(d) - x
  BY <1>1, <1>3 DEF ResCap, Capacity
<1>5. ResCap(Opposite(d))' = ResCap(Opposite(d)) + x
  BY <1>1, <1>3 DEF ResCap, Capacity, Opposite
<1>6. ASSUME NEW e \in Darts \ {d, Opposite(d)}
      PROVE  ResCap(e)' = ResCap(e)
  <2>1. PICK b \in Arcs, j \in {0, 1} : e = <<b, j>>
    BY DEF Darts
  <2>2. b # a
    <3>1. Opposite(d) = <<a, 1 - i>>
      BY <1>1 DEF Opposite
    <3> QED
      BY <1>1, <2>1, <3>1
  <2>3. flow'[b] = flow[b]
    BY <1>2, <2>2
  <2> QED
    BY <2>1, <2>3 DEF ResCap, Capacity
<1> QED
  BY <1>3, <1>4, <1>5, <1>6

LEMMA ResCapInt ==
  ASSUME ucap \in [Arcs -> Int], lcap \in [Arcs -> Int], flow \in [Arcs -> Int],
         NEW d \in Darts
  PROVE  ResCap(d) \in Int
  BY DEF ResCap, Capacity, Darts

\* A push keeps the divergences integers.
LEMMA PushTyped ==
  ASSUME div \in [Nodes -> Int], NEW d \in Darts, NEW x \in Int, Push(d, x)
  PROVE  div' \in [Nodes -> Int]
  BY DartEnds DEF Push

-----------------------------------------------------------------------------
LEMMA InitPreflow == Init => PreflowInv
<1> SUFFICES ASSUME Init PROVE PreflowInv
  OBVIOUS
<1>1. CASE method \in Augmentations
  BY <1>1 DEF Init, PreflowInv
<1>2. CASE method \in Preflows
  <2>1. AllCaps \subseteq Int /\ LowCaps \subseteq Int
    BY CapsType DEF AllCaps
  <2>2. ucap \in [Arcs -> Int]
    BY <2>1 DEF Init, UpperBounds
  <2>3. lcap \in [Arcs -> Int]
    BY <2>1 DEF Init
  <2>4. flow \in [Arcs -> Int]
    BY DEF Init, Amounts
  <2>5. dist \in [Nodes -> Nat]
    BY GraphType, TerminalsType DEF Init, NoNode
  <2>6. Typed
    BY <2>2, <2>3, <2>4, <2>5 DEF Init, Typed
  <2>7. NeverNegative
    BY <2>2, <2>3, <2>4, LegalIsResidual DEF Init
  <2> QED
    BY <1>2, <2>6, <2>7 DEF Init, PreflowInv, PreflowPlaces, Saturating, Working
<1> QED
  BY <1>1, <1>2, MethodsType DEF Init

\* The steps of the other methods are not enabled.
LEMMA AugmentingMethod ==
  ASSUME PreflowInv, AugmentingStep
  PROVE  method \in Augmentations /\ method' = method
<1>1. method' = method
  BY DEF AugmentingStep, AugmentStart, Interrupt, Explore, AugmentAlong, Rescale, Finish,
         BuildLayers, FindPath, Block, EndPhase, network
<1>2. method \notin Preflows \/ pc \notin {"explored", "block"}
  BY DEF PreflowInv, PreflowPlaces, Preflows, Augmentations
<1> QED
  BY <1>1, <1>2 DEF AugmentingStep, AugmentStart, Interrupt, Explore, AugmentAlong,
     Rescale, Finish, BuildLayers, FindPath, Block, EndPhase, PreflowInv,
     Preflows, Augmentations

LEMMA AugmentingPreserves ==
  ASSUME PreflowInv, AugmentingStep, UNCHANGED local
  PROVE  PreflowInv'
<1>1. method \in Augmentations /\ method' = method
  BY AugmentingMethod
<1>2. pc' \in {"search", "stopped", "explored", "verify", "block"} \/ pc' = pc
  BY DEF AugmentingStep, AugmentStart, Interrupt, Explore, AugmentAlong, Rescale, Finish,
         BuildLayers, FindPath, Block, EndPhase, network
<1> QED
  BY <1>1, <1>2 DEF PreflowInv, Preflows, Augmentations

LEMMA FinalStepsPreserve ==
  ASSUME PreflowInv, Search \/ Verify \/ UNCHANGED vars
  PROVE  PreflowInv'
<1>1. CASE UNCHANGED vars
  BY <1>1 DEF vars, network, local, paths, PreflowInv, Typed, Saturating, Labelled, NeverNegative,
              ResCap, Capacity, Working
<1>2. CASE (Search \/ Verify) /\ method \in Augmentations
  BY <1>2 DEF Search, Verify, PreflowInv, Preflows, Augmentations
<1>3. CASE (Search \/ Verify) /\ method \in Preflows
  BY <1>3 DEF Search, Verify, PreflowInv, PreflowPlaces, Working
<1> QED
  BY <1>1, <1>2, <1>3 DEF PreflowInv

-----------------------------------------------------------------------------
\* The places where the invariant says something about the flow.
InPreflow == pc \in {"start", "saturate"} \/ Working

Core == Typed /\ NeverNegative /\ Saturating /\ (Working => Labelled)

\* The frame of a step of a push and relabel method.
LEMMA CoreSuffices ==
  ASSUME method \in Preflows, method' = method, pc' \in PreflowPlaces, InPreflow' => Core'
  PROVE  PreflowInv'
  BY DEF PreflowInv, InPreflow, Core

LEMMA CoreHolds ==
  ASSUME PreflowInv, method \in Preflows, InPreflow
  PROVE  Core
  BY DEF PreflowInv, InPreflow, Core, Preflows, Augmentations

LEMMA StartPreserves ==
  ASSUME PreflowInv, PreflowStart
  PROVE  PreflowInv'
<1>1. Core
  BY CoreHolds DEF PreflowStart, InPreflow
<1>2. Typed'
  <2>1. dist' \in [Nodes -> Nat]
    BY GraphType, TerminalsType DEF PreflowStart
  <2> QED
    BY <1>1, <2>1 DEF Core, Typed, PreflowStart, DartsFrom
<1>3. NeverNegative'
  BY <1>1 DEF Core, NeverNegative, PreflowStart, ResCap, Capacity
<1>4. Saturating' /\ ~Working'
  BY DEF PreflowStart, Saturating, DartsFrom, Working
<1> QED
  BY <1>2, <1>3, <1>4, CoreSuffices DEF Core, PreflowStart, PreflowPlaces

\* An arc of the source is saturated; its reverse arc does not start at the source.
LEMMA SaturatePreserves ==
  ASSUME PreflowInv, Saturate
  PROVE  PreflowInv'
<1>1. Core
  BY CoreHolds DEF Saturate, InPreflow, PreflowInv, Augmentations, Preflows
<1>2. PICK d \in todo : Push(d, ResCap(d)) /\ todo' = todo \ {d}
  BY DEF Saturate
<1>3. d \in Darts /\ StartNode(d) = s /\ todo \subseteq DartsFrom(s)
  BY <1>1, <1>2 DEF Core, Saturating, Saturate, DartsFrom
<1>4. ResCap(d) \in Int /\ ResCap(d) >= 0
  BY <1>1, <1>3, ResCapInt DEF Core, Typed, NeverNegative
<1>5. /\ flow' \in [Arcs -> Int] /\ ResCap(d)' = 0
      /\ ResCap(Opposite(d))' = ResCap(Opposite(d)) + ResCap(d)
      /\ \A e \in Darts \ {d, Opposite(d)} : ResCap(e)' = ResCap(e)
  <2>1. flow' = Pushed(flow, d, ResCap(d)) /\ UNCHANGED <<ucap, lcap>>
    BY <1>2 DEF Push, Saturate
  <2> QED
    BY <2>1, <1>1, <1>3, <1>4, PushResidual DEF Core, Typed
<1>6. Typed'
  <2>1. div' \in [Nodes -> Int]
    BY <1>1, <1>2, <1>3, <1>4, PushTyped DEF Core, Typed
  <2> QED
    BY <1>1, <1>5, <2>1 DEF Core, Typed, Saturate, DartsFrom
<1>7. NeverNegative'
  <2>1. Opposite(d) \in Darts /\ ResCap(Opposite(d)) \in Int /\ ResCap(Opposite(d)) >= 0
    BY <1>1, <1>3, DartEnds, ResCapInt DEF Core, Typed, NeverNegative
  <2> QED
    BY <1>1, <1>4, <1>5, <2>1 DEF Core, NeverNegative
<1>8. Saturating' /\ ~Working'
  <2>1. Opposite(d) \notin DartsFrom(s)
    BY <1>3, DartEnds DEF DartsFrom
  <2>2. \A e \in DartsFrom(s) \ todo' : ResCap(e)' = 0
    BY <1>1, <1>2, <1>5, <2>1 DEF Core, Saturating, Saturate, DartsFrom
  <2>3. todo' \subseteq DartsFrom(s)' /\ DartsFrom(s)' = DartsFrom(s)
    BY <1>2, <1>3 DEF DartsFrom
  <2> QED
    BY <1>1, <2>2, <2>3 DEF Core, Saturating, Saturate, Working
<1> QED
  BY <1>6, <1>7, <1>8, CoreSuffices
     DEF Core, Saturate, PreflowPlaces, PreflowInv, Augmentations, Preflows

\* When all arcs of the source are saturated, the labels are valid.
LEMMA ActivatePreserves ==
  ASSUME PreflowInv, Activate
  PROVE  PreflowInv'
<1>1. Core /\ method \in Preflows
  BY CoreHolds DEF Activate, InPreflow, PreflowInv, Augmentations, Preflows
<1>2. Typed'
  <2>1. delta' \in Nat
    <3>1. CASE method = "SCALE"
      <4>1. PICK x \in {0} \cup {div[v] : v \in Inner} : IsLargestExcess(x) /\ delta' = x
        BY <3>1 DEF Activate
      <4>2. x \in Int /\ x >= 0
        BY <1>1, <4>1 DEF Core, Typed, Inner, IsLargestExcess
      <4> QED
        BY <4>1, <4>2
    <3>2. CASE method # "SCALE"
      BY <3>2 DEF Activate
    <3> QED
      BY <3>1, <3>2
  <2>2. Q' \subseteq Inner
    BY DEF Activate, Crowded
  <2> QED
    BY <1>1, <2>1, <2>2 DEF Core, Typed, Activate, DartsFrom
<1>3. NeverNegative'
  BY <1>1 DEF Core, NeverNegative, Activate, ResCap, Capacity
<1>4. Labelled'
  <2>1. dist = [v \in Nodes |-> IF v = s THEN N ELSE 0]
    BY <1>1 DEF Core, Saturating, Activate
  <2>2. ASSUME NEW d \in Darts, ResCap(d) > 0
        PROVE  dist[StartNode(d)] <= dist[EndNode(d)] + 1
    <3>1. StartNode(d) # s
      BY <1>1, <2>2 DEF Core, Saturating, Activate, DartsFrom
    <3>2. dist[StartNode(d)] = 0 /\ dist[EndNode(d)] \in Nat
      BY <2>1, <3>1, DartEnds, GraphType, TerminalsType
    <3> QED
      BY <3>2
  <2>3. dist[s] = N /\ dist[t] = 0
    BY <2>1, GraphType, TerminalsType
  <2>4. dist' = dist /\ \A d \in Darts : ResCap(d)' = ResCap(d)
    BY DEF Activate, ResCap, Capacity
  <2> QED
    BY <2>2, <2>3, <2>4 DEF Labelled
<1> QED
  BY <1>1, <1>2, <1>3, <1>4, CoreSuffices DEF Core, Activate, PreflowPlaces, Saturating

\* Steps that only choose what to do next: the flow and the labels do not change.
LEMMA ChoicesPreserve ==
  ASSUME PreflowInv, Select \/ (\E d \in Darts : Skip(d)) \/ Retire
  PROVE  PreflowInv'
<1>1. Core /\ method \in Preflows /\ Working
  BY CoreHolds DEF Select, Skip, Discharging, Retire, Exhausted, InPreflow, Working, PreflowInv,
                   Augmentations, Preflows
<1>2. UNCHANGED <<ucap, lcap, flow, div, dist, method>> /\ pc' \in {"select", "push"}
  BY DEF Select, Skip, Discharging, Retire, network
<1>3. NeverNegative' /\ Labelled' /\ Saturating'
  BY <1>1, <1>2 DEF Core, NeverNegative, Labelled, Saturating, ResCap, Capacity
<1>4. Typed'
  <2>1. CASE Select
    BY <1>1, <2>1 DEF Core, Typed, Select, DartsFrom
  <2>2. ASSUME NEW d \in Darts, Skip(d) PROVE Typed'
    <3>1. u \in Nodes /\ pc' = pc
      BY <1>1, <2>2 DEF Core, Typed, Skip, Discharging, Inner, network
    <3>2. /\ admissible' \in [Nodes -> SUBSET Darts]
          /\ \A v \in Nodes : admissible'[v] \subseteq admissible[v]
      BY <1>1, <2>2, <3>1 DEF Core, Typed, Skip
    <3> QED
      BY <1>1, <1>2, <2>2, <3>1, <3>2 DEF Core, Typed, Skip, DartsFrom
  <2>3. CASE Retire
    <3>1. delta' \in Nat /\ Q' \subseteq Inner
      <4>1. CASE method = "SCALE" /\ Q = {} /\ delta > 2
        BY <1>1, <2>3, <4>1 DEF Core, Typed, Retire, Crowded
      <4>2. CASE ~(method = "SCALE" /\ Q = {} /\ delta > 2)
        BY <1>1, <2>3, <4>2 DEF Core, Typed, Retire
      <4> QED
        BY <4>1, <4>2
    <3> QED
      BY <1>1, <2>3, <3>1 DEF Core, Typed, Retire, DartsFrom
  <2> QED
    BY <2>1, <2>2, <2>3
<1> QED
  BY <1>1, <1>2, <1>3, <1>4, CoreSuffices DEF Core, PreflowPlaces

LEMMA EndPreserves ==
  ASSUME PreflowInv, PreflowEnd
  PROVE  PreflowInv'
  BY DEF PreflowInv, PreflowEnd, PreflowPlaces, Working, Augmentations, Preflows

-----------------------------------------------------------------------------
\* A push carries no more than the residual capacity.  In excess scaling, the room at the
\* end node may be negative, but then the push is too small.
LEMMA AmountIsBounded ==
  ASSUME Typed, NeverNegative, Discharging, NEW d \in admissible[u], ~TooSmall(d)
  PROVE  Amount(d) \in Int /\ 0 <= Amount(d) /\ Amount(d) <= ResCap(d)
<1>1. u \in Nodes /\ d \in Darts
  BY DEF Typed, Discharging, Inner
<1>2. div[u] \in Int /\ div[u] > 0 /\ div[EndNode(d)] \in Int /\ delta \in Nat
  BY <1>1, DartEnds DEF Typed, Discharging
<1>3. ResCap(d) \in Int /\ ResCap(d) >= 0
  BY <1>1, ResCapInt DEF Typed, NeverNegative
<1>4. PICK all \in Int : /\ all = Least(ResCap(d), div[u])
                        /\ 0 <= all /\ all <= ResCap(d)
  BY <1>2, <1>3 DEF Least
<1>5. CASE method = "SCALE" /\ EndNode(d) # t
  <2>1. Amount(d) = Least(all, delta - div[EndNode(d)])
    BY <1>4, <1>5 DEF Amount
  <2>2. Amount(d) \in Int /\ Amount(d) <= ResCap(d)
    BY <2>1, <1>2, <1>3, <1>4 DEF Least
  <2>3. ~(2 * Amount(d) < delta /\ Amount(d) < ResCap(d))
    BY <1>5 DEF TooSmall
  <2> QED
    BY <2>2, <2>3, <1>2, <1>3
<1>6. CASE ~(method = "SCALE" /\ EndNode(d) # t)
  BY <1>4, <1>6 DEF Amount
<1> QED
  BY <1>5, <1>6

\* Flow is only pushed one step down, so that the reverse arc leads one step up.
LEMMA PushPreserves ==
  ASSUME PreflowInv, NEW d \in Darts, PushAlong(d)
  PROVE  PreflowInv'
<1>1. Core /\ method \in Preflows /\ Working /\ pc = "push"
  BY CoreHolds DEF PushAlong, Discharging, InPreflow, Working, PreflowInv, Augmentations, Preflows
<1>2. u \in Inner /\ u \in Nodes /\ StartNode(d) = u /\ d \in admissible[u]
  BY <1>1 DEF Core, Typed, Inner, PushAlong, DartsFrom
<1>3. PICK x \in Int : x = Amount(d) /\ 0 <= x /\ x <= ResCap(d)
  BY <1>1, <1>2, AmountIsBounded DEF Core, PushAlong
<1>4. flow' = Pushed(flow, d, x) /\ Push(d, x) /\ UNCHANGED <<ucap, lcap, dist, method>>
  BY <1>3 DEF PushAlong, Push
<1>5. /\ flow' \in [Arcs -> Int] /\ ResCap(d)' = ResCap(d) - x
      /\ ResCap(Opposite(d))' = ResCap(Opposite(d)) + x
      /\ \A e \in Darts \ {d, Opposite(d)} : ResCap(e)' = ResCap(e)
  BY <1>1, <1>4, PushResidual DEF Core, Typed
<1>6. /\ Opposite(d) \in Darts
      /\ \A e \in {d, Opposite(d)} : ResCap(e) \in Int /\ ResCap(e) >= 0
  BY <1>1, DartEnds, ResCapInt DEF Core, Typed, NeverNegative
<1>7. Typed'
  <2>1. div' \in [Nodes -> Int]
    BY <1>1, <1>4, PushTyped DEF Core, Typed
  <2>2. Q' \subseteq Inner
    <3>1. BecomesActive(EndNode(d), x) => EndNode(d) \in Inner
      BY DEF BecomesActive
    <3> QED
      BY <1>1, <1>3, <3>1 DEF Core, Typed, PushAlong
  <2>3. /\ admissible' \in [Nodes -> SUBSET Darts]
        /\ \A v \in Nodes : admissible'[v] \subseteq admissible[v]
    BY <1>1, <1>2 DEF Core, Typed, PushAlong
  <2>4. delta' \in Nat /\ u' = u
    BY <1>1 DEF Core, Typed, PushAlong
  <2> QED
    BY <1>1, <1>2, <1>4, <1>5, <2>1, <2>2, <2>3, <2>4 DEF Core, Typed, DartsFrom
<1>8. NeverNegative'
  BY <1>1, <1>3, <1>5, <1>6 DEF Core, NeverNegative
<1>9. Labelled'
  <2>1. dist[EndNode(Opposite(d))] = dist[StartNode(Opposite(d))] + 1
    BY <1>2, DartEnds DEF PushAlong
  <2>2. \A e \in {d, Opposite(d)} : {dist[StartNode(e)], dist[EndNode(e)]} \subseteq Nat
    BY <1>1, <1>6, DartEnds DEF Core, Typed
  <2>3. ASSUME NEW e \in Darts, ResCap(e)' > 0
        PROVE  dist[StartNode(e)] <= dist[EndNode(e)] + 1
    <3>1. CASE e = Opposite(d)
      BY <2>1, <2>2, <3>1
    <3>2. CASE e = d
      <4>1. ResCap(d) > 0
        BY <1>3, <1>5, <1>6, <2>3, <3>2
      <4> QED
        BY <1>1, <3>2, <4>1 DEF Core, Labelled
    <3>3. CASE e \notin {d, Opposite(d)}
      BY <1>1, <1>5, <2>3, <3>3 DEF Core, Labelled
    <3> QED
      BY <3>1, <3>2, <3>3
  <2> QED
    BY <1>1, <1>4, <2>3 DEF Core, Labelled
<1>10. pc' \in {"push", "rest"}
  BY <1>1 DEF PushAlong
<1> QED
  BY <1>1, <1>4, <1>7, <1>8, <1>9, <1>10, CoreSuffices DEF Core, PreflowPlaces, Saturating

\* A set of natural numbers has a least element.
LEMMA LeastLabel ==
  ASSUME NEW T \in SUBSET Nat, T # {}
  PROVE  \E x \in T : \A y \in T : x <= y
<1>1. PICK x \in T : \A y \in T : ~(<<y, x>> \in OpToRel(<, Nat))
  BY NatLessThanWellFounded, WFMin
<1>2. \A y \in T : ~(y < x)
  BY <1>1 DEF OpToRel
<1> QED
  BY <1>2

\* u is lifted just as far as its residual arcs allow, and never down.
LEMMA RelabelPreserves ==
  ASSUME PreflowInv, Relabel
  PROVE  PreflowInv'
<1>1. Core /\ method \in Preflows /\ Working /\ pc \in {"push", "rest"}
  BY CoreHolds DEF Relabel, Exhausted, InPreflow, Working, PreflowInv, Augmentations, Preflows
<1>2. u \in Inner /\ u \in Nodes /\ u # s /\ u # t
  BY <1>1 DEF Core, Typed, Inner
<1>3. UNCHANGED <<ucap, lcap, flow, div, method, delta>> /\ pc' = "select"
  BY DEF Relabel
<1>4. \A d \in Darts : ResCap(d)' = ResCap(d)
  BY <1>3 DEF ResCap, Capacity
<1>5. CASE Targets = {}
  <2>1. UNCHANGED <<dist, admissible>> /\ Q' = Q \cup {u}
    BY <1>5 DEF Relabel
  <2>2. Typed'
    BY <1>1, <1>2, <1>3, <2>1 DEF Core, Typed, DartsFrom
  <2>3. NeverNegative' /\ Labelled' /\ Saturating'
    BY <1>1, <1>3, <1>4, <2>1 DEF Core, NeverNegative, Labelled, Saturating
  <2> QED
    BY <1>1, <1>3, <2>2, <2>3, CoreSuffices DEF Core, PreflowPlaces
<1>6. CASE Targets # {}
  <2>1. dist' = [dist EXCEPT ![u] = Raised] /\ Q' = Q \cup {u}
    BY <1>6 DEF Relabel
  <2>2. Targets \subseteq Nat
    BY <1>1, DartEnds DEF Core, Typed, Targets, DartsFrom
  <2>3. PICK h \in Targets : Raised = h + 1 /\ \A y \in Targets : h <= y
    BY <1>6, <2>2, LeastLabel DEF Raised
  <2>4. h \in Nat /\ dist[u] \in Nat /\ dist[u] <= h + 1
    <3>1. PICK d \in DartsFrom(u) : ResCap(d) > 0 /\ dist[EndNode(d)] = h
      BY DEF Targets
    <3>2. d \in Darts /\ StartNode(d) = u
      BY <3>1 DEF DartsFrom
    <3> QED
      BY <1>1, <1>2, <2>2, <2>3, <3>1, <3>2 DEF Core, Typed, Labelled
  <2>5. Typed'
    <3>1. dist' \in [Nodes -> Nat]
      <4>1. Raised \in Nat
        BY <2>3, <2>4
      <4> QED
        BY <1>1, <2>1, <4>1 DEF Core, Typed
    <3>2. /\ admissible' \in [Nodes -> SUBSET Darts]
          /\ \A v \in Nodes : admissible'[v] \subseteq DartsFrom(v)
      <4>1. NewlyAdmissible \subseteq Darts
        BY DartEnds DEF NewlyAdmissible, DartsFrom
      <4>2. admissible' = [v \in Nodes |->
                             admissible[v] \cup {d \in NewlyAdmissible : StartNode(d) = v}]
        BY <1>6 DEF Relabel
      <4> QED
        BY <1>1, <4>1, <4>2 DEF Core, Typed, DartsFrom
    <3> QED
      BY <1>1, <1>2, <1>3, <2>1, <3>1, <3>2 DEF Core, Typed, DartsFrom
  <2>6. Labelled'
    <3>1. ASSUME NEW d \in Darts, ResCap(d) > 0
          PROVE  dist'[StartNode(d)] <= dist'[EndNode(d)] + 1
      <4>1. /\ StartNode(d) \in Nodes /\ EndNode(d) \in Nodes
            /\ StartNode(d) # EndNode(d)
            /\ dist[StartNode(d)] \in Nat /\ dist[EndNode(d)] \in Nat
            /\ dist[StartNode(d)] <= dist[EndNode(d)] + 1
        BY <1>1, <3>1, DartEnds DEF Core, Typed, Labelled
      <4>2. CASE StartNode(d) = u
        <5>1. dist[EndNode(d)] \in Targets
          BY <3>1, <4>2 DEF Targets, DartsFrom
        <5>2. dist'[StartNode(d)] = h + 1 /\ dist'[EndNode(d)] = dist[EndNode(d)]
          BY <1>1, <2>1, <2>3, <4>1, <4>2 DEF Core, Typed
        <5> QED
          BY <2>3, <2>4, <4>1, <5>1, <5>2
      <4>3. CASE EndNode(d) = u
        <5>1. dist'[EndNode(d)] = h + 1 /\ dist'[StartNode(d)] = dist[StartNode(d)]
          BY <1>1, <2>1, <2>3, <4>1, <4>3 DEF Core, Typed
        <5> QED
          BY <2>4, <4>1, <4>3, <5>1
      <4>4. CASE StartNode(d) # u /\ EndNode(d) # u
        BY <1>1, <2>1, <4>1, <4>4 DEF Core, Typed
      <4> QED
        BY <4>2, <4>3, <4>4
    <3>2. dist'[s] = N /\ dist'[t] = 0
      BY <1>1, <1>2, <2>1, GraphType, TerminalsType DEF Core, Typed, Labelled
    <3> QED
      BY <1>4, <3>1, <3>2 DEF Labelled
  <2>7. NeverNegative' /\ Saturating'
    BY <1>1, <1>3, <1>4 DEF Core, NeverNegative, Saturating
  <2> QED
    BY <1>1, <1>3, <2>5, <2>6, <2>7, CoreSuffices DEF Core, PreflowPlaces
<1> QED
  BY <1>5, <1>6

-----------------------------------------------------------------------------
LEMMA NextPreserves ==
  ASSUME PreflowInv, [Next]_vars
  PROVE  PreflowInv'
<1>1. CASE PreflowStep
  BY <1>1, StartPreserves, SaturatePreserves, ActivatePreserves, ChoicesPreserve, PushPreserves,
     RelabelPreserves, EndPreserves DEF PreflowStep
<1>2. CASE AugmentingStep /\ UNCHANGED local
  BY <1>2, AugmentingPreserves
<1>3. CASE Search \/ Verify \/ UNCHANGED vars
  BY <1>3, FinalStepsPreserve
<1> QED
  BY <1>1, <1>2, <1>3 DEF Next

THEOREM PreflowInvariant == Spec => []PreflowInv
<1>1. Init => PreflowInv
  BY InitPreflow
<1>2. PreflowInv /\ [Next]_vars => PreflowInv'
  BY NextPreserves
<1> QED
  BY <1>1, <1>2, PTL DEF Spec

LEMMA WorkingHasCore == PreflowInv /\ Working => Core
<1> SUFFICES ASSUME PreflowInv, Working PROVE Core
  OBVIOUS
<1>1. method \in Preflows
  BY DEF PreflowInv, Working
<1> QED
  BY <1>1, CoreHolds DEF InPreflow

\* MXF_PushRelabel(): in every network, from every flow that is legal, and whatever node is
\* discharged next, the labels stay valid and the flow stays within its bounds.
THEOREM LabelsStayValid == Spec => []LabelsAreValid
<1>1. PreflowInv => LabelsAreValid
  <2> SUFFICES ASSUME PreflowInv, Working
               PROVE  Legal /\ Labelled
    BY DEF LabelsAreValid, Labelled
  <2>1. Core /\ Working
    BY WorkingHasCore
  <2> QED
    BY <2>1, LegalIsResidual DEF Core, Typed
<1> QED
  BY <1>1, PreflowInvariant, PTL

\* There are more labels between those of the target and of the source than inner nodes.
LEMMA SomeLabelIsMissing ==
  ASSUME Typed
  PROVE  \E k \in 1 .. N - 1 : \A v \in Inner : dist[v] # k
<1> SUFFICES ASSUME \A k \in 1 .. N - 1 : \E v \in Inner : dist[v] = k
             PROVE  FALSE
  OBVIOUS
<1>1. N \in Nat /\ N > 1
  BY GraphType, TerminalsType DEF Nodes
<1>2. IsFiniteSet(Inner) /\ Cardinality(Inner) = N - 2
  <2>1. IsFiniteSet(Nodes) /\ Cardinality(Nodes) = N
    BY <1>1, FS_Interval DEF Nodes
  <2>2. IsFiniteSet(Nodes \ {s}) /\ Cardinality(Nodes \ {s}) = N - 1
    BY <2>1, GraphType, TerminalsType, FS_RemoveElement
  <2>3. IsFiniteSet((Nodes \ {s}) \ {t}) /\ Cardinality((Nodes \ {s}) \ {t}) = (N - 1) - 1
    BY <2>2, GraphType, TerminalsType, FS_RemoveElement
  <2>4. Inner = (Nodes \ {s}) \ {t}
    BY DEF Inner
  <2> QED
    BY <1>1, <2>3, <2>4
<1>3. IsFiniteSet(1 .. N - 1) /\ Cardinality(1 .. N - 1) = N - 1
  BY <1>1, FS_Interval
<1> DEFINE g == [k \in 1 .. N - 1 |-> CHOOSE v \in Inner : dist[v] = k]
<1>4. \A k \in 1 .. N - 1 : g[k] \in Inner /\ dist[g[k]] = k
  OBVIOUS
<1>5. g \in Injection(1 .. N - 1, Inner)
  BY <1>4 DEF Injection, IsInjective
<1>6. N - 1 <= N - 2
  BY <1>2, <1>3, <1>5, FS_Injection
<1> QED
  BY <1>1, <1>6

\* The set of nodes above a label that no node has is left by no residual arc.
LEMMA CutExists == PreflowInv => SourceIsCutOff
<1> SUFFICES ASSUME PreflowInv, Working
             PROVE  \E S \in SUBSET Nodes :
                      /\ s \in S /\ t \notin S
                      /\ \A d \in Darts :
                           StartNode(d) \in S /\ EndNode(d) \notin S => ResCap(d) = 0
  BY DEF SourceIsCutOff
<1>1. Typed /\ NeverNegative /\ Labelled
  BY WorkingHasCore DEF Core
<1>2. PICK k \in 1 .. N - 1 : \A v \in Inner : dist[v] # k
  BY <1>1, SomeLabelIsMissing
<1>3. N \in Nat /\ k \in Nat /\ 0 < k /\ k < N
  BY <1>2, GraphType, TerminalsType
<1>4. \A v \in Nodes : dist[v] \in Nat /\ dist[v] # k
  BY <1>1, <1>2, <1>3 DEF Typed, Labelled, Inner
<1> DEFINE S == {v \in Nodes : dist[v] > k}
<1>5. s \in S /\ t \notin S
  BY <1>1, <1>3, GraphType, TerminalsType DEF Labelled
<1>6. ASSUME NEW d \in Darts, StartNode(d) \in S, EndNode(d) \notin S
      PROVE  ResCap(d) = 0
  <2>1. dist[StartNode(d)] > k /\ dist[EndNode(d)] < k
    BY <1>3, <1>4, <1>6, DartEnds
  <2>2. ~(dist[StartNode(d)] <= dist[EndNode(d)] + 1)
    BY <1>3, <1>4, <1>6, <2>1, DartEnds
  <2>3. ResCap(d) \in Int /\ ResCap(d) >= 0 /\ ~(ResCap(d) > 0)
    BY <1>1, <2>2, ResCapInt DEF Typed, NeverNegative, Labelled
  <2> QED
    BY <2>3
<1> QED
  BY <1>5, <1>6

\* MXF_PushRelabel(): no augmenting path ever leads from the source to the target.
THEOREM SourceStaysCutOff == Spec => []SourceIsCutOff
BY CutExists, PreflowInvariant, PTL

-----------------------------------------------------------------------------
(* Finite sums.  What is needed of induction is stated about sets, not about predicates. *)

\* A set of natural numbers that holds zero and the successors of its members holds all.
LEMMA AllNumbers ==
  ASSUME NEW B \in SUBSET Nat, 0 \in B, \A n \in B : n + 1 \in B
  PROVE  B = Nat
<1> SUFFICES ASSUME Nat \ B # {} PROVE FALSE
  OBVIOUS
<1>1. PICK n \in Nat \ B : \A m \in Nat \ B : ~(<<m, n>> \in OpToRel(<, Nat))
  BY NatLessThanWellFounded, WFMin
<1>2. n # 0 /\ n - 1 \in Nat /\ n - 1 < n /\ (n - 1) + 1 = n
  OBVIOUS
<1>3. n - 1 \notin B
  BY <1>1, <1>2
<1> QED
  BY <1>1, <1>2, <1>3 DEF OpToRel

\* Induction on the subsets of a finite set.
LEMMA AllSubsets ==
  ASSUME NEW S, IsFiniteSet(S), NEW C \in SUBSET SUBSET S,
         \A T \in SUBSET S : (\A x \in T : T \ {x} \in C) => T \in C
  PROVE  C = SUBSET S
<1>1. \A T \in SUBSET S : IsFiniteSet(T) /\ Cardinality(T) \in Nat
  BY FS_Subset, FS_CardinalityType
<1> DEFINE B == {n \in Nat : \A T \in SUBSET S : Cardinality(T) = n => T \in C}
<1>2. 0 \in B
  <2>1. \A T \in SUBSET S : Cardinality(T) = 0 => T = {}
    BY <1>1, FS_EmptySet
  <2>2. {} \in C
    OBVIOUS
  <2> QED
    BY <2>1, <2>2
<1>3. ASSUME NEW n \in B PROVE n + 1 \in B
  <2>1. ASSUME NEW T \in SUBSET S, Cardinality(T) = n + 1 PROVE T \in C
    <3>1. ASSUME NEW x \in T PROVE T \ {x} \in C
      <4>1. Cardinality(T \ {x}) = Cardinality(T) - 1
        BY <1>1, FS_RemoveElement
      <4>2. Cardinality(T \ {x}) = n
        BY <2>1, <4>1
      <4> QED
        BY <4>2
    <3> QED
      BY <3>1
  <2> QED
    BY <2>1
<1>4. B = Nat
  <2> HIDE DEF B
  <2>1. B \in SUBSET Nat
    BY DEF B
  <2> QED
    BY <1>2, <1>3, <2>1, AllNumbers
<1>5. ASSUME NEW T \in SUBSET S PROVE T \in C
  <2>1. Cardinality(T) \in B
    BY <1>1, <1>4
  <2> QED
    BY <2>1
<1> QED
  BY <1>5

\* The element that is added next.
Chosen(X) == CHOOSE x \in X : TRUE

SumStep(f, g, X) == IF X = {} THEN 0 ELSE f[Chosen(X)] + g[X \ {Chosen(X)}]

IsSumOf(f, S, g) == g = [X \in SUBSET S |-> SumStep(f, g, X)]

LEMMA SumIsRecursive ==
  ASSUME NEW f, NEW S
  PROVE  Sum(f, S) = (CHOOSE g : IsSumOf(f, S, g))[S]
BY Zenon DEF Sum, MapThenSumSet, MapThenFoldSet, IsSumOf, SumStep, Chosen

LEMMA ChosenIsMember ==
  ASSUME NEW X, X # {}
  PROVE  Chosen(X) \in X
BY DEF Chosen

\* The sums over all subsets with at most n elements exist, for every n.
LEMMA SumExists ==
  ASSUME NEW f, NEW S, IsFiniteSet(S)
  PROVE  \E g : IsSumOf(f, S, g)
<1>1. \A T \in SUBSET S : IsFiniteSet(T) /\ Cardinality(T) \in Nat
  BY FS_Subset, FS_CardinalityType
<1> DEFINE Small(n) == {X \in SUBSET S : Cardinality(X) <= n}
           B == {n \in Nat : \E g : g = [X \in Small(n) |-> SumStep(f, g, X)]}
<1>2. 0 \in B
  <2>1. Small(0) = {{}}
    <3>1. \A X \in SUBSET S : Cardinality(X) <= 0 => X = {}
      BY <1>1, FS_EmptySet
    <3> QED
      BY <3>1, FS_EmptySet
  <2> DEFINE g == [X \in Small(0) |-> 0]
  <2>2. g = [X \in Small(0) |-> SumStep(f, g, X)]
    BY <2>1 DEF SumStep
  <2> QED
    BY <2>2
<1>3. ASSUME NEW n \in B PROVE n + 1 \in B
  <2>1. PICK g : g = [X \in Small(n) |-> SumStep(f, g, X)]
    OBVIOUS
  <2> DEFINE h == [X \in Small(n + 1) |-> SumStep(f, g, X)]
  <2>2. ASSUME NEW X \in Small(n + 1) PROVE SumStep(f, g, X) = SumStep(f, h, X)
    <3>1. CASE X = {}
      BY <3>1 DEF SumStep
    <3>2. CASE X # {}
      <4> DEFINE Y == X \ {Chosen(X)}
      <4>1. Chosen(X) \in X
        BY <3>2, ChosenIsMember
      <4>2. Cardinality(Y) = Cardinality(X) - 1 /\ Y \in SUBSET S
        BY <1>1, <4>1, FS_RemoveElement
      <4>3. Y \in Small(n) /\ Y \in Small(n + 1)
        BY <1>1, <4>2
      <4>4. g[Y] = SumStep(f, g, Y)
        BY <2>1, <4>3
      <4>5. h[Y] = g[Y]
        BY <4>3, <4>4
      <4> QED
        BY <3>2, <4>5 DEF SumStep
    <3> QED
      BY <3>1, <3>2
  <2>3. h = [X \in Small(n + 1) |-> SumStep(f, h, X)]
    <3> HIDE DEF Small
    <3> QED
      BY <2>2, Zenon
  <2>4. n + 1 \in Nat
    OBVIOUS
  <2> HIDE DEF h, Small
  <2> QED
    BY <2>3, <2>4
<1>4. Cardinality(S) \in B
  <2> HIDE DEF B
  <2>1. B \in SUBSET Nat
    BY DEF B
  <2>2. B = Nat
    BY <1>2, <1>3, <2>1, AllNumbers
  <2> QED
    BY <1>1, <2>2
<1>5. Small(Cardinality(S)) = SUBSET S
  BY FS_Subset
<1> HIDE DEF Small
<1> QED
  BY <1>4, <1>5 DEF IsSumOf
\* Whatever set a sum is taken over, its parts are the same.
LEMMA SumIsUnique ==
  ASSUME NEW f, NEW S, IsFiniteSet(S), NEW T \in SUBSET S,
         NEW g, IsSumOf(f, S, g), NEW h, IsSumOf(f, T, h)
  PROVE  h[T] = g[T]
<1> DEFINE C == {X \in SUBSET T : h[X] = g[X]}
<1>1. ASSUME NEW X \in SUBSET T, \A x \in X : X \ {x} \in C
      PROVE  X \in C
  <2>1. h[X] = SumStep(f, h, X) /\ g[X] = SumStep(f, g, X)
    BY DEF IsSumOf
  <2>2. CASE X = {}
    BY <2>1, <2>2 DEF SumStep
  <2>3. CASE X # {}
    <3>1. X \ {Chosen(X)} \in C
      BY <1>1, <2>3, ChosenIsMember
    <3> QED
      BY <2>1, <2>3, <3>1 DEF SumStep
  <2> QED
    BY <2>2, <2>3
<1>2. IsFiniteSet(T)
  BY FS_Subset
<1> HIDE DEF C
<1>3. C \in SUBSET SUBSET T
  BY DEF C
<1>4. C = SUBSET T
  BY <1>1, <1>2, <1>3, AllSubsets
<1> QED
  BY <1>4 DEF C

\* The recursion: an element is added to the sum over the others.
LEMMA SumChosen ==
  ASSUME NEW f, NEW S, IsFiniteSet(S)
  PROVE  Sum(f, S) = IF S = {} THEN 0 ELSE f[Chosen(S)] + Sum(f, S \ {Chosen(S)})
<1> DEFINE g == CHOOSE g : IsSumOf(f, S, g)
<1>1. IsSumOf(f, S, g) /\ Sum(f, S) = g[S]
  BY SumExists, SumIsRecursive
<1>2. g[S] = SumStep(f, g, S)
  BY <1>1 DEF IsSumOf
<1>3. CASE S = {}
  BY <1>1, <1>2, <1>3 DEF SumStep
<1>4. CASE S # {}
  <2> DEFINE T == S \ {Chosen(S)}
             h == CHOOSE h : IsSumOf(f, T, h)
  <2>1. IsFiniteSet(T) /\ T \in SUBSET S
    BY FS_RemoveElement
  <2>2. IsSumOf(f, T, h) /\ Sum(f, T) = h[T]
    BY <2>1, SumExists, SumIsRecursive
  <2>3. h[T] = g[T]
    <3> HIDE DEF g, h, T
    <3> QED
      BY <1>1, <2>1, <2>2, SumIsUnique
  <2> HIDE DEF g, h
  <2> QED
    BY <1>1, <1>2, <1>4, <2>2, <2>3 DEF SumStep
<1> QED
  BY <1>3, <1>4

LEMMA SumOfNothing == \A f : Sum(f, {}) = 0
BY SumChosen, FS_EmptySet

LEMMA SumIsInteger ==
  ASSUME NEW f, NEW S, IsFiniteSet(S), \A a \in S : f[a] \in Int
  PROVE  Sum(f, S) \in Int
<1> DEFINE C == {T \in SUBSET S : Sum(f, T) \in Int}
<1>1. ASSUME NEW T \in SUBSET S, \A x \in T : T \ {x} \in C
      PROVE  T \in C
  <2>1. IsFiniteSet(T)
    BY FS_Subset
  <2>2. CASE T = {}
    BY <2>2, SumOfNothing
  <2>3. CASE T # {}
    <3>1. Chosen(T) \in T /\ T \ {Chosen(T)} \in C
      BY <1>1, <2>3, ChosenIsMember
    <3>2. Sum(f, T) = f[Chosen(T)] + Sum(f, T \ {Chosen(T)})
      BY <2>1, <2>3, SumChosen
    <3> QED
      BY <3>1, <3>2
  <2> QED
    BY <2>2, <2>3
<1> HIDE DEF C
<1>2. C = SUBSET S
  <2>1. C \in SUBSET SUBSET S
    BY DEF C
  <2> QED
    BY <1>1, <2>1, AllSubsets
<1> QED
  BY <1>2 DEF C

\* The order does not matter: any element may be the last one.
LEMMA SumWithout ==
  ASSUME NEW f, NEW S, IsFiniteSet(S), \A a \in S : f[a] \in Int, NEW a \in S
  PROVE  Sum(f, S) = f[a] + Sum(f, S \ {a})
<1> DEFINE C == {T \in SUBSET S : \A x \in T : Sum(f, T) = f[x] + Sum(f, T \ {x})}
<1>1. ASSUME NEW T \in SUBSET S, \A x \in T : T \ {x} \in C
      PROVE  T \in C
  <2>1. IsFiniteSet(T) /\ \A X \in SUBSET T : Sum(f, X) \in Int
    BY FS_Subset, SumIsInteger
  <2> SUFFICES ASSUME NEW x \in T PROVE Sum(f, T) = f[x] + Sum(f, T \ {x})
    OBVIOUS
  <2> DEFINE c == Chosen(T)
  <2>2. c \in T /\ Sum(f, T) = f[c] + Sum(f, T \ {c})
    BY <2>1, SumChosen, ChosenIsMember
  <2>3. CASE x = c
    BY <2>2, <2>3
  <2>4. CASE x # c
    <3>1. Sum(f, T \ {c}) = f[x] + Sum(f, (T \ {c}) \ {x})
      BY <1>1, <2>2, <2>4
    <3>2. Sum(f, T \ {x}) = f[c] + Sum(f, (T \ {x}) \ {c})
      BY <1>1, <2>2, <2>4
    <3>3. (T \ {c}) \ {x} = (T \ {x}) \ {c}
      OBVIOUS
    <3> HIDE DEF c
    <3>4. PICK r \in Int : r = Sum(f, (T \ {x}) \ {c})
      BY <2>1, <2>2
    <3>5. Sum(f, T \ {c}) = f[x] + r
      BY <3>1, <3>3, <3>4
    <3>6. Sum(f, T \ {x}) = f[c] + r
      BY <3>2, <3>4
    <3> QED
      BY <2>2, <3>5, <3>6
  <2> QED
    BY <2>3, <2>4
<1> HIDE DEF C
<1>2. C = SUBSET S
  <2>1. C \in SUBSET SUBSET S
    BY DEF C
  <2> QED
    BY <1>1, <2>1, AllSubsets
<1> QED
  BY <1>2 DEF C
LEMMA SumOfEqual ==
  ASSUME NEW f, NEW g, NEW S, IsFiniteSet(S), \A a \in S : f[a] = g[a]
  PROVE  Sum(f, S) = Sum(g, S)
<1> DEFINE C == {T \in SUBSET S : Sum(f, T) = Sum(g, T)}
<1>1. ASSUME NEW T \in SUBSET S, \A x \in T : T \ {x} \in C
      PROVE  T \in C
  <2>1. IsFiniteSet(T)
    BY FS_Subset
  <2>2. CASE T = {}
    BY <2>2, SumOfNothing
  <2>3. CASE T # {}
    <3>1. Chosen(T) \in T /\ T \ {Chosen(T)} \in C
      BY <1>1, <2>3, ChosenIsMember
    <3>2. Sum(f, T) = f[Chosen(T)] + Sum(f, T \ {Chosen(T)})
      BY <2>1, <2>3, SumChosen
    <3>3. Sum(g, T) = g[Chosen(T)] + Sum(g, T \ {Chosen(T)})
      BY <2>1, <2>3, SumChosen
    <3> QED
      BY <3>1, <3>2, <3>3
  <2> QED
    BY <2>2, <2>3
<1> HIDE DEF C
<1>2. C = SUBSET S
  <2>1. C \in SUBSET SUBSET S
    BY DEF C
  <2> QED
    BY <1>1, <2>1, AllSubsets
<1> QED
  BY <1>2 DEF C

LEMMA SumOfLess ==
  ASSUME NEW f, NEW g, NEW S, IsFiniteSet(S),
         \A a \in S : f[a] \in Int /\ g[a] \in Int /\ f[a] <= g[a]
  PROVE  Sum(f, S) <= Sum(g, S)
<1> DEFINE C == {T \in SUBSET S : Sum(f, T) <= Sum(g, T)}
<1>1. ASSUME NEW T \in SUBSET S, \A x \in T : T \ {x} \in C
      PROVE  T \in C
  <2>1. IsFiniteSet(T)
    BY FS_Subset
  <2>2. CASE T = {}
    BY <2>2, SumOfNothing
  <2>3. CASE T # {}
    <3>1. PICK c \in T : c = Chosen(T) /\ T \ {c} \in C
      BY <1>1, <2>3, ChosenIsMember
    <3>2. Sum(f, T) = f[c] + Sum(f, T \ {c}) /\ Sum(g, T) = g[c] + Sum(g, T \ {c})
      BY <2>1, <2>3, <3>1, SumChosen
    <3>3. Sum(f, T \ {c}) \in Int /\ Sum(g, T \ {c}) \in Int
      BY <2>1, FS_Subset, SumIsInteger
    <3>4. f[c] \in Int /\ g[c] \in Int /\ f[c] <= g[c] /\ Sum(f, T \ {c}) <= Sum(g, T \ {c})
      BY <3>1
    <3>5. Sum(f, T) <= Sum(g, T)
      BY <3>2, <3>3, <3>4
    <3> QED
      BY <3>5
  <2> QED
    BY <2>2, <2>3
<1> HIDE DEF C
<1>2. C = SUBSET S
  <2>1. C \in SUBSET SUBSET S
    BY DEF C
  <2> QED
    BY <1>1, <2>1, AllSubsets
<1> QED
  BY <1>2 DEF C

\* When one number changes, so does the sum.
LEMMA SumOfChanged ==
  ASSUME NEW f, NEW g, NEW S, IsFiniteSet(S), NEW a \in S, NEW x \in Int,
         \A b \in S : f[b] \in Int,
         g[a] = f[a] + x, \A b \in S \ {a} : g[b] = f[b]
  PROVE  Sum(g, S) = Sum(f, S) + x
<1>1. \A b \in S : g[b] \in Int
  OBVIOUS
<1>2. IsFiniteSet(S \ {a})
  BY FS_Subset
<1>3. PICK r \in Int : r = Sum(f, S \ {a})
  BY <1>2, SumIsInteger
<1>4. Sum(g, S \ {a}) = r
  BY <1>2, <1>3, SumOfEqual
<1>5. Sum(f, S) = f[a] + r
  BY <1>3, SumWithout
<1>6. Sum(g, S) = g[a] + r
  BY <1>1, <1>4, SumWithout
<1> QED
  BY <1>5, <1>6
LEMMA SumOfUnion ==
  ASSUME NEW f, NEW S, NEW T, IsFiniteSet(S), IsFiniteSet(T), S \cap T = {},
         \A a \in S \cup T : f[a] \in Int
  PROVE  Sum(f, S \cup T) = Sum(f, S) + Sum(f, T)
<1> DEFINE C == {X \in SUBSET T : Sum(f, S \cup X) = Sum(f, S) + Sum(f, X)}
<1>1. PICK r \in Int : r = Sum(f, S)
  BY SumIsInteger
<1>2. ASSUME NEW X \in SUBSET T, \A x \in X : X \ {x} \in C
      PROVE  X \in C
  <2>1. IsFiniteSet(X) /\ IsFiniteSet(S \cup X) /\ \A a \in S \cup X : f[a] \in Int
    BY FS_Subset, FS_Union
  <2>2. CASE X = {}
    <3>1. S \cup X = S
      BY <2>2
    <3> QED
      BY <1>1, <2>2, <3>1, SumOfNothing
  <2>3. CASE X # {}
    <3>1. PICK c \in X : X \ {c} \in C
      BY <1>2, <2>3
    <3>2. Sum(f, S \cup X) = f[c] + Sum(f, (S \cup X) \ {c})
      BY <2>1, SumWithout
    <3>3. Sum(f, X) = f[c] + Sum(f, X \ {c})
      BY <2>1, SumWithout
    <3>4. (S \cup X) \ {c} = S \cup (X \ {c})
      OBVIOUS
    <3>5. PICK q \in Int : q = Sum(f, X \ {c})
      BY <2>1, FS_Subset, SumIsInteger
    <3>6. Sum(f, (S \cup X) \ {c}) = r + q
      BY <1>1, <3>1, <3>4, <3>5
    <3>7. f[c] \in Int
      OBVIOUS
    <3>8. Sum(f, S \cup X) = Sum(f, S) + Sum(f, X)
      BY <1>1, <3>2, <3>3, <3>5, <3>6, <3>7
    <3> QED
      BY <3>8
  <2> QED
    BY <2>2, <2>3
<1> HIDE DEF C
<1>3. C = SUBSET T
  <2>1. C \in SUBSET SUBSET T
    BY DEF C
  <2> QED
    BY <1>2, <2>1, AllSubsets
<1> QED
  BY <1>3 DEF C

-----------------------------------------------------------------------------
(* The divergences.  Flow arrives at a node by the arcs into it. *)

Into(v) == {a \in Arcs : To[a] = v}

OutOf(v) == {a \in Arcs : From[a] = v}

LEMMA ArcSetsAreFinite == \A S \in SUBSET Arcs : IsFiniteSet(S)
BY GraphType, FS_Subset

LEMMA DivergenceAt ==
  ASSUME NEW f, NEW v \in Nodes
  PROVE  Divergence(f)[v] = Sum(f, Into(v)) - Sum(f, OutOf(v))
BY DEF Divergence, Into, OutOf

\* A push changes two divergences.
LEMMA PushedDivergence ==
  ASSUME NEW f \in [Arcs -> Int], NEW d \in Darts, NEW x \in Int
  PROVE  /\ Pushed(f, d, x) \in [Arcs -> Int] /\ Divergence(f) \in [Nodes -> Int]
         /\ Divergence(Pushed(f, d, x))
              = [Divergence(f) EXCEPT ![StartNode(d)] = @ - x, ![EndNode(d)] = @ + x]
<1> DEFINE g == Pushed(f, d, x)
           D == Divergence(f)
           E == [D EXCEPT ![StartNode(d)] = @ - x, ![EndNode(d)] = @ + x]
<1>1. D \in [Nodes -> Int]
  <2>1. \A S \in SUBSET Arcs : Sum(f, S) \in Int
    BY ArcSetsAreFinite, SumIsInteger
  <2> QED
    BY <2>1 DEF Divergence
<1>2. PICK a \in Arcs, i \in {0, 1} : d = <<a, i>>
  BY DEF Darts
<1>3. PICK y \in Int : y = IF i = 0 THEN x ELSE -x
  OBVIOUS
<1>4. g = [f EXCEPT ![a] = @ + y]
  <2>1. g = [f EXCEPT ![a] = IF i = 0 THEN @ + x ELSE @ - x]
    BY <1>2 DEF Pushed
  <2> QED
    BY <1>3, <2>1
<1>5. E = [D EXCEPT ![StartNode(d)] = @ - x, ![EndNode(d)] = @ + x]
  OBVIOUS
<1> HIDE DEF g, D, E
<1>6. g[a] = f[a] + y /\ \A b \in Arcs \ {a} : g[b] = f[b]
  BY <1>4
<1>7. From[a] \in Nodes /\ To[a] \in Nodes /\ From[a] # To[a]
  BY GraphType, TerminalsType, NoLoops
<1>8. ASSUME NEW v \in Nodes
      PROVE  E[v] = D[v] + (IF v = To[a] THEN y ELSE 0) - (IF v = From[a] THEN y ELSE 0)
  <2>2. CASE i = 0
    <3>1. StartNode(d) = From[a] /\ EndNode(d) = To[a]
      BY <1>2, <2>2 DEF StartNode, EndNode, Opposite
    <3> QED
      BY <1>1, <1>3, <1>7, <1>5, <2>2, <3>1
  <2>3. CASE i = 1
    <3>1. StartNode(d) = To[a] /\ EndNode(d) = From[a]
      BY <1>2, <2>3 DEF StartNode, EndNode, Opposite
    <3> QED
      BY <1>1, <1>3, <1>7, <1>5, <2>3, <3>1
  <2> QED
    BY <2>2, <2>3
<1>9. ASSUME NEW S \in SUBSET Arcs
      PROVE  /\ Sum(f, S) \in Int
             /\ Sum(g, S) = Sum(f, S) + (IF a \in S THEN y ELSE 0)
  <2>1. IsFiniteSet(S) /\ Sum(f, S) \in Int
    BY ArcSetsAreFinite, SumIsInteger
  <2>2. CASE a \in S
    BY <1>6, <2>1, <2>2, SumOfChanged
  <2>3. CASE a \notin S
    BY <1>6, <2>1, <2>3, SumOfEqual
  <2> QED
    BY <2>1, <2>2, <2>3
<1>10. ASSUME NEW v \in Nodes
      PROVE  E[v] = Divergence(g)[v]
  <2>1. Into(v) \in SUBSET Arcs /\ OutOf(v) \in SUBSET Arcs
    BY DEF Into, OutOf
  <2>2. (a \in Into(v) <=> v = To[a]) /\ (a \in OutOf(v) <=> v = From[a])
    BY DEF Into, OutOf
  <2>3. PICK p \in Int, q \in Int : p = Sum(f, Into(v)) /\ q = Sum(f, OutOf(v))
    BY <1>9, <2>1
  <2>4. Sum(g, Into(v)) = p + (IF v = To[a] THEN y ELSE 0)
    BY <1>9, <2>1, <2>2, <2>3
  <2>5. Sum(g, OutOf(v)) = q + (IF v = From[a] THEN y ELSE 0)
    BY <1>9, <2>1, <2>2, <2>3
  <2>6. D[v] = p - q
    BY <2>3, DivergenceAt DEF D
  <2>7. Divergence(g)[v] = Sum(g, Into(v)) - Sum(g, OutOf(v))
    BY DivergenceAt
  <2> QED
    BY <1>8, <2>4, <2>5, <2>6, <2>7
<1>11. g \in [Arcs -> Int] /\ E \in [Nodes -> Int]
  <2>1. StartNode(d) \in Nodes /\ EndNode(d) \in Nodes
    BY DartEnds
  <2> QED
    BY <1>1, <1>3, <1>4, <1>5, <2>1
<1>12. Divergence(g) = E
  <2>1. Divergence(g) = [v \in Nodes |-> Divergence(g)[v]]
    BY DEF Divergence
  <2> QED
    BY <1>10, <1>11, <2>1
<1> QED
  BY <1>1, <1>11, <1>12 DEF g, D, E

\* They are those of the new flow.
LEMMA PushKeepsDivergence ==
  ASSUME flow \in [Arcs -> Int], div \in [Nodes -> Int], div = Divergence(flow),
         NEW d \in Darts, NEW x \in Int, Push(d, x)
  PROVE  div' = Divergence(flow')
<1>1. Divergence(Pushed(flow, d, x))
        = [Divergence(flow) EXCEPT ![StartNode(d)] = @ - x, ![EndNode(d)] = @ + x]
  BY PushedDivergence
<1> QED
  BY <1>1 DEF Push
-----------------------------------------------------------------------------
(* The methods that push all they can: first-in first-out and highest label.  A node in *)
(* which flow arrives is active until the flow has gone on; and it can go on, if need be *)
(* back to where it came from, since the first flow was balanced.                        *)

Plain == method \in {"FIFO", "HIGH"}

\* The excess of a node: it is never negative, and the capacities around a node would let
\* it go on.
ExcessIsReal ==
  /\ div = Divergence(flow)
  /\ \A v \in Inner : div[v] >= 0 /\ Sum(lcap, Into(v)) <= Sum(ucap, OutOf(v))

\* Between two discharges the active nodes are those with an excess.
QueueIsExact ==
  \A v \in Inner \ (IF pc = "select" THEN {} ELSE {u}) : v \in Q <=> div[v] > 0

\* An admissible arc is in the queue of its start node, and an arc in a queue can carry flow
\* and does not go down more than one step.
ArcsAreKnown ==
  /\ \A d \in Darts : IsAdmissible(d) /\ StartNode(d) \in Inner => d \in admissible[StartNode(d)]
  /\ \A v \in Nodes : \A d \in admissible[v] :
       ResCap(d) > 0 /\ dist[v] <= dist[EndNode(d)] + 1

\* The inductive invariant.
WorkInv ==
  Plain /\ InPreflow =>
    /\ ExcessIsReal
    /\ ~failed
    /\ pc # "rest"
    /\ pc = "push" => u \notin Q /\ canRelabel
    /\ ~Working => Q = {} /\ \A v \in Nodes : admissible[v] = {}
    /\ Working => QueueIsExact /\ ArcsAreKnown

LEMMA PlainCore ==
  ASSUME PreflowInv, Plain, InPreflow
  PROVE  Core /\ method \in Preflows
BY CoreHolds DEF Plain, Preflows

LEMMA ArcSetsAround ==
  ASSUME NEW v \in Nodes
  PROVE  /\ IsFiniteSet(Into(v)) /\ IsFiniteSet(OutOf(v))
         /\ Into(v) \in SUBSET Arcs /\ OutOf(v) \in SUBSET Arcs
<1>1. Into(v) \in SUBSET Arcs /\ OutOf(v) \in SUBSET Arcs
  BY DEF Into, OutOf
<1> QED
  BY <1>1, ArcSetsAreFinite

LEMMA InitWork == Init => WorkInv
<1> SUFFICES ASSUME Init, Plain PROVE WorkInv
  BY DEF WorkInv
<1>1. ucap \in [Arcs -> Int] /\ lcap \in [Arcs -> Int] /\ flow \in [Arcs -> Int]
  <2>1. AllCaps \subseteq Int /\ LowCaps \subseteq Int
    BY CapsType DEF AllCaps
  <2>2. ucap \in [Arcs -> Int]
    BY <2>1 DEF Init, UpperBounds
  <2>3. lcap \in [Arcs -> Int]
    BY <2>1 DEF Init
  <2>4. flow \in [Arcs -> Int]
    BY DEF Init, Amounts
  <2> QED
    BY <2>2, <2>3, <2>4
<1>2. ASSUME NEW v \in Inner
      PROVE  div[v] >= 0 /\ Sum(lcap, Into(v)) <= Sum(ucap, OutOf(v))
  <2>1. v \in Nodes /\ div[v] = 0
    BY DEF Init, Balanced, Inner
  <2>2. div[v] = Sum(flow, Into(v)) - Sum(flow, OutOf(v))
    BY <2>1, DivergenceAt DEF Init
  <2>3. \A a \in Arcs : lcap[a] <= flow[a] /\ flow[a] <= ucap[a]
    BY DEF Init, Legal
  <2>4. Sum(lcap, Into(v)) <= Sum(flow, Into(v))
    BY <1>1, <2>1, <2>3, ArcSetsAround, SumOfLess
  <2>5. Sum(flow, OutOf(v)) <= Sum(ucap, OutOf(v))
    BY <1>1, <2>1, <2>3, ArcSetsAround, SumOfLess
  <2>6. /\ Sum(lcap, Into(v)) \in Int /\ Sum(flow, Into(v)) \in Int
        /\ Sum(flow, OutOf(v)) \in Int /\ Sum(ucap, OutOf(v)) \in Int
    BY <1>1, <2>1, ArcSetsAround, SumIsInteger
  <2> QED
    BY <2>1, <2>2, <2>4, <2>5, <2>6
<1>3. ExcessIsReal
  BY <1>2 DEF ExcessIsReal, Init
<1> QED
  BY <1>3 DEF WorkInv, Init, Working

\* A node with an excess has a residual arc.
LEMMA TargetsExist ==
  ASSUME Typed, NeverNegative, ExcessIsReal, u \in Inner, div[u] > 0
  PROVE  Targets # {}
<1> SUFFICES ASSUME Targets = {} PROVE FALSE
  OBVIOUS
<1>1. u \in Nodes
  BY DEF Inner
<1>2. ASSUME NEW d \in Darts, StartNode(d) = u PROVE ResCap(d) = 0
  <2>1. ~(ResCap(d) > 0)
    BY <1>2 DEF Targets, DartsFrom
  <2>2. ResCap(d) \in Int /\ ResCap(d) >= 0
    BY ResCapInt DEF Typed, NeverNegative
  <2> QED
    BY <2>1, <2>2
<1>3. ASSUME NEW a \in Into(u) PROVE flow[a] = lcap[a]
  <2>1. a \in Arcs /\ <<a, 1>> \in Darts /\ StartNode(<<a, 1>>) = u
    BY DEF Into, Darts, StartNode
  <2>2. flow[a] - lcap[a] = 0
    BY <1>2, <2>1 DEF ResCap, Capacity
  <2> QED
    BY <2>1, <2>2 DEF Typed
<1>4. ASSUME NEW a \in OutOf(u) PROVE flow[a] = ucap[a]
  <2>1. a \in Arcs /\ <<a, 0>> \in Darts /\ StartNode(<<a, 0>>) = u
    BY DEF OutOf, Darts, StartNode
  <2>2. ucap[a] - flow[a] = 0
    BY <1>2, <2>1 DEF ResCap, Capacity
  <2> QED
    BY <2>1, <2>2 DEF Typed
<1>5. Sum(flow, Into(u)) = Sum(lcap, Into(u)) /\ Sum(flow, OutOf(u)) = Sum(ucap, OutOf(u))
  BY <1>1, <1>3, <1>4, ArcSetsAround, SumOfEqual
<1>6. div[u] = Sum(lcap, Into(u)) - Sum(ucap, OutOf(u))
  BY <1>1, <1>5, DivergenceAt DEF ExcessIsReal
<1>7. Sum(lcap, Into(u)) \in Int /\ Sum(ucap, OutOf(u)) \in Int
  BY <1>1, ArcSetsAround, SumIsInteger DEF Typed
<1>8. Sum(lcap, Into(u)) <= Sum(ucap, OutOf(u))
  BY DEF ExcessIsReal
<1> QED
  BY <1>6, <1>7, <1>8
\* Steps that change neither the flow nor the capacities leave the excess as it is.
LEMMA ExcessUnchanged ==
  ASSUME ExcessIsReal, UNCHANGED <<ucap, lcap, flow, div>>
  PROVE  ExcessIsReal'
<1>1. div' = Divergence(flow)'
  BY DEF ExcessIsReal, Divergence
<1> QED
  BY <1>1 DEF ExcessIsReal

\* A push that does not start at an inner node, or takes no more than its excess.
LEMMA PushKeepsExcess ==
  ASSUME Typed, ExcessIsReal, UNCHANGED <<ucap, lcap>>,
         NEW d \in Darts, NEW x \in Int, x >= 0, Push(d, x),
         StartNode(d) \in Inner => x <= div[StartNode(d)]
  PROVE  ExcessIsReal'
<1>1. div' = Divergence(flow)'
  <2>1. div' = Divergence(flow')
    BY PushKeepsDivergence DEF Typed, ExcessIsReal
  <2> QED
    BY <2>1
<1>2. ASSUME NEW v \in Inner PROVE div'[v] >= 0
  <2>1. v \in Nodes /\ div[v] \in Int /\ div[v] >= 0
    BY DEF Inner, Typed, ExcessIsReal
  <2>2. div' = [div EXCEPT ![StartNode(d)] = @ - x, ![EndNode(d)] = @ + x]
    BY DEF Push
  <2>3. StartNode(d) \in Nodes /\ EndNode(d) \in Nodes /\ StartNode(d) # EndNode(d)
    BY DartEnds
  <2>4. CASE v = StartNode(d)
    BY <2>1, <2>2, <2>3, <2>4 DEF Typed
  <2>5. CASE v = EndNode(d)
    BY <2>1, <2>2, <2>3, <2>5 DEF Typed
  <2>6. CASE v \notin {StartNode(d), EndNode(d)}
    BY <2>1, <2>2, <2>6 DEF Typed
  <2> QED
    BY <2>4, <2>5, <2>6
<1> QED
  BY <1>1, <1>2 DEF ExcessIsReal

LEMMA SaturateWork ==
  ASSUME PreflowInv, WorkInv, Saturate, Plain
  PROVE  WorkInv'
<1>1. Core /\ ExcessIsReal /\ ~failed /\ Q = {} /\ \A v \in Nodes : admissible[v] = {}
  BY PlainCore DEF WorkInv, Saturate, InPreflow, Working
<1>2. PICK d \in todo : Push(d, ResCap(d)) /\ todo' = todo \ {d}
  BY DEF Saturate
<1>3. d \in Darts /\ StartNode(d) = s
  BY <1>1, <1>2 DEF Core, Saturating, Saturate, DartsFrom
<1>4. ResCap(d) \in Int /\ ResCap(d) >= 0 /\ s \notin Inner
  BY <1>1, <1>3, ResCapInt DEF Core, Typed, NeverNegative, Inner
<1>5. ExcessIsReal'
  <2>1. UNCHANGED <<ucap, lcap>>
    BY DEF Saturate
  <2> QED
    BY <1>1, <1>2, <1>3, <1>4, <2>1, PushKeepsExcess DEF Core
<1> QED
  BY <1>1, <1>5 DEF WorkInv, Saturate, Working

LEMMA StartWork ==
  ASSUME PreflowInv, WorkInv, PreflowStart, Plain
  PROVE  WorkInv'
<1>1. Core /\ ExcessIsReal /\ ~failed /\ Q = {} /\ \A v \in Nodes : admissible[v] = {}
  BY PlainCore DEF WorkInv, PreflowStart, InPreflow, Working
<1>2. ExcessIsReal'
  BY <1>1, ExcessUnchanged DEF PreflowStart
<1> QED
  BY <1>1, <1>2 DEF WorkInv, PreflowStart, Working

\* No arc between inner nodes is admissible as long as they all have the label zero.
LEMMA ActivateWork ==
  ASSUME PreflowInv, WorkInv, Activate, Plain
  PROVE  WorkInv'
<1>1. Core /\ ExcessIsReal /\ ~failed /\ Q = {} /\ \A v \in Nodes : admissible[v] = {}
  BY PlainCore DEF WorkInv, Activate, InPreflow, Working
<1>2. ExcessIsReal'
  BY <1>1, ExcessUnchanged DEF Activate
<1>3. QueueIsExact'
  <2>1. Q' = {v \in Inner : div[v] > 0}
    BY DEF Activate, Plain
  <2> QED
    BY <2>1 DEF QueueIsExact, Activate
<1>4. ArcsAreKnown'
  <2>1. ASSUME NEW d \in Darts, StartNode(d) \in Inner PROVE ~IsAdmissible(d)'
    <3>1. dist' = [v \in Nodes |-> IF v = s THEN N ELSE 0]
      BY <1>1 DEF Core, Saturating, Activate
    <3>2. dist'[StartNode(d)] = 0 /\ dist'[EndNode(d)] \in Nat
      BY <2>1, <3>1, DartEnds, GraphType DEF Inner
    <3> QED
      BY <3>2 DEF IsAdmissible
  <2> QED
    BY <1>1, <2>1 DEF ArcsAreKnown, Activate
<1> QED
  BY <1>1, <1>2, <1>3, <1>4 DEF WorkInv, Activate, Working

\* The invariant while the nodes are discharged.
LEMMA WorkingWork ==
  ASSUME PreflowInv, WorkInv, Plain, Working
  PROVE  /\ Core /\ ExcessIsReal /\ QueueIsExact /\ ArcsAreKnown /\ ~failed
         /\ pc \in {"select", "push"}
         /\ pc = "push" => u \notin Q /\ canRelabel /\ u \in Inner
<1>1. InPreflow
  BY DEF InPreflow
<1> QED
  BY <1>1, PlainCore DEF WorkInv, Working, Core, Typed

LEMMA SelectWork ==
  ASSUME PreflowInv, WorkInv, Select, Plain
  PROVE  WorkInv'
<1>1. Core /\ ExcessIsReal /\ QueueIsExact /\ ArcsAreKnown /\ ~failed
  BY WorkingWork DEF Select, Working
<1>2. ExcessIsReal'
  BY <1>1, ExcessUnchanged DEF Select
<1>3. QueueIsExact'
  BY <1>1 DEF QueueIsExact, Select
<1>4. ArcsAreKnown'
  BY <1>1 DEF ArcsAreKnown, Select, IsAdmissible, ResCap, Capacity
<1> QED
  BY <1>1, <1>2, <1>3, <1>4 DEF WorkInv, Select, Working

\* An arc is dropped when it does not lead down one step any more.
LEMMA SkipWork ==
  ASSUME PreflowInv, WorkInv, NEW d \in Darts, Skip(d), Plain
  PROVE  WorkInv'
<1>1. /\ Core /\ ExcessIsReal /\ QueueIsExact /\ ArcsAreKnown /\ ~failed
      /\ u \in Inner /\ u \notin Q /\ canRelabel /\ pc = "push"
  BY WorkingWork DEF Skip, Discharging, Working
<1>2. ~TooSmall(d) /\ dist[u] # dist[EndNode(d)] + 1 /\ d \in admissible[u]
  BY DEF Skip, TooSmall, Plain
<1>3. ExcessIsReal'
  BY <1>1, ExcessUnchanged DEF Skip, network
<1>4. QueueIsExact'
  BY <1>1 DEF QueueIsExact, Skip, network
<1>5. ArcsAreKnown'
  <2>1. admissible' = [admissible EXCEPT ![u] = @ \ {d}] /\ u \in Nodes
    BY <1>1 DEF Skip, Inner
  <2>2. ASSUME NEW e \in Darts, IsAdmissible(e), StartNode(e) \in Inner
        PROVE  e \in admissible'[StartNode(e)]
    <3>1. e \in admissible[StartNode(e)] /\ StartNode(e) \in Nodes
      BY <1>1, <2>2 DEF ArcsAreKnown, Inner
    <3>2. StartNode(e) = u => e # d
      BY <1>2, <2>2 DEF IsAdmissible
    <3> QED
      BY <1>1, <2>1, <3>1, <3>2 DEF Core, Typed
  <2>3. \A v \in Nodes : admissible'[v] \subseteq admissible[v]
    BY <1>1, <2>1 DEF Core, Typed
  <2> QED
    BY <1>1, <2>2, <2>3 DEF ArcsAreKnown, Skip, network, IsAdmissible, ResCap, Capacity
<1> QED
  BY <1>1, <1>2, <1>3, <1>4, <1>5 DEF WorkInv, Skip, network, Working

\* A node leaves the active nodes when its excess is gone.
LEMMA RetireWork ==
  ASSUME PreflowInv, WorkInv, Retire, Plain
  PROVE  WorkInv'
<1>1. /\ Core /\ ExcessIsReal /\ QueueIsExact /\ ArcsAreKnown /\ ~failed
      /\ u \in Inner /\ u \notin Q /\ canRelabel /\ pc = "push"
  BY WorkingWork DEF Retire, Exhausted, Working
<1>2. ~(div[u] > 0) /\ UNCHANGED Q
  BY <1>1 DEF Retire, Plain
<1>3. ExcessIsReal'
  BY <1>1, ExcessUnchanged DEF Retire
<1>4. QueueIsExact'
  BY <1>1, <1>2 DEF QueueIsExact, Retire
<1>5. ArcsAreKnown'
  BY <1>1 DEF ArcsAreKnown, Retire, IsAdmissible, ResCap, Capacity
<1> QED
  BY <1>1, <1>3, <1>4, <1>5 DEF WorkInv, Retire, Working
\* Some flow goes along the arc: its end node has an excess then, and is active if it was not
\* before; the arc stays in its queue unless it is saturated.
LEMMA PushWork ==
  ASSUME PreflowInv, WorkInv, NEW d \in Darts, PushAlong(d), Plain
  PROVE  WorkInv'
<1>1. /\ Core /\ ExcessIsReal /\ QueueIsExact /\ ArcsAreKnown /\ ~failed
      /\ u \in Inner /\ u \notin Q /\ canRelabel /\ pc = "push"
  BY WorkingWork DEF PushAlong, Discharging, Working
<1> DEFINE v == EndNode(d)
<1>2. d \in admissible[u] /\ dist[u] = dist[v] + 1 /\ div[u] > 0 /\ ~TooSmall(d)
  BY DEF PushAlong, Discharging
<1>3. /\ u \in Nodes /\ v \in Nodes /\ v # u /\ StartNode(d) = u
      /\ div[u] \in Int /\ div[v] \in Int /\ dist[u] \in Nat /\ dist[v] \in Nat
  BY <1>1, <1>2, DartEnds DEF Core, Typed, Inner, DartsFrom
<1>4. ResCap(d) \in Int /\ ResCap(d) > 0
  BY <1>1, <1>2, <1>3, ResCapInt DEF Core, Typed, ArcsAreKnown
<1>5. PICK x \in Int : x = Amount(d) /\ 0 < x /\ x <= ResCap(d) /\ x <= div[u]
  <2>1. Amount(d) = Least(ResCap(d), div[u])
    BY DEF Amount, Plain
  <2> QED
    BY <1>2, <1>3, <1>4, <2>1 DEF Least
<1>6. /\ Push(d, x) /\ UNCHANGED <<ucap, lcap, dist, method, u, canRelabel, pc>>
      /\ Q' = IF BecomesActive(v, x) THEN Q \cup {v} ELSE Q
      /\ failed' = (failed \/ (BecomesActive(v, x) /\ v \in Q))
      /\ admissible' = [admissible EXCEPT ![u] = IF x < ResCap(d) THEN @ ELSE @ \ {d}]
  BY <1>5 DEF PushAlong, Plain
<1>7. ExcessIsReal'
  BY <1>1, <1>3, <1>5, <1>6, PushKeepsExcess DEF Core
<1>8. div' = [div EXCEPT ![u] = @ - x, ![v] = @ + x]
  BY <1>3, <1>6 DEF Push
<1>9. BecomesActive(v, x) <=> v \in Inner /\ div[v] = 0
  BY DEF BecomesActive, Plain
<1> HIDE DEF v
<1>10. v \in Inner => (v \in Q <=> div[v] > 0) /\ div[v] >= 0
  BY <1>1, <1>3 DEF QueueIsExact, ExcessIsReal
<1>11. ~failed' /\ u \notin Q'
  <2>1. ~(BecomesActive(v, x) /\ v \in Q)
    BY <1>3, <1>9, <1>10
  <2>2. ~failed'
    BY <1>1, <1>6, <2>1, Zenon
  <2>3. u \notin Q'
    BY <1>1, <1>3, <1>6
  <2> QED
    BY <2>2, <2>3
<1>12. QueueIsExact'
  <2>1. ASSUME NEW w \in Inner, w # u PROVE w \in Q' <=> div'[w] > 0
    <3>1. CASE w = v
      <4>1. div'[v] = div[v] + x /\ div[v] >= 0
        BY <1>1, <1>3, <1>8, <1>10, <2>1, <3>1 DEF Core, Typed
      <4>2. div'[v] > 0
        BY <1>3, <1>5, <4>1
      <4>3. v \in Q'
        BY <1>3, <1>6, <1>9, <1>10, <2>1, <3>1
      <4> QED
        BY <3>1, <4>2, <4>3
    <3>2. CASE w # v
      <4>1. div'[w] = div[w]
        BY <1>1, <1>8, <2>1, <3>2 DEF Core, Typed, Inner
      <4>2. w \in Q' <=> w \in Q
        BY <1>6, <3>2
      <4>3. w \in Q <=> div[w] > 0
        BY <1>1, <2>1 DEF QueueIsExact
      <4> QED
        BY <4>1, <4>2, <4>3
    <3> QED
      BY <3>1, <3>2
  <2> QED
    BY <1>1, <1>6, <2>1 DEF QueueIsExact
<1>13. ArcsAreKnown'
  <2>1. /\ ResCap(d)' = ResCap(d) - x
        /\ ResCap(Opposite(d))' = ResCap(Opposite(d)) + x
        /\ \A e \in Darts \ {d, Opposite(d)} : ResCap(e)' = ResCap(e)
    <3>1. flow' = Pushed(flow, d, x) /\ UNCHANGED <<ucap, lcap>>
      BY <1>6 DEF Push
    <3> QED
      BY <1>1, <3>1, PushResidual DEF Core, Typed
  <2>2. /\ Opposite(d) \in Darts /\ StartNode(Opposite(d)) = v /\ EndNode(Opposite(d)) = u
    BY <1>3, DartEnds DEF v
  <2>3. ASSUME NEW e \in Darts, IsAdmissible(e)', StartNode(e) \in Inner
        PROVE  e \in admissible'[StartNode(e)]
    <3>1. ResCap(e)' > 0 /\ dist[StartNode(e)] = dist[EndNode(e)] + 1
      BY <1>6, <2>3 DEF IsAdmissible
    <3>2. e # Opposite(d)
      BY <1>2, <1>3, <2>2, <3>1 DEF v
    <3>3. CASE e = d
      BY <1>1, <1>2, <1>3, <1>4, <1>5, <1>6, <2>1, <3>1, <3>3 DEF Core, Typed
    <3>4. CASE e # d
      <4>1. e \in admissible[StartNode(e)]
        BY <1>1, <2>1, <2>3, <3>1, <3>2, <3>4 DEF ArcsAreKnown, IsAdmissible
      <4> QED
        BY <1>1, <1>6, <2>3, <3>4, <4>1 DEF Core, Typed, Inner
    <3> QED
      BY <3>3, <3>4
  <2>4. ASSUME NEW w \in Nodes, NEW e \in admissible'[w]
        PROVE  ResCap(e)' > 0 /\ dist[w] <= dist[EndNode(e)] + 1
    <3>1. e \in admissible[w] /\ (e = d /\ w = u => x < ResCap(d))
      BY <1>1, <1>3, <1>6 DEF Core, Typed
    <3>2. e \in Darts /\ StartNode(e) = w
      BY <1>1, <3>1 DEF Core, Typed, DartsFrom
    <3>3. ResCap(e) > 0 /\ dist[w] <= dist[EndNode(e)] + 1 /\ ResCap(e) \in Int
      BY <1>1, <3>1, <3>2, ResCapInt DEF ArcsAreKnown, Core, Typed
    <3>4. ResCap(e)' > 0
      <4>1. CASE e = d
        BY <1>3, <1>4, <1>5, <2>1, <3>1, <3>2, <4>1
      <4>2. CASE e = Opposite(d)
        BY <1>5, <2>1, <3>3, <4>2
      <4>3. CASE e \notin {d, Opposite(d)}
        BY <2>1, <3>2, <3>3, <4>3
      <4> QED
        BY <4>1, <4>2, <4>3
    <3> QED
      BY <3>3, <3>4
  <2> QED
    BY <1>6, <2>3, <2>4 DEF ArcsAreKnown
<1> QED
  BY <1>1, <1>6, <1>7, <1>11, <1>12, <1>13 DEF WorkInv, Working

\* The node that is lifted has no admissible arc left, so that it goes up.  The arcs of the
\* nodes above that become admissible cannot have been in a queue: they led down too far.
LEMMA RelabelWork ==
  ASSUME PreflowInv, WorkInv, Relabel, Plain
  PROVE  WorkInv'
<1>1. /\ Core /\ ExcessIsReal /\ QueueIsExact /\ ArcsAreKnown /\ ~failed
      /\ u \in Inner /\ u \notin Q /\ canRelabel /\ pc = "push"
  BY WorkingWork DEF Relabel, Exhausted, Working
<1>2. div[u] > 0 /\ admissible[u] = {} /\ u \in Nodes /\ div[u] \in Int
  BY <1>1 DEF Relabel, Exhausted, Core, Typed, Inner
<1> DEFINE new(v) == {d \in NewlyAdmissible : StartNode(d) = v}
<1>3. /\ UNCHANGED <<ucap, lcap, flow, div, method, u>> /\ pc' = "select" /\ Q' = Q \cup {u}
      /\ dist' = [dist EXCEPT ![u] = Raised]
      /\ failed' = (failed \/ \E v \in Nodes : new(v) \cap admissible[v] # {})
      /\ admissible' = [v \in Nodes |-> admissible[v] \cup new(v)]
  <2>1. Targets # {}
    BY <1>1, <1>2, TargetsExist DEF Core
  <2> QED
    BY <2>1 DEF Relabel
<1>4. Targets \subseteq Nat /\ Targets # {}
  <2>1. Targets # {}
    BY <1>1, <1>2, TargetsExist DEF Core
  <2> QED
    BY <1>1, <2>1, DartEnds DEF Core, Typed, Targets, DartsFrom
<1>5. PICK h \in Targets : Raised = h + 1 /\ \A y \in Targets : h <= y
  BY <1>4, LeastLabel DEF Raised
<1>6. h \in Nat /\ Raised \in Nat /\ dist[u] \in Nat /\ dist[u] < Raised
  <2>1. PICK d \in DartsFrom(u) : ResCap(d) > 0 /\ dist[EndNode(d)] = h
    BY DEF Targets
  <2>2. d \in Darts /\ StartNode(d) = u
    BY <2>1 DEF DartsFrom
  <2>3. dist[u] <= h + 1
    BY <1>1, <2>1, <2>2 DEF Core, Labelled, Working
  <2>4. dist[u] # h + 1
    BY <1>1, <1>2, <2>1, <2>2 DEF ArcsAreKnown, IsAdmissible
  <2> QED
    BY <1>1, <1>2, <1>4, <1>5, <2>3, <2>4 DEF Core, Typed
<1>7. \A v \in Nodes : dist[v] \in Nat /\ dist'[v] = IF v = u THEN Raised ELSE dist[v]
  BY <1>1, <1>2, <1>3 DEF Core, Typed
<1>8. ASSUME NEW d \in NewlyAdmissible
      PROVE  /\ d \in Darts /\ ResCap(d) > 0 /\ dist'[StartNode(d)] = dist'[EndNode(d)] + 1
             /\ StartNode(d) # u => dist[StartNode(d)] = Raised + 1 /\ EndNode(d) = u
  <2>1. CASE d \in DartsFrom(u) /\ ResCap(d) > 0 /\ dist[EndNode(d)] + 1 = Raised
    BY <1>2, <1>7, <2>1, DartEnds DEF DartsFrom
  <2>2. CASE \E e \in DartsFrom(u) : /\ d = Opposite(e) /\ ResCap(Opposite(e)) > 0
                                     /\ dist[EndNode(e)] = Raised + 1
    BY <1>2, <1>7, <2>2, DartEnds DEF DartsFrom
  <2> QED
    BY <2>1, <2>2 DEF NewlyAdmissible
<1>9. ASSUME NEW v \in Nodes, NEW d \in new(v)
      PROVE  d \notin admissible[v]
  <2>1. CASE v = u
    BY <1>2, <2>1
  <2>2. CASE v # u
    <3>1. dist[v] = Raised + 1 /\ EndNode(d) = u
      BY <1>8, <2>2
    <3>2. ~(dist[v] <= dist[EndNode(d)] + 1)
      BY <1>6, <3>1
    <3> QED
      BY <1>1, <3>2 DEF ArcsAreKnown
  <2> QED
    BY <2>1, <2>2
<1>10. ~failed'
  <2>1. \A v \in Nodes : new(v) \cap admissible[v] = {}
    BY <1>9
  <2> QED
    BY <1>1, <1>3, <2>1
<1>11. ExcessIsReal'
  BY <1>1, <1>3, ExcessUnchanged
<1>12. QueueIsExact'
  <2>1. \A v \in Inner : v \in Q' <=> div[v] > 0
    BY <1>1, <1>2, <1>3 DEF QueueIsExact
  <2> QED
    BY <1>3, <2>1 DEF QueueIsExact
<1>13. ArcsAreKnown'
  <2>1. \A d \in Darts : ResCap(d)' = ResCap(d)
    BY <1>3 DEF ResCap, Capacity
  <2>2. ASSUME NEW d \in Darts, IsAdmissible(d)', StartNode(d) \in Inner
        PROVE  d \in admissible'[StartNode(d)]
    <3>1. ResCap(d) > 0 /\ dist'[StartNode(d)] = dist'[EndNode(d)] + 1
      BY <2>1, <2>2 DEF IsAdmissible
    <3>2. /\ StartNode(d) \in Nodes /\ EndNode(d) \in Nodes /\ StartNode(d) # EndNode(d)
          /\ Opposite(d) \in Darts /\ Opposite(Opposite(d)) = d
          /\ StartNode(Opposite(d)) = EndNode(d) /\ EndNode(Opposite(d)) = StartNode(d)
      BY DartEnds
    <3>3. CASE StartNode(d) = u
      <4>1. dist[EndNode(d)] + 1 = Raised
        BY <1>7, <3>1, <3>2, <3>3
      <4>2. d \in new(u)
        BY <3>1, <3>3, <4>1 DEF NewlyAdmissible, DartsFrom
      <4> QED
        BY <1>2, <1>3, <3>3, <4>2
    <3>4. CASE EndNode(d) = u
      <4>1. dist[StartNode(d)] = Raised + 1
        BY <1>7, <3>1, <3>2, <3>4
      <4>2. d \in NewlyAdmissible
        BY <3>1, <3>2, <3>4, <4>1 DEF NewlyAdmissible, DartsFrom
      <4> QED
        BY <1>3, <3>2, <4>2
    <3>5. CASE StartNode(d) # u /\ EndNode(d) # u
      <4>1. IsAdmissible(d)
        BY <1>7, <3>1, <3>2, <3>5 DEF IsAdmissible
      <4> QED
        BY <1>1, <1>3, <2>2, <3>2, <4>1 DEF ArcsAreKnown
    <3> QED
      BY <3>3, <3>4, <3>5
  <2>3. ASSUME NEW v \in Nodes, NEW d \in admissible'[v]
        PROVE  ResCap(d)' > 0 /\ dist'[v] <= dist'[EndNode(d)] + 1
    <3>1. CASE d \in new(v)
      <4>1. d \in Darts /\ ResCap(d) > 0 /\ dist'[v] = dist'[EndNode(d)] + 1
        BY <1>8, <3>1
      <4>2. dist'[EndNode(d)] \in Nat
        BY <1>6, <1>7, <4>1, DartEnds
      <4> QED
        BY <2>1, <4>1, <4>2
    <3>2. CASE d \in admissible[v]
      <4>1. d \in Darts /\ EndNode(d) \in Nodes /\ v # u
        BY <1>1, <1>2, <3>2, DartEnds DEF Core, Typed
      <4>2. ResCap(d) > 0 /\ dist[v] <= dist[EndNode(d)] + 1
        BY <1>1, <3>2 DEF ArcsAreKnown
      <4> QED
        BY <1>6, <1>7, <2>1, <4>1, <4>2
    <3> QED
      BY <1>3, <3>1, <3>2
  <2> QED
    BY <2>2, <2>3 DEF ArcsAreKnown
<1> QED
  BY <1>3, <1>10, <1>11, <1>12, <1>13 DEF WorkInv, Working
-----------------------------------------------------------------------------
(* Cuts.  The flow into a set of nodes is the sum of their divergences, so that no st-flow *)
(* has a larger value than the capacity of a cut.                                          *)

\* The arcs into a set of nodes, and those out of it.
Entering(X) == {a \in Arcs : From[a] \notin X /\ To[a] \in X}

Exiting(X) == {a \in Arcs : From[a] \in X /\ To[a] \notin X}

EndingIn(X) == {a \in Arcs : To[a] \in X}

StartingIn(X) == {a \in Arcs : From[a] \in X}

LEMMA NodeSetsAreFinite == IsFiniteSet(Nodes) /\ \A S \in SUBSET Nodes : IsFiniteSet(S)
<1>1. IsFiniteSet(Nodes)
  BY GraphType, FS_Interval DEF Nodes
<1> QED
  BY <1>1, FS_Subset

LEMMA DivergenceOfSet ==
  ASSUME NEW f \in [Arcs -> Int], NEW X \in SUBSET Nodes
  PROVE  Sum(Divergence(f), X) = Sum(f, EndingIn(X)) - Sum(f, StartingIn(X))
<1> DEFINE C == {Y \in SUBSET X : Sum(Divergence(f), Y)
                                    = Sum(f, EndingIn(Y)) - Sum(f, StartingIn(Y))}
<1>1. IsFiniteSet(X)
  BY NodeSetsAreFinite
<1>2. \A S \in SUBSET Arcs : IsFiniteSet(S) /\ Sum(f, S) \in Int
  BY ArcSetsAreFinite, SumIsInteger
<1>3. \A v \in Nodes : Divergence(f)[v] \in Int
  <2> SUFFICES ASSUME NEW v \in Nodes PROVE Divergence(f)[v] \in Int
    OBVIOUS
  <2>1. Sum(f, Into(v)) \in Int /\ Sum(f, OutOf(v)) \in Int
    BY <1>2, ArcSetsAround
  <2> QED
    BY <2>1, DivergenceAt
<1>4. ASSUME NEW Y \in SUBSET X, \A v \in Y : Y \ {v} \in C
      PROVE  Y \in C
  <2>1. IsFiniteSet(Y)
    BY <1>1, FS_Subset
  <2>2. CASE Y = {}
    <3>1. EndingIn(Y) = {} /\ StartingIn(Y) = {}
      BY <2>2 DEF EndingIn, StartingIn
    <3>2. Sum(f, {}) = 0 /\ Sum(Divergence(f), {}) = 0
      BY SumOfNothing
    <3> QED
      BY <2>2, <3>1, <3>2
  <2>3. CASE Y # {}
    <3>1. PICK v \in Y : Y \ {v} \in C
      BY <1>4, <2>3
    <3> DEFINE Z == Y \ {v}
    <3>2. v \in Nodes
      OBVIOUS
    <3>3. Sum(Divergence(f), Y) = Divergence(f)[v] + Sum(Divergence(f), Z)
      BY <1>3, <2>1, SumWithout
    <3>4. Sum(f, EndingIn(Y)) = Sum(f, EndingIn(Z)) + Sum(f, Into(v))
      <4>1. EndingIn(Y) = EndingIn(Z) \cup Into(v) /\ EndingIn(Z) \cap Into(v) = {}
        BY DEF EndingIn, Into
      <4>2. EndingIn(Z) \in SUBSET Arcs /\ Into(v) \in SUBSET Arcs
        BY DEF EndingIn, Into
      <4> HIDE DEF Z
      <4> QED
        BY <1>2, <4>1, <4>2, SumOfUnion
    <3>5. Sum(f, StartingIn(Y)) = Sum(f, StartingIn(Z)) + Sum(f, OutOf(v))
      <4>1. StartingIn(Y) = StartingIn(Z) \cup OutOf(v) /\ StartingIn(Z) \cap OutOf(v) = {}
        BY DEF StartingIn, OutOf
      <4>2. StartingIn(Z) \in SUBSET Arcs /\ OutOf(v) \in SUBSET Arcs
        BY DEF StartingIn, OutOf
      <4> HIDE DEF Z
      <4> QED
        BY <1>2, <4>1, <4>2, SumOfUnion
    <3>6. Sum(Divergence(f), Z) = Sum(f, EndingIn(Z)) - Sum(f, StartingIn(Z))
      BY <3>1
    <3>7. Divergence(f)[v] = Sum(f, Into(v)) - Sum(f, OutOf(v))
      BY <3>2, DivergenceAt
    <3>8. /\ Sum(f, EndingIn(Z)) \in Int /\ Sum(f, StartingIn(Z)) \in Int
          /\ Sum(f, Into(v)) \in Int /\ Sum(f, OutOf(v)) \in Int
      BY <1>2 DEF EndingIn, StartingIn, Into, OutOf
    <3> HIDE DEF Z
    <3>9. Sum(Divergence(f), Y) = Sum(f, EndingIn(Y)) - Sum(f, StartingIn(Y))
      BY <3>3, <3>4, <3>5, <3>6, <3>7, <3>8
    <3> QED
      BY <3>9
  <2> QED
    BY <2>2, <2>3
<1> HIDE DEF C
<1>5. C = SUBSET X
  <2>1. C \in SUBSET SUBSET X
    BY DEF C
  <2> QED
    BY <1>1, <1>4, <2>1, AllSubsets
<1> QED
  BY <1>5 DEF C

\* The arcs inside of the set do not count.
LEMMA FlowIntoSet ==
  ASSUME NEW f \in [Arcs -> Int], NEW X \in SUBSET Nodes
  PROVE  Sum(Divergence(f), X) = Sum(f, Entering(X)) - Sum(f, Exiting(X))
<1> DEFINE I == {a \in Arcs : From[a] \in X /\ To[a] \in X}
<1>1. /\ I \in SUBSET Arcs /\ Entering(X) \in SUBSET Arcs /\ Exiting(X) \in SUBSET Arcs
      /\ EndingIn(X) = Entering(X) \cup I /\ Entering(X) \cap I = {}
      /\ StartingIn(X) = Exiting(X) \cup I /\ Exiting(X) \cap I = {}
  BY DEF Entering, Exiting, EndingIn, StartingIn
<1> HIDE DEF I
<1>2. /\ IsFiniteSet(I) /\ IsFiniteSet(Entering(X)) /\ IsFiniteSet(Exiting(X))
      /\ Sum(f, I) \in Int /\ Sum(f, Entering(X)) \in Int /\ Sum(f, Exiting(X)) \in Int
  BY <1>1, ArcSetsAreFinite, SumIsInteger
<1>3. Sum(f, EndingIn(X)) = Sum(f, Entering(X)) + Sum(f, I)
  BY <1>1, <1>2, SumOfUnion
<1>4. Sum(f, StartingIn(X)) = Sum(f, Exiting(X)) + Sum(f, I)
  BY <1>1, <1>2, SumOfUnion
<1>5. Sum(Divergence(f), X) = Sum(f, EndingIn(X)) - Sum(f, StartingIn(X))
  BY DivergenceOfSet
<1> QED
  BY <1>2, <1>3, <1>4, <1>5

\* The value of an st-flow is the flow across any cut.
LEMMA FlowAcrossCut ==
  ASSUME flow \in [Arcs -> Int], div \in [Nodes -> Int], div = Divergence(flow), Balanced,
         NEW S \in SUBSET Nodes, s \in S, t \notin S
  PROVE  div[t] = Sum(flow, Exiting(S)) - Sum(flow, Entering(S))
<1> DEFINE X == Nodes \ S
<1>1. Entering(X) = Exiting(S) /\ Exiting(X) = Entering(S)
  BY GraphType DEF Entering, Exiting
<1>2. IsFiniteSet(X) /\ t \in X
  BY TerminalsType, NodeSetsAreFinite
<1>3. Sum(div, X) = div[t] + Sum(div, X \ {t})
  BY <1>2, SumWithout
<1>4. Sum(div, X \ {t}) = 0
  <2> DEFINE C == {Y \in SUBSET (X \ {t}) : Sum(div, Y) = 0}
  <2>1. ASSUME NEW Y \in SUBSET (X \ {t}), \A y \in Y : Y \ {y} \in C PROVE Y \in C
    <3>1. IsFiniteSet(Y)
      BY <1>2, FS_Subset
    <3>2. CASE Y = {}
      BY <3>2, SumOfNothing
    <3>3. CASE Y # {}
      <4>1. Chosen(Y) \in Y /\ Y \ {Chosen(Y)} \in C
        BY <2>1, <3>3, ChosenIsMember
      <4>2. Sum(div, Y) = div[Chosen(Y)] + Sum(div, Y \ {Chosen(Y)})
        BY <3>1, <3>3, SumChosen
      <4>3. div[Chosen(Y)] = 0
        BY <4>1 DEF Balanced
      <4> QED
        BY <4>1, <4>2, <4>3
    <3> QED
      BY <3>2, <3>3
  <2>2. IsFiniteSet(X \ {t})
    BY <1>2, FS_Subset
  <2> HIDE DEF C
  <2>3. C \in SUBSET SUBSET (X \ {t})
    BY DEF C
  <2>4. C = SUBSET (X \ {t})
    BY <2>1, <2>2, <2>3, AllSubsets
  <2> QED
    BY <2>4 DEF C
<1>5. Sum(div, X) = Sum(flow, Entering(X)) - Sum(flow, Exiting(X))
  BY FlowIntoSet
<1>6. div[t] \in Int
  BY TerminalsType
<1> QED
  BY <1>1, <1>3, <1>4, <1>5, <1>6
\* Weak duality: the capacity of every cut is at least the value of the flow, and equal to it
\* if all residual capacities across the cut are zero.
LEMMA ValueIsBounded ==
  ASSUME ucap \in [Arcs -> Int], lcap \in [Arcs -> Int], flow \in [Arcs -> Int], Legal,
         div \in [Nodes -> Int], div = Divergence(flow), Balanced,
         NEW S \in SUBSET Nodes, s \in S, t \notin S
  PROVE  /\ CutCapacity(ucap, lcap, S) \in Int /\ div[t] <= CutCapacity(ucap, lcap, S)
         /\ (\A d \in Darts : StartNode(d) \in S /\ EndNode(d) \notin S => ResCap(d) = 0)
              => div[t] = CutCapacity(ucap, lcap, S)
<1>1. /\ Exiting(S) \in SUBSET Arcs /\ Entering(S) \in SUBSET Arcs
      /\ IsFiniteSet(Exiting(S)) /\ IsFiniteSet(Entering(S))
  BY ArcSetsAreFinite DEF Exiting, Entering
<1>2. CutCapacity(ucap, lcap, S) = Sum(ucap, Exiting(S)) - Sum(lcap, Entering(S))
  BY DEF CutCapacity, Exiting, Entering
<1>3. div[t] = Sum(flow, Exiting(S)) - Sum(flow, Entering(S))
  BY FlowAcrossCut
<1>4. /\ Sum(ucap, Exiting(S)) \in Int /\ Sum(lcap, Entering(S)) \in Int
      /\ Sum(flow, Exiting(S)) \in Int /\ Sum(flow, Entering(S)) \in Int
  BY <1>1, SumIsInteger
<1>5. Sum(flow, Exiting(S)) <= Sum(ucap, Exiting(S))
  BY <1>1, SumOfLess DEF Legal
<1>6. Sum(lcap, Entering(S)) <= Sum(flow, Entering(S))
  BY <1>1, SumOfLess DEF Legal
<1>7. ASSUME \A d \in Darts : StartNode(d) \in S /\ EndNode(d) \notin S => ResCap(d) = 0
      PROVE  /\ Sum(flow, Exiting(S)) = Sum(ucap, Exiting(S))
             /\ Sum(flow, Entering(S)) = Sum(lcap, Entering(S))
  <2>1. ASSUME NEW a \in Exiting(S) PROVE flow[a] = ucap[a]
    <3>1. /\ a \in Arcs /\ <<a, 0>> \in Darts
          /\ StartNode(<<a, 0>>) = From[a] /\ EndNode(<<a, 0>>) = To[a]
      BY DEF Exiting, Darts, StartNode, EndNode, Opposite
    <3>2. ucap[a] - flow[a] = 0
      BY <1>7, <3>1 DEF Exiting, ResCap, Capacity
    <3> QED
      BY <3>1, <3>2
  <2>2. ASSUME NEW a \in Entering(S) PROVE flow[a] = lcap[a]
    <3>1. /\ a \in Arcs /\ <<a, 1>> \in Darts
          /\ StartNode(<<a, 1>>) = To[a] /\ EndNode(<<a, 1>>) = From[a]
      BY DEF Entering, Darts, StartNode, EndNode, Opposite
    <3>2. flow[a] - lcap[a] = 0
      BY <1>7, <3>1 DEF Entering, ResCap, Capacity
    <3> QED
      BY <3>1, <3>2
  <2> QED
    BY <1>1, <2>1, <2>2, SumOfEqual
<1>8. CutCapacity(ucap, lcap, S) \in Int /\ div[t] <= CutCapacity(ucap, lcap, S)
  BY <1>2, <1>3, <1>4, <1>5, <1>6
<1> QED
  BY <1>2, <1>3, <1>7, <1>8

\* Some cut without residual capacities proves that the flow is maximum.
LEMMA CutProvesOptimum ==
  ASSUME ucap \in UpperBounds, lcap \in [Arcs -> LowCaps],
         ucap \in [Arcs -> Int], lcap \in [Arcs -> Int], flow \in [Arcs -> Int], Legal,
         div \in [Nodes -> Int], div = Divergence(flow), Balanced,
         NEW S \in SUBSET Nodes, s \in S, t \notin S,
         \A d \in Darts : StartNode(d) \in S /\ EndNode(d) \notin S => ResCap(d) = 0
  PROVE  div[t] = Optimum
<1> DEFINE M == {CutCapacity(ucap, lcap, T \cup {s}) : T \in SUBSET (Nodes \ {s, t})}
<1>1. Optimum = Min(M)
  BY DEF Optimum, MinCutCapacity
<1>2. div[t] \in M
  <2>1. S \ {s} \in SUBSET (Nodes \ {s, t}) /\ (S \ {s}) \cup {s} = S
    OBVIOUS
  <2>2. div[t] = CutCapacity(ucap, lcap, S)
    BY ValueIsBounded
  <2> QED
    BY <2>1, <2>2
<1>3. \A y \in M : y \in Int /\ div[t] <= y
  <2> SUFFICES ASSUME NEW T \in SUBSET (Nodes \ {s, t})
               PROVE  /\ CutCapacity(ucap, lcap, T \cup {s}) \in Int
                      /\ div[t] <= CutCapacity(ucap, lcap, T \cup {s})
    OBVIOUS
  <2>1. T \cup {s} \in SUBSET Nodes /\ s \in T \cup {s} /\ t \notin T \cup {s}
    BY TerminalsType
  <2> QED
    BY <2>1, ValueIsBounded
<1>4. div[t] \in Int
  BY TerminalsType
<1> HIDE DEF M
<1>5. Min(M) \in M /\ \A y \in M : Min(M) <= y
  BY <1>2, <1>3 DEF Min
<1> QED
  BY <1>1, <1>2, <1>3, <1>4, <1>5

-----------------------------------------------------------------------------
(* The search after the preflow method. *)

\* Repeating a step defines a function.
LEMMA IterationExists ==
  ASSUME NEW D, NEW F \in [D -> D], NEW a \in D
  PROVE  \E g : /\ g = [k \in Nat |-> IF k = 0 THEN a ELSE F[g[k - 1]]]
                /\ g \in [Nat -> D]
<1> DEFINE Begins(h, n) == /\ h \in [0 .. n -> D] /\ h[0] = a
                           /\ \A k \in 0 .. n - 1 : h[k + 1] = F[h[k]]
           B == {n \in Nat : \E h : Begins(h, n)}
<1>1. B = Nat
  <2>1. 0 \in B
    <3>1. Begins([k \in 0 .. 0 |-> a], 0)
      OBVIOUS
    <3> HIDE DEF Begins
    <3> QED
      BY <3>1
  <2>2. ASSUME NEW n \in B PROVE n + 1 \in B
    <3>1. PICK h : Begins(h, n)
      OBVIOUS
    <3> DEFINE e == [k \in 0 .. n + 1 |-> IF k = n + 1 THEN F[h[n]] ELSE h[k]]
    <3>2. n \in Nat /\ h[n] \in D /\ F[h[n]] \in D
      BY <3>1
    <3>3. e \in [0 .. n + 1 -> D]
      BY <3>1, <3>2
    <3>4. e[0] = a
      BY <3>1, <3>2
    <3>5. ASSUME NEW k \in 0 .. (n + 1) - 1 PROVE e[k + 1] = F[e[k]]
      <4>1. k \in Nat /\ k <= n /\ e[k] = h[k]
        BY <3>2
      <4>2. CASE k = n
        BY <3>2, <4>1, <4>2
      <4>3. CASE k # n
        <5>1. k \in 0 .. n - 1 /\ k + 1 \in 0 .. n + 1 /\ k + 1 # n + 1
          BY <3>2, <4>1, <4>3
        <5> QED
          BY <3>1, <4>1, <5>1
      <4> QED
        BY <4>2, <4>3
    <3>6. Begins(e, n + 1)
      BY <3>3, <3>4, <3>5
    <3> HIDE DEF Begins, e
    <3> QED
      BY <3>2, <3>6
  <2> HIDE DEF B
  <2>3. B \in SUBSET Nat
    BY DEF B
  <2> QED
    BY <2>1, <2>2, <2>3, AllNumbers
<1> DEFINE part(n) == CHOOSE h : Begins(h, n)
           g == [k \in Nat |-> part(k)[k]]
<1>2. \A n \in Nat : Begins(part(n), n)
  <2> HIDE DEF Begins
  <2> QED
    BY <1>1
<1> HIDE DEF part
<1>3. ASSUME NEW n \in Nat, NEW k \in Nat, k < n
      PROVE  part(n)[k + 1] = F[part(n)[k]]
  <2>1. k \in 0 .. n - 1
    BY <1>3
  <2> QED
    BY <1>2, <2>1
<1> DEFINE E == {k \in Nat : \A n, m \in Nat : k <= n /\ k <= m => part(n)[k] = part(m)[k]}
<1>4. E = Nat
  <2>1. 0 \in E
    BY <1>2
  <2>2. ASSUME NEW k \in E PROVE k + 1 \in E
    <3> SUFFICES ASSUME NEW n \in Nat, NEW m \in Nat, k + 1 <= n, k + 1 <= m
                 PROVE  part(n)[k + 1] = part(m)[k + 1]
      OBVIOUS
    <3>1. k \in Nat /\ k < n /\ k < m /\ k <= n /\ k <= m
      OBVIOUS
    <3>2. part(n)[k] = part(m)[k]
      BY <3>1
    <3> QED
      BY <1>3, <3>1, <3>2
  <2> HIDE DEF E
  <2>3. E \in SUBSET Nat
    BY DEF E
  <2> QED
    BY <2>1, <2>2, <2>3, AllNumbers
<1>5. ASSUME NEW k \in Nat
      PROVE  g[k] \in D /\ g[k] = IF k = 0 THEN a ELSE F[g[k - 1]]
  <2>1. part(k)[k] \in D /\ part(0)[0] = a
    BY <1>2
  <2>2. CASE k = 0
    BY <2>1, <2>2
  <2>3. CASE k # 0
    <3>1. k - 1 \in Nat /\ k - 1 < k /\ (k - 1) + 1 = k
      BY <2>3
    <3>2. part(k)[k] = F[part(k)[k - 1]]
      BY <1>3, <3>1
    <3>3. part(k)[k - 1] = part(k - 1)[k - 1]
      BY <1>4, <3>1
    <3> QED
      BY <2>1, <2>3, <3>1, <3>2, <3>3
  <2> QED
    BY <2>2, <2>3
<1> HIDE DEF part
<1>6. g = [k \in Nat |-> IF k = 0 THEN a ELSE F[g[k - 1]]]
  BY <1>5
<1>7. g \in [Nat -> D]
  BY <1>5
<1> HIDE DEF g
<1> QED
  BY <1>6, <1>7

SearchStep(x, S) ==
  S \cup {EndNode(d) : d \in {e \in Darts : StartNode(e) \in S /\ ResCap(e) > x}}

IsSearch(x, near) == near = [k \in Nat |-> IF k = 0 THEN {s} ELSE SearchStep(x, near[k - 1])]

LEMMA DepthIsRecursive ==
  ASSUME NEW x
  PROVE  Depth(x) = [v \in Nodes |->
           Cardinality({k \in Nodes : v \notin (CHOOSE near : IsSearch(x, near))[k]})]
BY Zenon DEF Depth, IsSearch, SearchStep

LEMMA SearchStepAdds ==
  ASSUME NEW x, NEW S \in SUBSET Nodes
  PROVE  S \subseteq SearchStep(x, S) /\ SearchStep(x, S) \in SUBSET Nodes
BY DartEnds DEF SearchStep

\* There is such a search, and the labels that it gives are numbers.
LEMMA SearchExists == ASSUME NEW x PROVE \E g : IsSearch(x, g)
<1> DEFINE F == [T \in SUBSET Nodes |-> SearchStep(x, T)]
<1>1. F \in [SUBSET Nodes -> SUBSET Nodes] /\ {s} \in SUBSET Nodes
  BY SearchStepAdds, TerminalsType
<1>2. \A T \in SUBSET Nodes : F[T] = SearchStep(x, T)
  OBVIOUS
<1> DEFINE D == SUBSET Nodes
           a == {s}
<1> HIDE DEF F
<1>3. PICK g : /\ g = [k \in Nat |-> IF k = 0 THEN {s} ELSE F[g[k - 1]]]
               /\ g \in [Nat -> SUBSET Nodes]
  <2>1. F \in [D -> D] /\ a \in D
    BY <1>1
  <2> HIDE DEF D, a
  <2>2. \E g : /\ g = [k \in Nat |-> IF k = 0 THEN a ELSE F[g[k - 1]]]
               /\ g \in [Nat -> D]
    BY <2>1, IterationExists
  <2> QED
    BY <2>2, Zenon DEF D, a
<1>4. ASSUME NEW k \in Nat
      PROVE  (IF k = 0 THEN {s} ELSE F[g[k - 1]])
               = IF k = 0 THEN {s} ELSE SearchStep(x, g[k - 1])
  <2>1. CASE k = 0
    BY <2>1
  <2>2. CASE k # 0
    <3>1. k - 1 \in Nat
      BY <2>2
    <3>2. g[k - 1] \in SUBSET Nodes
      BY <1>3, <3>1
    <3> QED
      BY <1>2, <2>2, <3>2
  <2> QED
    BY <2>1, <2>2
<1>5. [k \in Nat |-> IF k = 0 THEN {s} ELSE F[g[k - 1]]]
        = [k \in Nat |-> IF k = 0 THEN {s} ELSE SearchStep(x, g[k - 1])]
  BY <1>4
<1>6. IsSearch(x, g)
  BY <1>3, <1>5, Zenon DEF IsSearch
<1> QED
  BY <1>6

LEMMA DepthType ==
  ASSUME NEW x
  PROVE  Depth(x) \in [Nodes -> 0 .. N] /\ Depth(x)[s] = 0
<1> DEFINE near == CHOOSE g : IsSearch(x, g)
<1>1. IsSearch(x, near)
  BY SearchExists
<1>2. Depth(x) = [v \in Nodes |-> Cardinality({k \in Nodes : v \notin near[k]})]
  BY DepthIsRecursive
<1> HIDE DEF near
<1> DEFINE B == {k \in Nat : s \in near[k]}
<1>3. 0 \in B
  BY <1>1 DEF IsSearch
<1>4. ASSUME NEW k \in B PROVE k + 1 \in B
  <2>1. k + 1 \in Nat /\ k + 1 # 0 /\ (k + 1) - 1 = k
    OBVIOUS
  <2>2. near[k + 1] = SearchStep(x, near[k])
    BY <1>1, <2>1 DEF IsSearch
  <2> QED
    BY <2>2 DEF SearchStep
<1>5. B = Nat
  <2> HIDE DEF B
  <2>1. B \in SUBSET Nat
    BY DEF B
  <2> QED
    BY <1>3, <1>4, <2>1, AllNumbers
<1>6. IsFiniteSet(Nodes) /\ Cardinality(Nodes) = N /\ N \in Nat /\ Nodes \subseteq Nat
  BY GraphType, NodeSetsAreFinite, FS_Interval DEF Nodes
<1>7. ASSUME NEW v \in Nodes PROVE Cardinality({k \in Nodes : v \notin near[k]}) \in 0 .. N
  <2> DEFINE T == {k \in Nodes : v \notin near[k]}
  <2>1. T \in SUBSET Nodes
    OBVIOUS
  <2> HIDE DEF T
  <2>2. Cardinality(T) \in Nat /\ Cardinality(T) <= N
    BY <1>6, <2>1, FS_Subset, FS_CardinalityType
  <2> QED
    BY <1>6, <2>2 DEF T
<1>8. {k \in Nodes : s \notin near[k]} = {}
  BY <1>5, <1>6
<1>9. s \in Nodes /\ Depth(x)[s] = 0
  BY <1>2, <1>8, TerminalsType, FS_EmptySet
<1> QED
  BY <1>2, <1>7, <1>9

\* The search does not get past a cut without residual capacities.
LEMMA SearchIsSound ==
  ASSUME NEW near, IsSearch(0, near), NEW S \in SUBSET Nodes, s \in S,
         \A d \in Darts : StartNode(d) \in S /\ EndNode(d) \notin S => ResCap(d) = 0
  PROVE  /\ \A k \in Nat : s \in near[k] /\ near[k] \in SUBSET S
         /\ \A k \in Nat : near[k + 1] = SearchStep(0, near[k])
         /\ \A k \in Nat : near[k] \subseteq near[k + 1]
<1> DEFINE B == {k \in Nat : s \in near[k] /\ near[k] \in SUBSET S}
<1>1. near[0] = {s} /\ \A k \in Nat : near[k + 1] = SearchStep(0, near[k])
  <2>1. near[0] = {s}
    BY DEF IsSearch
  <2>2. ASSUME NEW k \in Nat PROVE near[k + 1] = SearchStep(0, near[k])
    <3>1. k + 1 \in Nat /\ k + 1 # 0 /\ (k + 1) - 1 = k
      OBVIOUS
    <3> QED
      BY <3>1 DEF IsSearch
  <2> QED
    BY <2>1, <2>2
<1>2. 0 \in B
  BY <1>1
<1>3. ASSUME NEW k \in B PROVE k + 1 \in B
  <2>1. near[k + 1] = SearchStep(0, near[k]) /\ near[k] \in SUBSET S /\ s \in near[k]
    BY <1>1
  <2>2. s \in near[k + 1]
    BY <2>1 DEF SearchStep
  <2>3. ASSUME NEW v \in near[k + 1] PROVE v \in S
    <3>1. CASE v \in near[k]
      BY <2>1, <3>1
    <3>2. CASE \E e \in Darts : v = EndNode(e) /\ StartNode(e) \in near[k] /\ ResCap(e) > 0
      BY <2>1, <3>2
    <3> QED
      BY <2>1, <2>3, <3>1, <3>2 DEF SearchStep
  <2> QED
    BY <2>2, <2>3
<1>4. B = Nat
  <2> HIDE DEF B
  <2>1. B \in SUBSET Nat
    BY DEF B
  <2> QED
    BY <1>2, <1>3, <2>1, AllNumbers
<1>5. ASSUME NEW k \in Nat PROVE near[k] \subseteq near[k + 1]
  BY <1>1 DEF SearchStep
<1> QED
  BY <1>1, <1>4, <1>5

\* It cannot find a new node in each of the rounds.
LEMMA SearchStops ==
  ASSUME NEW near, IsSearch(0, near), NEW S \in SUBSET Nodes, s \in S,
         \A d \in Darts : StartNode(d) \in S /\ EndNode(d) \notin S => ResCap(d) = 0
  PROVE  \E k \in Nodes : near[k + 1] = near[k]
<1> SUFFICES ASSUME \A k \in Nodes : near[k + 1] # near[k] PROVE FALSE
  OBVIOUS
<1>1. /\ \A k \in Nat : s \in near[k] /\ near[k] \in SUBSET S
      /\ \A k \in Nat : near[k] \subseteq near[k + 1]
  BY SearchIsSound
<1>2. IsFiniteSet(S) /\ \A T \in SUBSET S : IsFiniteSet(T) /\ Cardinality(T) \in Nat
  BY NodeSetsAreFinite, FS_Subset, FS_CardinalityType
<1>3. N \in Nat /\ Cardinality(S) <= N
  <2>1. N \in Nat /\ IsFiniteSet(Nodes) /\ Cardinality(Nodes) = N
    BY GraphType, NodeSetsAreFinite, FS_Interval DEF Nodes
  <2> QED
    BY <2>1, FS_Subset
<1> DEFINE B == {k \in Nat : k <= N => Cardinality(near[k]) >= k + 1}
<1>4. 0 \in B
  <2>1. near[0] # {} /\ Cardinality(near[0]) \in Nat /\ IsFiniteSet(near[0])
    BY <1>1, <1>2
  <2>2. Cardinality(near[0]) # 0
    BY <2>1, FS_EmptySet
  <2> QED
    BY <2>1, <2>2
<1>5. ASSUME NEW k \in B PROVE k + 1 \in B
  <2> SUFFICES ASSUME k + 1 <= N PROVE Cardinality(near[k + 1]) >= (k + 1) + 1
    OBVIOUS
  <2>1. k \in Nat /\ k \in Nodes /\ k <= N
    BY <1>3 DEF Nodes
  <2>2. near[k] \in SUBSET near[k + 1] /\ near[k + 1] \in SUBSET S /\ near[k] \in SUBSET S
    BY <1>1, <2>1
  <2>3. near[k + 1] # near[k]
    BY <2>1
  <2>4. /\ Cardinality(near[k]) \in Nat /\ Cardinality(near[k + 1]) \in Nat
        /\ IsFiniteSet(near[k + 1])
    BY <1>2, <2>2
  <2>5. /\ Cardinality(near[k]) <= Cardinality(near[k + 1])
        /\ Cardinality(near[k]) # Cardinality(near[k + 1])
    BY <2>2, <2>3, <2>4, FS_Subset
  <2>6. Cardinality(near[k]) >= k + 1
    BY <2>1
  <2> QED
    BY <2>1, <2>4, <2>5, <2>6
<1>6. N \in B
  <2> HIDE DEF B
  <2>1. B \in SUBSET Nat
    BY DEF B
  <2>2. B = Nat
    BY <1>4, <1>5, <2>1, AllNumbers
  <2> QED
    BY <1>3, <2>2
<1>7. Cardinality(near[N]) <= Cardinality(S) /\ Cardinality(near[N]) \in Nat
      /\ Cardinality(S) \in Nat
  <2>1. near[N] \in SUBSET S
    BY <1>1, <1>3
  <2> QED
    BY <1>2, <2>1, FS_Subset
<1> QED
  BY <1>3, <1>6, <1>7

\* The labels of the search are a cut without residual capacities.
LEMMA DepthIsCut ==
  ASSUME NEW S \in SUBSET Nodes, s \in S,
         \A d \in Darts : StartNode(d) \in S /\ EndNode(d) \notin S => ResCap(d) = 0,
         \A d \in Darts : ResCap(d) \in Int /\ ResCap(d) >= 0,
         NEW R, R = {v \in Nodes : Depth(0)[v] < NoNode}
  PROVE  /\ R \in SUBSET S /\ s \in R
         /\ \A d \in Darts : StartNode(d) \in R /\ EndNode(d) \notin R => ResCap(d) = 0
<1>1. \E g : IsSearch(0, g)
  BY SearchExists
<1> DEFINE near == CHOOSE g : IsSearch(0, g)
<1>2. IsSearch(0, near)
  BY <1>1
<1>3. \A v \in Nodes : Depth(0)[v] = Cardinality({k \in Nodes : v \notin near[k]})
  BY DepthIsRecursive
<1> HIDE DEF near
<1>4. /\ \A k \in Nat : s \in near[k] /\ near[k] \in SUBSET S
      /\ \A k \in Nat : near[k + 1] = SearchStep(0, near[k])
      /\ \A k \in Nat : near[k] \subseteq near[k + 1]
  BY <1>2, SearchIsSound
<1>5. PICK k \in Nodes : near[k + 1] = near[k]
  BY <1>2, SearchStops
<1>6. k \in Nat /\ Nodes \subseteq Nat
  BY DEF Nodes
<1>7. \A j \in Nat : near[j] \subseteq near[k]
  <2> DEFINE B == {j \in Nat : /\ near[j] \subseteq near[k]
                               /\ j >= k => near[j] = near[k]}
             A == {i \in Nat : \A j \in Nat : j <= i => near[j] \subseteq near[i]}
  <2>1. 0 \in A
    OBVIOUS
  <2>2. ASSUME NEW i \in A PROVE i + 1 \in A
    <3>1. i \in Nat /\ near[i] \subseteq near[i + 1]
      BY <1>4
    <3>2. ASSUME NEW j \in Nat, j <= i + 1 PROVE near[j] \subseteq near[i + 1]
      <4>1. CASE j = i + 1
        BY <4>1
      <4>2. CASE j # i + 1
        <5>1. j <= i
          BY <3>1, <3>2, <4>2
        <5> QED
          BY <3>1, <5>1
      <4> QED
        BY <4>1, <4>2
    <3> QED
      BY <3>1, <3>2
  <2>3. A = Nat
    <3> HIDE DEF A
    <3>1. A \in SUBSET Nat
      BY DEF A
    <3> QED
      BY <2>1, <2>2, <3>1, AllNumbers
  <2>4. \A j \in Nat : j <= k => near[j] \subseteq near[k]
    BY <1>6, <2>3
  <2>5. 0 \in B
    BY <1>6, <2>4
  <2>6. ASSUME NEW j \in B PROVE j + 1 \in B
    <3>1. CASE j >= k
      <4>1. near[j] = near[k]
        BY <3>1
      <4>2. near[j + 1] = near[k]
        BY <1>4, <1>5, <1>6, <4>1
      <4> QED
        BY <4>2
    <3>2. CASE ~(j >= k)
      <4>1. j + 1 \in Nat /\ j + 1 <= k
        BY <1>6, <3>2
      <4>2. near[j + 1] \subseteq near[k]
        BY <2>4, <4>1
      <4>3. j + 1 >= k => j + 1 = k
        BY <1>6, <4>1
      <4> QED
        BY <4>1, <4>2, <4>3
    <3> QED
      BY <3>1, <3>2
  <2>7. B = Nat
    <3> HIDE DEF B
    <3>1. B \in SUBSET Nat
      BY DEF B
    <3> QED
      BY <2>5, <2>6, <3>1, AllNumbers
  <2> QED
    BY <2>7
<1>8. R = near[k]
  <2>1. ASSUME NEW v \in Nodes
        PROVE  Depth(0)[v] < NoNode <=> v \in near[k]
    <3> DEFINE T == {j \in Nodes : v \notin near[j]}
    <3>1. IsFiniteSet(Nodes) /\ T \in SUBSET Nodes /\ Cardinality(Nodes) = N /\ N \in Nat
      BY GraphType, NodeSetsAreFinite, FS_Interval DEF Nodes
    <3>2. Cardinality(T) \in Nat /\ Cardinality(T) <= N
      BY <3>1, FS_Subset, FS_CardinalityType
    <3>3. Cardinality(T) = N <=> T = Nodes
      BY <3>1, FS_Subset
    <3>4. T = Nodes <=> v \notin near[k]
      BY <1>6, <1>7
    <3>5. Depth(0)[v] = Cardinality(T)
      BY <1>3
    <3> HIDE DEF T
    <3> QED
      BY <3>1, <3>2, <3>3, <3>4, <3>5 DEF NoNode
  <2>2. near[k] \subseteq Nodes
    BY <1>4, <1>6
  <2> QED
    BY <2>1, <2>2
<1>9. ASSUME NEW d \in Darts, StartNode(d) \in R, EndNode(d) \notin R
      PROVE  ResCap(d) = 0
  <2>1. EndNode(d) \notin SearchStep(0, near[k])
    BY <1>4, <1>5, <1>6, <1>8, <1>9
  <2>2. ~(ResCap(d) > 0)
    BY <1>8, <1>9, <2>1 DEF SearchStep
  <2> QED
    BY <2>2
<1> QED
  BY <1>4, <1>6, <1>8, <1>9
-----------------------------------------------------------------------------
LEMMA ActiveWork ==
  ASSUME PreflowInv, WorkInv, [Next]_vars
  PROVE  WorkInv'
<1>1. CASE ~Plain'
  BY <1>1 DEF WorkInv
<1>2. CASE Plain' /\ AugmentingStep /\ UNCHANGED local
  BY <1>2, AugmentingMethod DEF Plain, Augmentations
<1>3. CASE Plain' /\ (Search \/ Verify)
  BY <1>3 DEF Search, Verify, WorkInv, InPreflow, Working
<1>4. CASE Plain' /\ PreflowStep
  <2>1. Plain
    BY <1>4 DEF Plain, PreflowStep, PreflowStart, Saturate, Activate, Select, Skip, PushAlong,
                Relabel, Retire, PreflowEnd, network
  <2>2. CASE PreflowEnd
    BY <2>2 DEF PreflowEnd, WorkInv, InPreflow, Working
  <2> QED
    BY <1>4, <2>1, <2>2, StartWork, SaturateWork, ActivateWork, SelectWork, SkipWork, PushWork,
       RelabelWork, RetireWork DEF PreflowStep
<1>5. CASE Plain' /\ UNCHANGED vars
  <2>1. UNCHANGED <<ucap, lcap, flow, div, dist, method, pc, failed, Q, admissible, u, canRelabel>>
    BY <1>5 DEF vars, network, local
  <2>2. Plain
    BY <1>5, <2>1 DEF Plain
  <2>3. CASE InPreflow
    <3>1. ExcessIsReal'
      BY <2>1, <2>2, <2>3, ExcessUnchanged DEF WorkInv
    <3>2. Working => QueueIsExact' /\ ArcsAreKnown'
      BY <2>1, <2>2, <2>3 DEF WorkInv, QueueIsExact, ArcsAreKnown, IsAdmissible, ResCap, Capacity
    <3> QED
      BY <2>1, <2>2, <2>3, <3>1, <3>2 DEF WorkInv, InPreflow, Working
  <2>4. CASE ~InPreflow
    BY <2>1, <2>4 DEF WorkInv, InPreflow, Working
  <2> QED
    BY <2>3, <2>4
<1> QED
  BY <1>1, <1>2, <1>3, <1>4, <1>5 DEF Next

THEOREM WorkInvariant == Spec => []WorkInv
<1>1. PreflowInv /\ WorkInv /\ [Next]_vars => WorkInv'
  BY ActiveWork
<1> QED
  BY <1>1, InitWork, PreflowInvariant, PTL DEF Spec

\* MXF_PushRelabel(): the methods that push all they can never lose sight of an active node or
\* an admissible arc, and they put none of them into a queue where it already is.
THEOREM WorkStaysKnown == Spec => []WorkIsKnown
<1>1. PreflowInv /\ WorkInv => WorkIsKnown
  <2> SUFFICES ASSUME PreflowInv, WorkInv, Working, method # "SCALE"
               PROVE  WorkIsKnown
    BY DEF WorkIsKnown
  <2>1. Plain
    BY DEF PreflowInv, Working, Plain, Preflows
  <2> QED
    BY <2>1, WorkingWork DEF WorkIsKnown, QueueIsExact, ArcsAreKnown
<1> QED
  BY <1>1, WorkInvariant, PreflowInvariant, PTL

\* Only Dinic's method blocks nodes.
OnlyDinicBlocks == pc = "block" => method = "DINIC"

LEMMA OnlyDinicHasBlocks == Spec => []OnlyDinicBlocks
<1>1. Init => OnlyDinicBlocks
  BY DEF Init, OnlyDinicBlocks
<1>2. OnlyDinicBlocks /\ [Next]_vars => OnlyDinicBlocks'
  <2> SUFFICES ASSUME OnlyDinicBlocks, [Next]_vars PROVE OnlyDinicBlocks'
    OBVIOUS
  <2>1. CASE PreflowStep
    BY <2>1 DEF PreflowStep, PreflowStart, Saturate, Activate, Select, Skip, PushAlong, Relabel,
                Retire, PreflowEnd, network, OnlyDinicBlocks, Discharging
  <2>2. CASE AugmentingStep
    BY <2>2 DEF AugmentingStep, AugmentStart, Interrupt, Explore, AugmentAlong, Rescale, Finish,
           BuildLayers, FindPath, Block, EndPhase, network, OnlyDinicBlocks
  <2>3. CASE Search \/ Verify \/ UNCHANGED vars
    BY <2>3 DEF Search, Verify, vars, network, OnlyDinicBlocks
  <2> QED
    BY <2>1, <2>2, <2>3 DEF Next
<1> QED
  BY <1>1, <1>2, PTL DEF Spec
-----------------------------------------------------------------------------
(* The result of the methods that push all they can. *)

IsCut(S) ==
  /\ s \in S /\ t \notin S
  /\ \A d \in Darts : StartNode(d) \in S /\ EndNode(d) \notin S => ResCap(d) = 0

CutLabels == {v \in Nodes : dist[v] < NoNode}

\* When no node has an excess any more, the preflow is an st-flow, and the last cut is still
\* there; the search finds one.
ResultInv ==
  Plain /\ pc \in {"search", "verify", "done"} =>
    /\ ucap \in [Arcs -> Int] /\ lcap \in [Arcs -> Int] /\ flow \in [Arcs -> Int]
    /\ div \in [Nodes -> Int]
    /\ Legal /\ Balanced /\ div = Divergence(flow) /\ ~failed
    /\ \E S \in SUBSET Nodes : IsCut(S)
    /\ pc = "verify" => IsCut(CutLabels)

BoundsInv == ucap \in UpperBounds /\ lcap \in [Arcs -> LowCaps]

\* Nothing of what the invariant is about changes.
LEMMA ResultUnchanged ==
  ASSUME ResultInv, Plain, pc \in {"search", "verify", "done"},
         UNCHANGED <<ucap, lcap, flow, div>>
  PROVE  /\ ucap' \in [Arcs -> Int] /\ lcap' \in [Arcs -> Int] /\ flow' \in [Arcs -> Int]
         /\ div' \in [Nodes -> Int]
         /\ Legal' /\ Balanced' /\ div' = Divergence(flow)'
         /\ \E S \in SUBSET Nodes : IsCut(S)'
<1>1. div' = Divergence(flow)'
  BY DEF ResultInv, Divergence
<1>2. \A S \in SUBSET Nodes : IsCut(S)' <=> IsCut(S)
  BY DEF IsCut, ResCap, Capacity
<1> QED
  BY <1>1, <1>2 DEF ResultInv, Legal, Balanced

LEMMA EndGivesResult ==
  ASSUME PreflowInv, WorkInv, PreflowEnd, Plain
  PROVE  ResultInv'
<1>1. Working /\ Core /\ ExcessIsReal /\ QueueIsExact /\ ~failed /\ Q = {}
  BY WorkingWork DEF PreflowEnd, Working
<1>2. UNCHANGED <<ucap, lcap, flow, div, failed>> /\ pc' = "search"
  BY DEF PreflowEnd
<1>3. Balanced
  <2> SUFFICES ASSUME NEW v \in Nodes \ {s, t} PROVE div[v] = 0
    BY DEF Balanced
  <2>1. v \in Inner /\ div[v] \in Int /\ div[v] >= 0
    BY <1>1 DEF Core, Typed, Inner, ExcessIsReal
  <2>2. ~(div[v] > 0)
    BY <1>1, <2>1 DEF QueueIsExact, PreflowEnd
  <2> QED
    BY <2>1, <2>2
<1>4. \E S \in SUBSET Nodes : IsCut(S)
  BY <1>1, CutExists DEF SourceIsCutOff, IsCut
<1>5. Legal
  BY <1>1, LegalIsResidual DEF Core, Typed
<1>6. div' = Divergence(flow)'
  BY <1>1, <1>2 DEF ExcessIsReal, Divergence
<1>7. Legal' /\ Balanced'
  BY <1>2, <1>3, <1>5 DEF Legal, Balanced
<1>8. \E S \in SUBSET Nodes : IsCut(S)'
  BY <1>2, <1>4 DEF IsCut, ResCap, Capacity
<1> QED
  BY <1>1, <1>2, <1>6, <1>7, <1>8 DEF ResultInv, Core, Typed

\* The labels of the search are a cut as well.
LEMMA SearchFindsCut ==
  ASSUME PreflowInv, ResultInv, Search, Plain
  PROVE  ResultInv'
<1>1. UNCHANGED <<ucap, lcap, flow, div, failed>> /\ pc = "search" /\ dist' = Depth(0)
  BY DEF Search
<1>2. PICK S \in SUBSET Nodes : IsCut(S)
  BY <1>1 DEF ResultInv
<1>3. \A d \in Darts : ResCap(d) \in Int /\ ResCap(d) >= 0
  <2>1. NeverNegative
    BY <1>1, LegalIsResidual DEF ResultInv
  <2> QED
    BY <1>1, <2>1, ResCapInt DEF ResultInv, NeverNegative
<1> DEFINE R == {v \in Nodes : Depth(0)[v] < NoNode}
<1>4. IsCut(R)
  <2> HIDE DEF R
  <2>1. R = {v \in Nodes : Depth(0)[v] < NoNode}
    BY DEF R
  <2> QED
    BY <1>2, <1>3, <2>1, DepthIsCut DEF IsCut
<1>5. CutLabels' = R
  BY <1>1 DEF CutLabels
<1> HIDE DEF R
<1>6. IsCut(CutLabels)'
  BY <1>1, <1>4, <1>5 DEF IsCut, ResCap, Capacity
<1>7. ~failed'
  BY <1>1 DEF ResultInv
<1> QED
  BY <1>1, <1>6, <1>7, ResultUnchanged DEF ResultInv

\* The check of the result succeeds.
LEMMA VerifySucceeds ==
  ASSUME PreflowInv, ResultInv, Verify, Plain
  PROVE  ResultInv'
<1>1. UNCHANGED <<ucap, lcap, flow, div, method>> /\ pc = "verify" /\ pc' = "done"
  BY DEF Verify
<1>2. IsCut(CutLabels) /\ CutLabels \in SUBSET Nodes
  BY <1>1 DEF ResultInv, CutLabels
<1>3. /\ ucap \in [Arcs -> Int] /\ lcap \in [Arcs -> Int] /\ flow \in [Arcs -> Int]
      /\ div \in [Nodes -> Int] /\ Legal /\ Balanced /\ div = Divergence(flow) /\ ~failed
  BY <1>1 DEF ResultInv
<1>4. div[t] = CutCapacity(ucap, lcap, CutLabels)
  BY <1>2, <1>3, ValueIsBounded DEF IsCut
<1>5. ~failed'
  <2>1. failed' = (failed \/ ~Balanced \/ div[t] # CutCapacity(ucap, lcap, CutLabels))
    BY DEF Verify, CutLabels
  <2> QED
    BY <1>3, <1>4, <2>1, Zenon
<1> QED
  BY <1>1, <1>5, ResultUnchanged DEF ResultInv

LEMMA NextResult ==
  ASSUME PreflowInv, WorkInv, ResultInv, [Next]_vars
  PROVE  ResultInv'
<1>1. CASE ~Plain'
  BY <1>1 DEF ResultInv
<1>2. CASE Plain' /\ AugmentingStep
  BY <1>2, AugmentingMethod DEF Plain, Augmentations
<1>3. CASE Plain' /\ (Search \/ Verify)
  <2>1. Plain
    BY <1>3 DEF Search, Verify, Plain
  <2> QED
    BY <1>3, <2>1, SearchFindsCut, VerifySucceeds
<1>4. CASE Plain' /\ PreflowStep
  <2>1. Plain
    BY <1>4 DEF Plain, PreflowStep, PreflowStart, Saturate, Activate, Select, Skip, PushAlong,
                Relabel, Retire, PreflowEnd, network
  <2>2. CASE PreflowEnd
    BY <2>1, <2>2, EndGivesResult
  <2>3. CASE ~PreflowEnd
    <3>1. pc' \in {"saturate", "select", "push", "rest"}
      BY <1>4, <2>1, <2>3 DEF PreflowStep, PreflowStart, Saturate, Activate, Select, Skip,
         PushAlong, Relabel, Retire, network, Discharging
    <3> QED
      BY <3>1 DEF ResultInv
  <2> QED
    BY <2>2, <2>3
<1>5. CASE Plain' /\ UNCHANGED vars
  <2>1. UNCHANGED <<ucap, lcap, flow, div, dist, method, pc, failed>>
    BY <1>5 DEF vars, network
  <2>2. Plain
    BY <1>5, <2>1 DEF Plain
  <2>3. IsCut(CutLabels)' <=> IsCut(CutLabels)
    BY <2>1 DEF IsCut, CutLabels, ResCap, Capacity
  <2>4. CASE pc \in {"search", "verify", "done"}
    <3>1. ~failed' /\ (pc' = "verify" => IsCut(CutLabels)')
      BY <2>1, <2>2, <2>3, <2>4 DEF ResultInv
    <3> QED
      BY <2>1, <2>2, <2>4, <3>1, ResultUnchanged DEF ResultInv
  <2>5. CASE pc \notin {"search", "verify", "done"}
    BY <2>1, <2>5 DEF ResultInv
  <2> QED
    BY <2>4, <2>5
<1> QED
  BY <1>1, <1>2, <1>3, <1>4, <1>5 DEF Next

LEMMA BoundsStay == Spec => []BoundsInv
<1>1. Init => BoundsInv
  BY DEF Init, BoundsInv
<1>2. BoundsInv /\ [Next]_vars => BoundsInv'
  <2> SUFFICES ASSUME BoundsInv, [Next]_vars PROVE UNCHANGED <<ucap, lcap>>
    BY DEF BoundsInv
  <2> QED
    BY DEF Next, PreflowStep, PreflowStart, Saturate, Activate, Select, Skip, PushAlong, Relabel,
       Retire, PreflowEnd, AugmentingStep, AugmentStart, Interrupt, Explore, AugmentAlong, Rescale,
       Finish, BuildLayers, FindPath, Block, EndPhase, Search, Verify, vars, network
<1> QED
  BY <1>1, <1>2, PTL DEF Spec

\* MXF_PushRelabel(): in every network with integer capacities, the methods that push all they
\* can end with an st-flow whose value is the capacity of a minimum cut, and the check of the
\* result succeeds.
THEOREM PlainFlowIsMaximum == Spec => [](method \in {"FIFO", "HIGH"} => FlowIsMaximum)
<1>1. Init => ResultInv
  BY DEF Init, ResultInv
<1>2. PreflowInv /\ WorkInv /\ ResultInv /\ [Next]_vars => ResultInv'
  BY NextResult
<1>3. PreflowInv /\ ResultInv /\ BoundsInv => (method \in {"FIFO", "HIGH"} => FlowIsMaximum)
  <2> SUFFICES ASSUME PreflowInv, ResultInv, BoundsInv, Plain PROVE FlowIsMaximum
    BY DEF Plain
  <2>1. pc \notin {"explored", "stopped"}
    BY DEF PreflowInv, PreflowPlaces, Plain, Augmentations
  <2>2. CASE pc \in {"search", "verify", "done"}
    <3>1. Legal /\ Balanced /\ div = Divergence(flow) /\ ~failed
      BY <2>2 DEF ResultInv
    <3>2. PICK S \in SUBSET Nodes : IsCut(S)
      BY <2>2 DEF ResultInv
    <3>3. div[t] = Optimum
      BY <2>2, <3>1, <3>2, CutProvesOptimum DEF ResultInv, BoundsInv, IsCut
    <3> QED
      BY <3>1, <3>3 DEF FlowIsMaximum
  <2>3. CASE pc \notin {"search", "verify", "done"}
    BY <2>1, <2>3 DEF FlowIsMaximum
  <2> QED
    BY <2>2, <2>3
<1> QED
  BY <1>1, <1>2, <1>3, PreflowInvariant, WorkInvariant, BoundsStay, PTL DEF Spec
-----------------------------------------------------------------------------
(* The methods that augment along paths. *)

\* A path from s to v that goes from layer to layer.
IsPath(p, v) ==
  /\ p \in Seq(Darts)
  /\ v = IF p = <<>> THEN s ELSE EndNode(p[Len(p)])
  /\ \A i \in 1 .. Len(p) : /\ StartNode(p[i]) = IF i = 1 THEN s ELSE EndNode(p[i - 1])
                            /\ dist[StartNode(p[i])] = i - 1 /\ dist[EndNode(p[i])] = i

IsLayered(A) == \A d \in A : dist[EndNode(d)] = dist[StartNode(d)] + 1

Extended(A, to, v) ==
  IF v = s THEN {<<>>}
  ELSE UNION {{Append(p, d) : p \in to[StartNode(d)]} : d \in {e \in A : EndNode(e) = v}}

ArePaths(A, to) == to = [v \in Nodes |-> Extended(A, to, v)]

LEMMA PathsAreRecursive ==
  ASSUME NEW A
  PROVE  PathsBy(A) = (CHOOSE to : ArePaths(A, to))[t]
BY Zenon DEF PathsBy, ArePaths, Extended

LEMMA ExtendedPaths ==
  ASSUME NEW A, NEW to, NEW v, NEW p
  PROVE  p \in Extended(A, to, v) <=>
           IF v = s THEN p = <<>>
           ELSE \E d \in A : EndNode(d) = v /\ \E q \in to[StartNode(d)] : p = Append(q, d)
<1>1. CASE v = s
  BY <1>1 DEF Extended
<1>2. CASE v # s
  <2>1. Extended(A, to, v)
          = UNION {{Append(q, d) : q \in to[StartNode(d)]} : d \in {e \in A : EndNode(e) = v}}
    BY <1>2 DEF Extended
  <2>2. p \in Extended(A, to, v) <=>
          \E d \in {e \in A : EndNode(e) = v} : p \in {Append(q, d) : q \in to[StartNode(d)]}
    BY <2>1
  <2>3. \A d : p \in {Append(q, d) : q \in to[StartNode(d)]}
                 <=> \E q \in to[StartNode(d)] : p = Append(q, d)
    OBVIOUS
  <2> QED
    BY <1>2, <2>2, <2>3
<1> QED
  BY <1>1, <1>2

\* As every arc leads to the next layer, the paths to a layer are known after as many rounds.
LEMMA PathsExist ==
  ASSUME dist \in [Nodes -> 0 .. N], NEW A \in SUBSET Darts, IsLayered(A)
  PROVE  \E to : ArePaths(A, to)
<1> DEFINE D == [Nodes -> SUBSET Seq(Darts)]
           F == [T \in D |-> [v \in Nodes |-> Extended(A, T, v)]]
           a == [v \in Nodes |-> {}]
<1>1. ASSUME NEW T \in D, NEW v \in Nodes
      PROVE  Extended(A, T, v) \in SUBSET Seq(Darts)
  <2>1. \A d \in A : StartNode(d) \in Nodes /\ d \in Darts
    BY DartEnds
  <2>2. \A d \in A : T[StartNode(d)] \in SUBSET Seq(Darts)
    BY <2>1
  <2>3. \A d \in A : \A p \in T[StartNode(d)] : Append(p, d) \in Seq(Darts)
    BY <2>1, <2>2
  <2>4. <<>> \in Seq(Darts)
    OBVIOUS
  <2> SUFFICES ASSUME NEW p \in Extended(A, T, v) PROVE p \in Seq(Darts)
    OBVIOUS
  <2>5. CASE v = s
    BY <2>4, <2>5, ExtendedPaths
  <2>6. CASE v # s
    <3>1. PICK d \in A : \E q \in T[StartNode(d)] : p = Append(q, d)
      BY <2>6, ExtendedPaths
    <3> QED
      BY <2>3, <3>1
  <2> QED
    BY <2>5, <2>6
<1>2. F \in [D -> D] /\ a \in D
  BY <1>1
<1>3. \A T \in D : F[T] = [v \in Nodes |-> Extended(A, T, v)]
  OBVIOUS
<1> HIDE DEF D, F, a
<1>4. PICK g : /\ g = [k \in Nat |-> IF k = 0 THEN a ELSE F[g[k - 1]]]
               /\ g \in [Nat -> D]
  <2>1. \E g : /\ g = [k \in Nat |-> IF k = 0 THEN a ELSE F[g[k - 1]]]
               /\ g \in [Nat -> D]
    BY ONLY <1>2, IterationExists
  <2> QED
    BY <2>1, Zenon
<1>5. ASSUME NEW k \in Nat
      PROVE  g[k + 1] = [v \in Nodes |-> Extended(A, g[k], v)]
  <2>1. k + 1 \in Nat /\ k + 1 # 0 /\ (k + 1) - 1 = k /\ g[k] \in D
    BY <1>4
  <2>2. g[k + 1] = F[g[k]]
    BY <1>4, <2>1
  <2> QED
    BY <1>3, <2>1, <2>2
<1> DEFINE B == {k \in Nat : \A v \in Nodes : dist[v] < k => g[k + 1][v] = g[k][v]}
<1>6. 0 \in B
  <2>1. N \in Nat
    BY GraphType
  <2> QED
    BY <2>1
<1>7. ASSUME NEW k \in B PROVE k + 1 \in B
  <2>1. ASSUME NEW v \in Nodes, dist[v] < k + 1
        PROVE  g[k + 2][v] = g[k + 1][v]
    <3>1. k \in Nat /\ k + 1 \in Nat /\ (k + 1) + 1 = k + 2
      OBVIOUS
    <3>2. g[k + 1][v] = Extended(A, g[k], v)
      BY <1>5, <3>1
    <3>5. g[k + 2][v] = Extended(A, g[k + 1], v)
      <4>1. g[(k + 1) + 1] = [w \in Nodes |-> Extended(A, g[k + 1], w)]
        BY <1>5, <3>1
      <4> QED
        BY <3>1, <4>1
    <3>3. ASSUME NEW d \in {e \in A : EndNode(e) = v}
          PROVE  g[k + 1][StartNode(d)] = g[k][StartNode(d)]
      <4>1. StartNode(d) \in Nodes /\ dist[v] = dist[StartNode(d)] + 1
        BY DartEnds DEF IsLayered
      <4>2. dist[StartNode(d)] < k
        BY <2>1, <3>1, <4>1, GraphType
      <4> QED
        BY <4>1, <4>2
    <3>4. Extended(A, g[k], v) = Extended(A, g[k + 1], v)
      <4>1. \A p : p \in Extended(A, g[k], v) <=> p \in Extended(A, g[k + 1], v)
        BY <3>3, ExtendedPaths
      <4> QED
        BY <4>1
    <3> QED
      BY <3>2, <3>4, <3>5
  <2> QED
    BY <2>1
<1>8. N + 1 \in Nat /\ (N + 1) \in B
  <2>1. B = Nat
    <3> HIDE DEF B
    <3>1. B \in SUBSET Nat
      BY DEF B
    <3> QED
      BY <1>6, <1>7, <3>1, AllNumbers
  <2> QED
    <3>1. N + 1 \in Nat
      BY GraphType
    <3> QED
      BY <2>1, <3>1
<1>9. \A v \in Nodes : g[(N + 1) + 1][v] = g[N + 1][v]
  <2>1. \A v \in Nodes : dist[v] < N + 1
    BY GraphType
  <2> QED
    BY <1>8, <2>1
<1>10. g[N + 1] = [v \in Nodes |-> g[N + 1][v]]
  BY <1>4, <1>8 DEF D
<1>11. ArePaths(A, g[N + 1])
  <2>1. \A v \in Nodes : g[N + 1][v] = Extended(A, g[N + 1], v)
    BY <1>5, <1>8, <1>9
  <2> QED
    BY <1>10, <2>1 DEF ArePaths
<1> QED
  BY <1>11

LEMMA PathExtended ==
  ASSUME NEW v, NEW p, IsPath(p, v), NEW d \in Darts,
         StartNode(d) = v, dist[v] = Len(p), dist[EndNode(d)] = Len(p) + 1
  PROVE  IsPath(Append(p, d), EndNode(d))
<1> DEFINE q == Append(p, d)
<1>1. /\ p \in Seq(Darts) /\ q \in Seq(Darts) /\ Len(q) = Len(p) + 1 /\ Len(p) \in Nat
      /\ q # <<>> /\ q[Len(p) + 1] = d /\ \A i \in 1 .. Len(p) : q[i] = p[i]
  BY DEF IsPath
<1> HIDE DEF q
<1>2. ASSUME NEW i \in 1 .. Len(q)
      PROVE  /\ StartNode(q[i]) = IF i = 1 THEN s ELSE EndNode(q[i - 1])
             /\ dist[StartNode(q[i])] = i - 1 /\ dist[EndNode(q[i])] = i
  <2>1. CASE i \in 1 .. Len(p)
    <3>1. q[i] = p[i] /\ (i # 1 => q[i - 1] = p[i - 1])
      BY <1>1, <2>1
    <3> QED
      BY <2>1, <3>1 DEF IsPath
  <2>2. CASE i = Len(p) + 1
    <3>1. i # 1 => Len(p) \in 1 .. Len(p) /\ q[i - 1] = p[Len(p)] /\ p # <<>>
      BY <1>1, <2>2
    <3>2. i = 1 => p = <<>>
      BY <1>1, <2>2
    <3> QED
      BY <1>1, <2>2, <3>1, <3>2 DEF IsPath
  <2> QED
    BY <1>1, <2>1, <2>2
<1> QED
  BY <1>1, <1>2 DEF IsPath, q

LEMMA PathLength ==
  ASSUME NEW v, NEW p, IsPath(p, v), dist[s] = 0
  PROVE  dist[v] = Len(p)
<1>1. CASE p = <<>>
  BY <1>1 DEF IsPath
<1>2. CASE p # <<>>
  <2>1. Len(p) \in 1 .. Len(p)
    BY <1>2 DEF IsPath
  <2> QED
    BY <1>2, <2>1 DEF IsPath
<1> QED
  BY <1>1, <1>2

\* The paths that the search for a path may find.
LEMMA PathsAreSound ==
  ASSUME dist \in [Nodes -> 0 .. N], dist[s] = 0, NEW A \in SUBSET Darts, IsLayered(A),
         NEW p \in PathsBy(A)
  PROVE  IsPath(p, t) /\ \A i \in 1 .. Len(p) : p[i] \in A
<1> DEFINE to == CHOOSE g : ArePaths(A, g)
<1>1. ArePaths(A, to)
  BY PathsExist
<1>2. PathsBy(A) = to[t]
  BY PathsAreRecursive
<1> HIDE DEF to
<1> DEFINE Good(q, v) == IsPath(q, v) /\ \A i \in 1 .. Len(q) : q[i] \in A
           B == {k \in Nat : \A v \in Nodes : dist[v] = k => \A q \in to[v] : Good(q, v)}
<1>3. ASSUME NEW v \in Nodes PROVE to[v] = Extended(A, to, v)
  BY <1>1 DEF ArePaths
<1>4. Good(<<>>, s)
  BY DEF IsPath
<1>5. ASSUME NEW v \in Nodes, v # s, NEW q \in to[v],
             \A w \in Nodes : dist[v] = dist[w] + 1 => \A r \in to[w] : Good(r, w)
      PROVE  Good(q, v)
  <2>1. PICK d \in A : EndNode(d) = v /\ \E r \in to[StartNode(d)] : q = Append(r, d)
    BY <1>3, <1>5, ExtendedPaths
  <2>0. PICK r \in to[StartNode(d)] : q = Append(r, d)
    BY <2>1
  <2>2. StartNode(d) \in Nodes /\ dist[v] = dist[StartNode(d)] + 1 /\ d \in Darts
    BY <2>1, DartEnds DEF IsLayered
  <2>3. Good(r, StartNode(d))
    BY <1>5, <2>2, <2>0
  <2>4. dist[StartNode(d)] = Len(r)
    BY <2>3, PathLength
  <2>5. IsPath(q, v)
    <3>1. IsPath(r, StartNode(d)) /\ Len(r) \in Nat
      BY <2>3 DEF IsPath
    <3>2. dist[EndNode(d)] = Len(r) + 1
      BY <2>1, <2>2, <2>4
    <3> HIDE DEF Good
    <3>3. IsPath(Append(r, d), EndNode(d))
      BY <2>2, <2>4, <3>1, <3>2, PathExtended
    <3> QED
      BY <2>0, <2>1, <3>3
  <2>6. \A i \in 1 .. Len(q) : q[i] \in A
    <3>1. r \in Seq(Darts) /\ \A i \in 1 .. Len(r) : r[i] \in A
      BY <2>3 DEF IsPath
    <3>2. Len(q) = Len(r) + 1 /\ \A i \in 1 .. Len(q) : q[i] = IF i = Len(q) THEN d ELSE r[i]
      BY <2>0, <2>2, <3>1
    <3> QED
      BY <3>1, <3>2
  <2> QED
    BY <2>5, <2>6
<1>6. 0 \in B
  <2>1. ASSUME NEW v \in Nodes, dist[v] = 0, NEW q \in to[v] PROVE Good(q, v)
    <3>1. CASE v = s
      BY <1>3, <1>4, <2>1, <3>1 DEF Extended
    <3>2. CASE v # s
      <4>1. \A w \in Nodes : dist[v] # dist[w] + 1
        BY <2>1, GraphType
      <4> HIDE DEF Good
      <4> QED
        BY <1>5, <2>1, <3>2, <4>1
    <3> QED
      BY <3>1, <3>2
  <2> HIDE DEF Good
  <2> QED
    BY <2>1
<1>7. ASSUME NEW k \in B PROVE k + 1 \in B
  <2>1. ASSUME NEW v \in Nodes, dist[v] = k + 1, NEW q \in to[v] PROVE Good(q, v)
    <3>1. v # s
      BY <2>1
    <3>2. \A w \in Nodes : dist[v] = dist[w] + 1 => dist[w] = k
      BY <2>1, GraphType
    <3> HIDE DEF Good
    <3> QED
      BY <1>5, <2>1, <3>1, <3>2
  <2> HIDE DEF Good
  <2> QED
    BY <2>1
<1>8. B = Nat
  <2> HIDE DEF B
  <2>1. B \in SUBSET Nat
    BY DEF B
  <2> QED
    BY <1>6, <1>7, <2>1, AllNumbers
<1>9. t \in Nodes /\ dist[t] \in B
  BY <1>8, TerminalsType, GraphType
<1>10. Good(p, t)
  <2> HIDE DEF Good
  <2> QED
    BY <1>2, <1>9
<1> QED
  BY <1>10

\* No arc is met twice on such a path, in whatever direction.
LEMMA PathArcsDiffer ==
  ASSUME NEW v, NEW p, IsPath(p, v), NEW i \in 1 .. Len(p), NEW j \in 1 .. Len(p), i # j
  PROVE  p[i] # p[j] /\ p[i] # Opposite(p[j]) /\ p[i][1] # p[j][1]
<1>1. /\ p[i] \in Darts /\ p[j] \in Darts
      /\ dist[StartNode(p[i])] = i - 1 /\ dist[EndNode(p[i])] = i
      /\ dist[StartNode(p[j])] = j - 1 /\ dist[EndNode(p[j])] = j
  BY DEF IsPath
<1>2. p[i] # p[j]
  BY <1>1
<1>3. p[i] # Opposite(p[j])
  <2>1. StartNode(Opposite(p[j])) = EndNode(p[j]) /\ EndNode(Opposite(p[j])) = StartNode(p[j])
    BY <1>1, DartEnds
  <2> QED
    BY <1>1, <2>1
<1>4. ASSUME p[i][1] = p[j][1] PROVE FALSE
  <2>1. PICK a \in Arcs, b \in {0, 1} : p[i] = <<a, b>>
    BY <1>1 DEF Darts
  <2>2. PICK c \in {0, 1} : p[j] = <<a, c>>
    BY <1>1, <1>4, <2>1 DEF Darts
  <2>3. Opposite(p[j]) = <<a, 1 - c>>
    BY <2>2 DEF Opposite
  <2> QED
    BY <1>2, <1>3, <2>1, <2>2, <2>3
<1> QED
  BY <1>2, <1>3, <1>4

\* The largest number of a finite set.
LEMMA MaxExists ==
  ASSUME NEW n \in Nat, NEW S \in SUBSET (0 .. n), S # {}
  PROVE  Max(S) \in S /\ \A y \in S : y <= Max(S)
<1> DEFINE T == {n - y : y \in S}
<1>1. T \in SUBSET Nat /\ T # {}
  <2>1. \A y \in S : n - y \in Nat
    OBVIOUS
  <2>2. PICK y \in S : TRUE
    OBVIOUS
  <2>3. n - y \in T
    OBVIOUS
  <2> QED
    BY <2>1, <2>3
<1>2. PICK x \in T : \A y \in T : x <= y
  <2> HIDE DEF T
  <2> QED
    BY <1>1, LeastLabel
<1>3. n - x \in S /\ \A y \in S : n - x >= y
  <2>1. PICK z \in S : x = n - z
    BY <1>2
  <2>2. z \in 0 .. n /\ n - x = z
    BY <2>1
  <2>3. ASSUME NEW y \in S PROVE z >= y
    <3>1. n - y \in T /\ y \in 0 .. n
      BY DEF T
    <3>2. x <= n - y
      BY <1>2, <3>1
    <3> QED
      BY <2>1, <2>2, <3>1, <3>2
  <2> QED
    BY <2>2, <2>3
<1> HIDE DEF T
<1>4. Max(S) \in S /\ \A y \in S : Max(S) >= y
  BY <1>3 DEF Max
<1> QED
  BY <1>4

\* FindCap(): no arc of the path has less.
LEMMA CapOfPath ==
  ASSUME \A d \in Darts : ResCap(d) \in Int /\ ResCap(d) >= 0,
         NEW p \in Seq(Darts), p # <<>>
  PROVE  FindCap(p) \in Nat /\ \A i \in 1 .. Len(p) : FindCap(p) <= ResCap(p[i])
<1> DEFINE T == {ResCap(p[i]) : i \in DOMAIN p}
<1>1. DOMAIN p = 1 .. Len(p) /\ 1 \in DOMAIN p /\ \A i \in DOMAIN p : p[i] \in Darts
  OBVIOUS
<1>2. T \in SUBSET Nat /\ T # {}
  BY <1>1
<1>3. PICK x \in T : \A y \in T : x <= y
  BY <1>2, LeastLabel
<1>4. FindCap(p) = Min(T)
  BY DEF FindCap
<1>5. \A i \in DOMAIN p : ResCap(p[i]) \in T
  OBVIOUS
<1> HIDE DEF T
<1>6. Min(T) \in T /\ \A y \in T : Min(T) <= y
  BY <1>3 DEF Min
<1> QED
  BY <1>1, <1>2, <1>4, <1>5, <1>6

\* No arc is met twice, in either direction.
ArcsDiffer(p) ==
  /\ p \in Seq(Darts)
  /\ \A i, j \in 1 .. Len(p) : i # j => p[i][1] # p[j][1]

LEMMA PathDiffers == \A p, v : IsPath(p, v) => ArcsDiffer(p)
<1> SUFFICES ASSUME NEW p, NEW v, IsPath(p, v) PROVE ArcsDiffer(p)
  OBVIOUS
<1> QED
  BY PathArcsDiffer DEF IsPath, ArcsDiffer

\* The flow when the arcs of p at the places in S have been augmented by x.
AlongPath(p, x, S) ==
  [a \in Arcs |-> IF \E i \in S : p[i] = <<a, 0>> THEN flow[a] + x
                  ELSE IF \E i \in S : p[i] = <<a, 1>> THEN flow[a] - x ELSE flow[a]]

LEMMA AlongOneMore ==
  ASSUME flow \in [Arcs -> Int], NEW x \in Int, NEW p, ArcsDiffer(p),
         NEW S \in SUBSET (1 .. Len(p)), NEW i \in S
  PROVE  AlongPath(p, x, S) = Pushed(AlongPath(p, x, S \ {i}), p[i], x)
<1> DEFINE g == AlongPath(p, x, S \ {i})
<1>1. p[i] \in Darts /\ i \in 1 .. Len(p)
  BY DEF ArcsDiffer
<1>2. PICK b \in Arcs, c \in {0, 1} : p[i] = <<b, c>>
  BY <1>1 DEF Darts
<1>3. g \in [Arcs -> Int]
  BY DEF AlongPath
<1>4. ASSUME NEW j \in S \ {i} PROVE p[j][1] # b
  BY <1>1, <1>2 DEF ArcsDiffer
<1>5. g[b] = flow[b]
  <2>1. \A j \in S \ {i} : p[j] # <<b, 0>> /\ p[j] # <<b, 1>>
    BY <1>4
  <2> QED
    BY <2>1 DEF AlongPath
<1>6. AlongPath(p, x, S)[b] = IF c = 0 THEN flow[b] + x ELSE flow[b] - x
  <2>1. \A j \in S : p[j] = <<b, 1 - c>> => FALSE
    BY <1>2, <1>4
  <2>2. CASE c = 0
    BY <1>2, <2>2 DEF AlongPath
  <2>3. CASE c = 1
    BY <1>2, <2>1, <2>3 DEF AlongPath
  <2> QED
    BY <2>2, <2>3
<1>7. ASSUME NEW a \in Arcs \ {b} PROVE AlongPath(p, x, S)[a] = g[a]
  <2>1. \A e \in {0, 1} : p[i] # <<a, e>>
    BY <1>2
  <2> QED
    BY <2>1 DEF AlongPath
<1>8. Pushed(g, p[i], x) = [g EXCEPT ![b] = IF c = 0 THEN @ + x ELSE @ - x]
  BY <1>2 DEF Pushed
<1>9. AlongPath(p, x, S) = [a \in Arcs |-> AlongPath(p, x, S)[a]]
  BY DEF AlongPath
<1> HIDE DEF g
<1>10. Pushed(g, p[i], x)
         = [a \in Arcs |-> IF a = b THEN (IF c = 0 THEN flow[b] + x ELSE flow[b] - x) ELSE g[a]]
  BY <1>3, <1>5, <1>8
<1>11. \A a \in Arcs : AlongPath(p, x, S)[a]
         = IF a = b THEN (IF c = 0 THEN flow[b] + x ELSE flow[b] - x) ELSE g[a]
  BY <1>6, <1>7
<1>12. AlongPath(p, x, S) = Pushed(g, p[i], x)
  BY <1>9, <1>10, <1>11
<1> QED
  BY <1>12 DEF g

IsFold(p, x, g) ==
  g = [S \in SUBSET DOMAIN p |->
         IF S = {} THEN flow ELSE Pushed(g[S \ {Max(S)}], p[Max(S)], x)]

LEMMA AugmentedIsFold ==
  ASSUME NEW p, NEW x
  PROVE  Augmented(p, x) = (CHOOSE g : IsFold(p, x, g))[DOMAIN p]
BY Zenon DEF Augmented, FoldLeft, MapThenFoldSet, IsFold

\* Augment(): every arc of the path is augmented once; apart from the ends of the path,
\* the divergences stay.
LEMMA AugmentedFlow ==
  ASSUME flow \in [Arcs -> Int], NEW x \in Int, NEW p, ArcsDiffer(p), NEW n \in Nat,
         n = Len(p)
  PROVE  Augmented(p, x) = AlongPath(p, x, 1 .. n)
<1> DEFINE h == [S \in SUBSET DOMAIN p |-> AlongPath(p, x, S)]
<1>1. DOMAIN p = 1 .. n
  BY DEF ArcsDiffer
<1>2. AlongPath(p, x, {}) = flow
  BY DEF AlongPath
<1>3. IsFold(p, x, h)
  <2>1. ASSUME NEW S \in SUBSET DOMAIN p
        PROVE  h[S] = IF S = {} THEN flow ELSE Pushed(h[S \ {Max(S)}], p[Max(S)], x)
    <3>1. CASE S = {}
      BY <1>2, <3>1
    <3>2. CASE S # {}
      <4>1. S \in SUBSET (0 .. n)
        BY <1>1
      <4>2. Max(S) \in S
        BY <3>2, <4>1, MaxExists
      <4>3. h[S] = AlongPath(p, x, S) /\ h[S \ {Max(S)}] = AlongPath(p, x, S \ {Max(S)})
        OBVIOUS
      <4>4. AlongPath(p, x, S) = Pushed(AlongPath(p, x, S \ {Max(S)}), p[Max(S)], x)
        BY <1>1, <4>2, AlongOneMore
      <4> HIDE DEF h
      <4> QED
        BY <3>2, <4>3, <4>4
    <3> QED
      BY <3>1, <3>2
  <2>2. h = [S \in SUBSET DOMAIN p |-> h[S]]
    OBVIOUS
  <2> HIDE DEF h
  <2>3. [S \in SUBSET DOMAIN p |-> h[S]]
          = [S \in SUBSET DOMAIN p |->
               IF S = {} THEN flow ELSE Pushed(h[S \ {Max(S)}], p[Max(S)], x)]
    BY <2>1
  <2> QED
    BY <2>2, <2>3, Zenon DEF IsFold
<1> DEFINE g == CHOOSE f : IsFold(p, x, f)
<1>4. IsFold(p, x, g)
  <2> HIDE DEF h
  <2> QED
    BY <1>3, Zenon
<1>5. Augmented(p, x) = g[DOMAIN p]
  BY AugmentedIsFold
<1> HIDE DEF g, h
<1> DEFINE B == {k \in Nat : k <= n => g[1 .. k] = AlongPath(p, x, 1 .. k)}
<1>6. \A S \in SUBSET (1 .. n) :
        g[S] = IF S = {} THEN flow ELSE Pushed(g[S \ {Max(S)}], p[Max(S)], x)
  BY <1>1, <1>4 DEF IsFold
<1>7. 0 \in B
  <2>1. 1 .. 0 = {}
    OBVIOUS
  <2>2. g[{}] = flow
    BY <1>6
  <2> QED
    BY <1>2, <2>1, <2>2
<1>8. ASSUME NEW k \in B PROVE k + 1 \in B
  <2> SUFFICES ASSUME k + 1 <= n PROVE g[1 .. k + 1] = AlongPath(p, x, 1 .. k + 1)
    OBVIOUS
  <2> DEFINE S == 1 .. k + 1
  <2>1. k \in Nat /\ S \in SUBSET (1 .. n) /\ S \in SUBSET (0 .. n) /\ S # {} /\ k + 1 \in S
    <3>1. k \in Nat /\ k + 1 \in 1 .. k + 1
      OBVIOUS
    <3>2. \A i \in 1 .. k + 1 : i \in 1 .. n /\ i \in 0 .. n
      BY <3>1
    <3> QED
      BY <3>1, <3>2
  <2>2. Max(S) = k + 1
    <3>1. Max(S) \in S /\ \A y \in S : y <= Max(S)
      BY <2>1, MaxExists
    <3> QED
      BY <2>1, <3>1
  <2>3. S \ {k + 1} = 1 .. k
    BY <2>1
  <2>4. g[1 .. k] = AlongPath(p, x, 1 .. k)
    BY <2>1
  <2>5. AlongPath(p, x, S) = Pushed(AlongPath(p, x, S \ {k + 1}), p[k + 1], x)
    BY <2>1, AlongOneMore
  <2> HIDE DEF S
  <2>6. g[S] = Pushed(g[S \ {k + 1}], p[k + 1], x)
    BY <1>6, <2>1, <2>2
  <2>7. g[S] = AlongPath(p, x, S)
    BY <2>3, <2>4, <2>5, <2>6
  <2> QED
    BY <2>7 DEF S
<1>9. B = Nat
  <2> HIDE DEF B
  <2>1. B \in SUBSET Nat
    BY DEF B
  <2> QED
    BY <1>7, <1>8, <2>1, AllNumbers
<1>10. n \in B
  BY <1>9
<1> QED
  BY <1>1, <1>5, <1>10

\* The divergences D when x more units flow from s to v.
MovedTo(D, r, v, x) ==
  [w \in Nodes |-> D[w] + (IF w = v THEN x ELSE 0) - (IF w = r THEN x ELSE 0)]

LEMMA MovedFurther ==
  ASSUME NEW D \in [Nodes -> Int], NEW x \in Int, NEW r \in Nodes, NEW v \in Nodes, NEW w \in Nodes, v # w
  PROVE  /\ MovedTo(D, r, r, x) = D /\ MovedTo(D, r, w, x) \in [Nodes -> Int]
         /\ [MovedTo(D, r, v, x) EXCEPT ![v] = @ - x, ![w] = @ + x] = MovedTo(D, r, w, x)
<1>1. MovedTo(D, r, r, x) = D
  BY DEF MovedTo
<1>2. \A z \in Nodes : MovedTo(D, r, z, x) \in [Nodes -> Int]
  BY DEF MovedTo
<1>4. PICK g \in [Nodes -> Int] : g = MovedTo(D, r, v, x)
  BY <1>2
<1>5. PICK h \in [Nodes -> Int] : h = MovedTo(D, r, w, x)
  BY <1>2
<1>6. ASSUME NEW z \in Nodes
      PROVE  h[z] = IF z = v THEN g[z] - x ELSE IF z = w THEN g[z] + x ELSE g[z]
  <2>1. h[z] = D[z] + (IF z = w THEN x ELSE 0) - (IF z = r THEN x ELSE 0)
    BY <1>5 DEF MovedTo
  <2>2. g[z] = D[z] + (IF z = v THEN x ELSE 0) - (IF z = r THEN x ELSE 0)
    BY <1>4 DEF MovedTo
  <2> QED
    BY <2>1, <2>2
<1>7. [g EXCEPT ![v] = @ - x, ![w] = @ + x] = h
  BY <1>6
<1> QED
  BY <1>1, <1>2, <1>4, <1>5, <1>7

LEMMA MovedByPush ==
  ASSUME NEW D \in [Nodes -> Int], NEW x \in Int, NEW r \in Nodes, NEW d \in Darts, NEW f \in [Arcs -> Int],
         Divergence(f) = MovedTo(D, r, StartNode(d), x)
  PROVE  Divergence(Pushed(f, d, x)) = MovedTo(D, r, EndNode(d), x)
<1>1. Divergence(Pushed(f, d, x))
        = [Divergence(f) EXCEPT ![StartNode(d)] = @ - x, ![EndNode(d)] = @ + x]
  BY PushedDivergence
<1>2. StartNode(d) \in Nodes /\ EndNode(d) \in Nodes /\ StartNode(d) # EndNode(d)
  BY DartEnds
<1>3. [MovedTo(D, r, StartNode(d), x) EXCEPT ![StartNode(d)] = @ - x, ![EndNode(d)] = @ + x]
        = MovedTo(D, r, EndNode(d), x)
  BY <1>2, MovedFurther
<1> QED
  BY <1>1, <1>3

\* A walk from r to v, which takes no arc twice.
IsWalk(p, r, v) ==
  /\ ArcsDiffer(p) /\ v = IF p = <<>> THEN r ELSE EndNode(p[Len(p)])
  /\ \A i \in 1 .. Len(p) : StartNode(p[i]) = IF i = 1 THEN r ELSE EndNode(p[i - 1])

\* The flow along a part of the path is a flow from its start to where that part ends.
LEMMA AlongWalkDivergence ==
  ASSUME flow \in [Arcs -> Int], NEW x \in Int, NEW r \in Nodes, NEW v, NEW p,
         IsWalk(p, r, v), NEW n \in Nat, n = Len(p)
  PROVE  /\ AlongPath(p, x, 1 .. n) \in [Arcs -> Int] /\ Divergence(flow) \in [Nodes -> Int]
         /\ Divergence(AlongPath(p, x, 1 .. n)) = MovedTo(Divergence(flow), r, v, x)
<1> DEFINE E(k) == IF k = 0 THEN r ELSE EndNode(p[k])
           Z(k) == MovedTo(Divergence(flow), r, E(k), x)
           B == {k \in Nat : k <= n => Divergence(AlongPath(p, x, 1 .. k)) = Z(k)}
<1>1. Divergence(flow) \in [Nodes -> Int]
  <2>1. \A S \in SUBSET Arcs : Sum(flow, S) \in Int
    BY ArcSetsAreFinite, SumIsInteger
  <2> QED
    BY <2>1 DEF Divergence
<1>2. \A S : AlongPath(p, x, S) \in [Arcs -> Int]
  BY DEF AlongPath
<1>3. 0 \in B
  <2>1. AlongPath(p, x, {}) = flow /\ 1 .. 0 = {}
    BY DEF AlongPath
  <2>2. Z(0) = Divergence(flow)
    BY <1>1, TerminalsType, MovedFurther
  <2> QED
    BY <2>1, <2>2
<1>4. ASSUME NEW k \in B PROVE k + 1 \in B
  <2> SUFFICES ASSUME k + 1 <= n PROVE Divergence(AlongPath(p, x, 1 .. k + 1)) = Z(k + 1)
    OBVIOUS
  <2>1. k \in Nat /\ k + 1 \in 1 .. k + 1 /\ 1 .. k + 1 \in SUBSET (1 .. n)
    <3>1. k \in Nat
      OBVIOUS
    <3>2. \A i \in 1 .. k + 1 : i \in 1 .. n
      BY <3>1
    <3> QED
      BY <3>1, <3>2
  <2>2. (1 .. k + 1) \ {k + 1} = 1 .. k
    BY <2>1
  <2>3. AlongPath(p, x, 1 .. k + 1) = Pushed(AlongPath(p, x, 1 .. k), p[k + 1], x)
    <3>1. AlongPath(p, x, 1 .. k + 1)
            = Pushed(AlongPath(p, x, (1 .. k + 1) \ {k + 1}), p[k + 1], x)
      BY <2>1, AlongOneMore DEF IsWalk
    <3> QED
      BY <2>2, <3>1
  <2>4. Divergence(AlongPath(p, x, 1 .. k)) = Z(k)
    BY <2>1
  <2>5. p[k + 1] \in Darts /\ StartNode(p[k + 1]) = E(k) /\ EndNode(p[k + 1]) = E(k + 1)
    BY <2>1 DEF IsWalk, ArcsDiffer
  <2> HIDE DEF E
  <2> SUFFICES Z(k + 1) = Divergence(Pushed(AlongPath(p, x, 1 .. k), p[k + 1], x))
    BY <2>3
  <2>6. PICK f \in [Arcs -> Int] : f = AlongPath(p, x, 1 .. k)
    BY <1>2
  <2>7. PICK d \in Darts : d = p[k + 1]
    BY <2>5
  <2>8. PICK D \in [Nodes -> Int] : D = Divergence(flow)
    BY <1>1
  <2>9. Divergence(f) = MovedTo(D, r, StartNode(d), x)
    BY <2>4, <2>5, <2>6, <2>7, <2>8
  <2>10. Divergence(Pushed(f, d, x)) = MovedTo(D, r, EndNode(d), x)
    BY <2>9, MovedByPush
  <2> QED
    BY <2>5, <2>6, <2>7, <2>8, <2>10
<1>5. B = Nat
  <2> HIDE DEF B
  <2>1. B \in SUBSET Nat
    BY DEF B
  <2> QED
    BY <1>3, <1>4, <2>1, AllNumbers
<1>6. v = E(n)
  BY DEF IsWalk
<1>7. Divergence(AlongPath(p, x, 1 .. n)) = Z(n)
  <2>1. n \in B
    BY <1>5
  <2> HIDE DEF Z
  <2> QED
    BY <2>1
<1> QED
  BY <1>1, <1>2, <1>6, <1>7

LEMMA AlongPathDivergence ==
  ASSUME flow \in [Arcs -> Int], NEW x \in Int, NEW v, NEW p, IsPath(p, v), NEW n \in Nat,
         n = Len(p)
  PROVE  /\ AlongPath(p, x, 1 .. n) \in [Arcs -> Int] /\ Divergence(flow) \in [Nodes -> Int]
         /\ Divergence(AlongPath(p, x, 1 .. n)) = MovedTo(Divergence(flow), s, v, x)
<1>1. IsWalk(p, s, v)
  BY PathDiffers DEF IsWalk, IsPath
<1> QED
  BY <1>1, TerminalsType, AlongWalkDivergence

FlowInv ==
  /\ ucap \in [Arcs -> Int] /\ lcap \in [Arcs -> Int] /\ flow \in [Arcs -> Int]
  /\ div \in [Nodes -> Int]
  /\ Legal /\ div = Divergence(flow) /\ ~failed

LEMMA FlowUnchanged ==
  ASSUME FlowInv, UNCHANGED <<ucap, lcap, flow, div, failed>>
  PROVE  FlowInv'
<1>1. div' = Divergence(flow)'
  BY DEF FlowInv, Divergence
<1> QED
  BY <1>1 DEF FlowInv, Legal

LEMMA FlowResidual ==
  ASSUME FlowInv
  PROVE  \A d \in Darts : ResCap(d) \in Int /\ ResCap(d) >= 0
<1>1. NeverNegative
  BY LegalIsResidual DEF FlowInv
<1> QED
  BY <1>1, ResCapInt DEF FlowInv, NeverNegative

\* The flow along a path stays within its capacities.
LEMMA AlongPathLegal ==
  ASSUME ucap \in [Arcs -> Int], lcap \in [Arcs -> Int], flow \in [Arcs -> Int], Legal,
         NEW p, NEW x \in Nat, \A i \in 1 .. Len(p) : x <= ResCap(p[i]),
         NEW a \in Arcs
  PROVE  /\ lcap[a] <= AlongPath(p, x, 1 .. Len(p))[a]
         /\ AlongPath(p, x, 1 .. Len(p))[a] <= ucap[a]
<1>1. lcap[a] <= flow[a] /\ flow[a] <= ucap[a] /\ {lcap[a], flow[a], ucap[a]} \subseteq Int
  BY DEF Legal
<1>2. ASSUME NEW i \in 1 .. Len(p), p[i] = <<a, 0>> PROVE x <= ucap[a] - flow[a]
  BY <1>2 DEF ResCap, Capacity
<1>3. ASSUME NEW i \in 1 .. Len(p), p[i] = <<a, 1>> PROVE x <= flow[a] - lcap[a]
  BY <1>3 DEF ResCap, Capacity
<1>4. AlongPath(p, x, 1 .. Len(p))[a]
        = IF \E i \in 1 .. Len(p) : p[i] = <<a, 0>> THEN flow[a] + x
          ELSE IF \E i \in 1 .. Len(p) : p[i] = <<a, 1>> THEN flow[a] - x ELSE flow[a]
  BY DEF AlongPath
<1>5. PICK y : y = AlongPath(p, x, 1 .. Len(p))[a]
  OBVIOUS
<1>6. CASE \E i \in 1 .. Len(p) : p[i] = <<a, 0>>
  <2>1. x <= ucap[a] - flow[a]
    BY <1>2, <1>6
  <2>2. y = flow[a] + x
    BY <1>4, <1>5, <1>6
  <2> QED
    BY <1>1, <1>5, <2>1, <2>2
<1>7. CASE ~(\E i \in 1 .. Len(p) : p[i] = <<a, 0>>) /\ \E i \in 1 .. Len(p) : p[i] = <<a, 1>>
  <2>1. x <= flow[a] - lcap[a]
    BY <1>3, <1>7
  <2>2. y = flow[a] - x
    BY <1>4, <1>5, <1>7
  <2> QED
    BY <1>1, <1>5, <2>1, <2>2
<1>8. CASE ~(\E i \in 1 .. Len(p) : p[i] = <<a, 0>>) /\ ~(\E i \in 1 .. Len(p) : p[i] = <<a, 1>>)
  BY <1>1, <1>4, <1>8
<1> QED
  BY <1>6, <1>7, <1>8

\* Augment(): the flow stays within its capacities, and the divergences are kept up to date.
LEMMA AugmentKeepsFlow ==
  ASSUME FlowInv, NEW p, IsPath(p, t), NEW x \in Nat,
         \A i \in 1 .. Len(p) : x <= ResCap(p[i]),
         Augment(p, x), UNCHANGED <<ucap, lcap, failed>>
  PROVE  FlowInv'
<1>1. flow' = AlongPath(p, x, 1 .. Len(p)) /\ Len(p) \in Nat
  <2>1. ArcsDiffer(p) /\ Len(p) \in Nat
    BY PathDiffers DEF IsPath
  <2>2. flow \in [Arcs -> Int] /\ x \in Int /\ flow' = Augmented(p, x)
    BY DEF FlowInv, Augment
  <2> QED
    BY <2>1, <2>2, AugmentedFlow
<1>2. /\ flow' \in [Arcs -> Int]
      /\ Divergence(flow') = MovedTo(Divergence(flow), s, t, x)
  <2>1. PICK n \in Nat : n = Len(p)
    BY <1>1
  <2>2. /\ AlongPath(p, x, 1 .. n) \in [Arcs -> Int]
        /\ Divergence(AlongPath(p, x, 1 .. n)) = MovedTo(Divergence(flow), s, t, x)
    <3>1. flow \in [Arcs -> Int] /\ x \in Int
      BY DEF FlowInv
    <3> QED
      BY <2>1, <3>1, AlongPathDivergence
  <2> QED
    BY <1>1, <2>1, <2>2
<1>3. div' = Divergence(flow')
  <2>1. div' = [div EXCEPT ![s] = @ - x, ![t] = @ + x]
    BY DEF Augment
  <2>2. /\ MovedTo(div, s, s, x) = div
        /\ [MovedTo(div, s, s, x) EXCEPT ![s] = @ - x, ![t] = @ + x] = MovedTo(div, s, t, x)
    <3>1. div \in [Nodes -> Int] /\ x \in Int
      BY DEF FlowInv
    <3> QED
      BY <3>1, TerminalsType, MovedFurther
  <2>3. div' = MovedTo(div, s, t, x)
    BY <2>1, <2>2
  <2> QED
    BY <1>2, <2>3 DEF FlowInv
<1>4. div' \in [Nodes -> Int]
  <2>1. Divergence(flow) \in [Nodes -> Int]
    BY DEF FlowInv
  <2> QED
    BY <1>2, <1>3, <2>1 DEF MovedTo
<1>5. \A a \in Arcs : lcap[a] <= flow'[a] /\ flow'[a] <= ucap[a]
  BY <1>1, AlongPathLegal DEF FlowInv
<1>6. Legal'
  BY <1>5 DEF Legal
<1>7. div' = Divergence(flow)'
  BY <1>3
<1> QED
  BY <1>2, <1>4, <1>6, <1>7 DEF FlowInv

\* Between an st-flow and the path that is left, the amount is missing at the end of the path.
LEMMA PathFront ==
  ASSUME NEW v, NEW p, IsPath(p, v), p # <<>>
  PROVE  /\ Len(p) \in 1 .. Len(p) /\ Last(p) = p[Len(p)] /\ Last(p) \in Darts /\ EndNode(Last(p)) = v
         /\ IsPath(Front(p), StartNode(Last(p)))
         /\ Len(Front(p)) = Len(p) - 1 /\ \A i \in 1 .. Len(p) - 1 : Front(p)[i] = p[i]
<1>1. p \in Seq(Darts) /\ Len(p) \in Nat /\ Len(p) >= 1
  BY DEF IsPath
<1>2. Last(p) = p[Len(p)] /\ Front(p) = SubSeq(p, 1, Len(p) - 1)
  BY DEF Last, Front
<1>3. /\ Front(p) \in Seq(Darts) /\ Len(Front(p)) = Len(p) - 1
      /\ \A i \in 1 .. Len(p) - 1 : Front(p)[i] = p[i]
  <2>1. PICK m \in Nat : m = Len(p) - 1 /\ m <= Len(p)
    <3>1. Len(p) - 1 \in Nat /\ Len(p) - 1 <= Len(p)
      BY <1>1
    <3> QED
      BY <3>1
  <2>2. SubSeq(p, 1, m) = [i \in 1 .. m |-> p[i]]
    BY <1>1, <2>1
  <2>3. [i \in 1 .. m |-> p[i]] \in Seq(Darts) /\ Len([i \in 1 .. m |-> p[i]]) = m
    BY <1>1, <2>1
  <2> QED
    BY <1>2, <2>1, <2>2, <2>3
<1>4. Last(p) \in Darts /\ EndNode(Last(p)) = v
  BY <1>1, <1>2 DEF IsPath
<1>5. StartNode(Last(p)) = IF Front(p) = <<>> THEN s ELSE EndNode(Front(p)[Len(Front(p))])
  <2>1. StartNode(Last(p)) = IF Len(p) = 1 THEN s ELSE EndNode(p[Len(p) - 1])
    <3>1. PICK i \in 1 .. Len(p) : i = Len(p)
      BY <1>1
    <3>2. StartNode(p[i]) = IF i = 1 THEN s ELSE EndNode(p[i - 1])
      BY DEF IsPath
    <3> QED
      BY <1>2, <3>1, <3>2
  <2>2. CASE Len(p) = 1
    <3>1. Front(p) = <<>>
      BY <1>3, <2>2
    <3> QED
      BY <2>1, <2>2, <3>1
  <2>3. CASE Len(p) # 1
    <3>1. Front(p) # <<>> /\ Len(p) - 1 \in 1 .. Len(p) - 1
      BY <1>1, <1>3, <2>3
    <3> QED
      BY <1>3, <2>1, <2>3, <3>1
  <2> QED
    BY <2>2, <2>3
<1>6. ASSUME NEW i \in 1 .. Len(Front(p))
      PROVE  /\ StartNode(Front(p)[i]) = IF i = 1 THEN s ELSE EndNode(Front(p)[i - 1])
             /\ dist[StartNode(Front(p)[i])] = i - 1 /\ dist[EndNode(Front(p)[i])] = i
  <2>1. i \in 1 .. Len(p) /\ Front(p)[i] = p[i] /\ (i # 1 => Front(p)[i - 1] = p[i - 1])
    BY <1>1, <1>3
  <2> QED
    BY <2>1 DEF IsPath
<1> QED
  BY <1>1, <1>2, <1>3, <1>4, <1>5, <1>6 DEF IsPath

\* Dinic's method: the path that is augmented is taken off arc by arc from the target on; the
\* amount is missing where it ends.
Blocking ==
  /\ dist \in [Nodes -> 0 .. N] /\ dist[s] = 0
  /\ aux = [into |-> aux.into, degree |-> aux.degree, path |-> aux.path, amount |-> aux.amount]
  /\ aux.into \in [Nodes -> SUBSET Darts] /\ \A v \in Nodes : IsLayered(aux.into[v])
  /\ aux.amount \in Nat
  /\ \E w \in Nodes :
       /\ IsPath(aux.path, w)
       /\ \A i \in 1 .. Len(aux.path) : aux.amount <= ResCap(aux.path[i])
       /\ \A v \in Nodes \ {s, t} : div[v] = IF v = w THEN -aux.amount ELSE 0

AugmentingPlaces == {"start", "search", "explored", "stopped", "block", "verify", "done"}

\* The flow stays an st-flow; a search that fails has found a saturated cut.
AugmentInv ==
  method \in Augmentations =>
    /\ FlowInv
    /\ pc \in AugmentingPlaces
    /\ pc # "block" => Balanced
    /\ pc = "explored" => /\ dist \in [Nodes -> 0 .. N] /\ dist[s] = 0
                          /\ scale = 0 /\ dist[t] = NoNode => IsCut(CutLabels)
    /\ pc = "block" => Blocking
    /\ pc \in {"verify", "done"} => IsCut(CutLabels)

\* The cut depends on the flow and the labels only.
LEMMA CutUnchanged ==
  ASSUME UNCHANGED <<ucap, lcap, flow, dist>>
  PROVE  IsCut(CutLabels)' <=> IsCut(CutLabels)
BY DEF IsCut, CutLabels, ResCap, Capacity

LEMMA InitAugment == Init => AugmentInv
<1> SUFFICES ASSUME Init, method \in Augmentations PROVE AugmentInv
  BY DEF AugmentInv
<1>1. AllCaps \subseteq Int /\ LowCaps \subseteq Int
  BY CapsType DEF AllCaps
<1>2. ucap \in [Arcs -> Int] /\ lcap \in [Arcs -> Int] /\ flow \in [Arcs -> Int]
  <2>1. Amounts \subseteq Int
    BY DEF Amounts
  <2>2. ucap \in [Arcs -> AllCaps] /\ lcap \in [Arcs -> LowCaps] /\ flow \in [Arcs -> Amounts]
    BY DEF Init, UpperBounds
  <2> QED
    BY <1>1, <2>1, <2>2
<1>3. FlowInv
  BY <1>2 DEF Init, FlowInv
<1>4. pc = "start" /\ Balanced
  BY DEF Init
<1> QED
  BY <1>3, <1>4 DEF AugmentInv, AugmentingPlaces

\* Steps after which the flow is what it was before.
LEMMA SearchesAugment ==
  ASSUME AugmentInv, method \in Augmentations, AugmentStart \/ Interrupt \/ Explore \/ Rescale
  PROVE  AugmentInv'
<1>1. /\ UNCHANGED <<ucap, lcap, flow, div, failed, method>> /\ pc # "block"
      /\ pc' \in {"search", "stopped", "explored"}
  BY DEF AugmentStart, Interrupt, Explore, Rescale, network
<1>2. FlowInv /\ FlowInv' /\ Balanced'
  BY <1>1, FlowUnchanged DEF AugmentInv, Balanced
<1>3. CASE pc' # "explored"
  BY <1>1, <1>2, <1>3 DEF AugmentInv, AugmentingPlaces
<1>4. CASE pc' = "explored"
  <2>1. dist' = Depth(scale) /\ scale' = scale
    BY <1>4 DEF AugmentStart, Interrupt, Explore, Rescale, paths
  <2>2. dist' \in [Nodes -> 0 .. N] /\ dist'[s] = 0
    BY <2>1, DepthType
  <2>3. ASSUME scale = 0, dist'[t] = NoNode PROVE IsCut(CutLabels)'
    <3>1. PICK R : R = {v \in Nodes : Depth(0)[v] < NoNode}
      OBVIOUS
    <3>2. /\ R \in SUBSET Nodes /\ s \in R
          /\ \A d \in Darts : StartNode(d) \in R /\ EndNode(d) \notin R => ResCap(d) = 0
      <4>1. \A d \in Darts : StartNode(d) \in Nodes /\ EndNode(d) \notin Nodes => ResCap(d) = 0
        BY DartEnds
      <4>2. \A d \in Darts : ResCap(d) \in Int /\ ResCap(d) >= 0
        BY <1>2, FlowResidual
      <4> QED
        BY <3>1, <4>1, <4>2, TerminalsType, DepthIsCut
    <3>3. CutLabels' = R
      BY <2>1, <2>3, <3>1 DEF CutLabels
    <3>4. t \notin R
      <4>1. Depth(0)[t] = NoNode /\ N \in Nat
        BY <2>1, <2>3, GraphType
      <4> QED
        BY <3>1, <4>1 DEF NoNode
    <3> QED
      BY <1>1, <3>2, <3>3, <3>4 DEF IsCut, ResCap, Capacity
  <2> QED
    BY <1>2, <1>4, <2>1, <2>2, <2>3 DEF AugmentInv, AugmentingPlaces
<1> QED
  BY <1>3, <1>4

\* A path that is found leads to the target by arcs that start at the source.
LEMMA FoundPath ==
  ASSUME FlowInv, dist \in [Nodes -> 0 .. N], dist[s] = 0,
         NEW A \in SUBSET Darts, IsLayered(A), NEW p \in PathsBy(A)
  PROVE  /\ IsPath(p, t) /\ FindCap(p) \in Nat
         /\ \A i \in 1 .. Len(p) : FindCap(p) <= ResCap(p[i])
<1>1. IsPath(p, t)
  BY PathsAreSound
<1>2. p \in Seq(Darts) /\ p # <<>>
  BY <1>1, TerminalsType DEF IsPath
<1> QED
  BY <1>1, <1>2, FlowResidual, CapOfPath

LEMMA AlongAugment ==
  ASSUME AugmentInv, method \in Augmentations, AugmentAlong
  PROVE  AugmentInv'
<1>1. PICK p \in PathsBy(Layered(scale)) : Augment(p, FindCap(p))
  BY DEF AugmentAlong
<1>2. FlowInv /\ Balanced /\ dist \in [Nodes -> 0 .. N] /\ dist[s] = 0
  BY DEF AugmentInv, AugmentAlong
<1>3. Layered(scale) \in SUBSET Darts /\ IsLayered(Layered(scale))
  BY DEF Layered, IsLayered
<1>4. /\ IsPath(p, t) /\ FindCap(p) \in Nat
      /\ \A i \in 1 .. Len(p) : FindCap(p) <= ResCap(p[i])
  BY <1>1, <1>2, <1>3, FoundPath
<1>5. UNCHANGED <<ucap, lcap, failed, method>> /\ pc' = "search"
  BY DEF AugmentAlong
<1>6. FlowInv'
  BY <1>1, <1>2, <1>4, <1>5, AugmentKeepsFlow
<1>7. Balanced'
  <2>1. div' = [div EXCEPT ![s] = @ - FindCap(p), ![t] = @ + FindCap(p)]
    BY <1>1 DEF Augment
  <2>2. \A v \in Nodes \ {s, t} : div'[v] = div[v]
    BY <1>2, <2>1 DEF FlowInv
  <2> QED
    BY <1>2, <2>2 DEF Balanced
<1> QED
  BY <1>5, <1>6, <1>7 DEF AugmentInv, AugmentingPlaces

LEMMA FinishAugment ==
  ASSUME AugmentInv, method \in Augmentations, Finish
  PROVE  AugmentInv'
<1>1. UNCHANGED <<ucap, lcap, flow, div, dist, method, failed>> /\ pc = "explored" /\ pc' = "verify"
  BY DEF Finish
<1>2. FlowInv' /\ Balanced'
  BY <1>1, FlowUnchanged DEF AugmentInv, Balanced
<1>3. IsCut(CutLabels)
  BY <1>1 DEF AugmentInv, Finish
<1> QED
  BY <1>1, <1>2, <1>3, CutUnchanged DEF AugmentInv, AugmentingPlaces

\* Steps of Dinic's method that change neither the flow nor the layers.
LEMMA LayersAugment ==
  ASSUME AugmentInv, method \in Augmentations, BuildLayers \/ FindPath
  PROVE  AugmentInv'
<1>1. /\ UNCHANGED <<ucap, lcap, flow, div, dist, failed, method, scale>> /\ pc' = "block"
      /\ FlowInv /\ dist \in [Nodes -> 0 .. N] /\ dist[s] = 0
  BY DEF BuildLayers, FindPath, network, AugmentInv, Blocking
<1>2. FlowInv'
  BY <1>1, FlowUnchanged
<1>3. \A p, v : IsPath(p, v)' <=> IsPath(p, v)
  BY <1>1 DEF IsPath
<1>4. \A A : IsLayered(A)' <=> IsLayered(A)
  BY <1>1 DEF IsLayered
<1>5. \A d : ResCap(d)' = ResCap(d)
  BY <1>1 DEF ResCap, Capacity
<1>6. CASE BuildLayers
  <2>1. Balanced
    BY <1>6 DEF BuildLayers, AugmentInv
  <2>2. PICK f \in [Nodes -> SUBSET Darts] :
          f = [v \in Nodes |-> {d \in Layered(0) : EndNode(d) = v /\ dist[StartNode(d)] < dist[t]}]
    BY DEF Layered
  <2>3. \A v \in Nodes : IsLayered(f[v])
    BY <2>2 DEF IsLayered, Layered
  <2>4. PICK g : aux' = [into |-> f, degree |-> g, path |-> <<>>, amount |-> 0]
    BY <1>6, <2>2 DEF BuildLayers
  <2>5. /\ aux' = [into |-> aux'.into, degree |-> aux'.degree, path |-> aux'.path,
                   amount |-> aux'.amount]
        /\ aux'.into = f /\ aux'.path = <<>> /\ aux'.amount = 0
    BY <2>4
  <2>6. IsPath(<<>>, s)
    BY DEF IsPath
  <2>7. \A v \in Nodes \ {s, t} : div'[v] = IF v = s THEN -0 ELSE 0
    BY <1>1, <2>1 DEF Balanced
  <2>8. Blocking'
    BY <1>1, <1>3, <1>4, <1>5, <2>2, <2>3, <2>5, <2>6, <2>7, TerminalsType DEF Blocking
  <2> QED
    BY <1>1, <1>2, <2>8 DEF AugmentInv, AugmentingPlaces
<1>7. CASE FindPath
  <2>1. Blocking /\ aux.path = <<>>
    BY <1>7 DEF FindPath, AugmentInv
  <2> DEFINE A == {d \in Darts : d \in aux.into[EndNode(d)] /\ ~Dead(d)}
  <2>2. PICK p \in PathsBy(A) : aux' = [aux EXCEPT !.path = p, !.amount = FindCap(p)]
    BY <1>7 DEF FindPath
  <2>3. A \in SUBSET Darts /\ IsLayered(A)
    BY <2>1, DartEnds DEF Blocking, IsLayered
  <2> HIDE DEF A
  <2>4. /\ IsPath(p, t) /\ FindCap(p) \in Nat
        /\ \A i \in 1 .. Len(p) : FindCap(p) <= ResCap(p[i])
    BY <1>1, <2>2, <2>3, FoundPath
  <2>5. /\ aux' = [into |-> aux'.into, degree |-> aux'.degree, path |-> aux'.path,
                   amount |-> aux'.amount]
        /\ aux'.into = aux.into /\ aux'.path = p /\ aux'.amount = FindCap(p)
    BY <2>1, <2>2 DEF Blocking
  <2>6. \A v \in Nodes \ {s, t} : div[v] = 0
    <3>1. PICK w \in Nodes : /\ IsPath(<<>>, w)
                             /\ \A v \in Nodes \ {s, t} : div[v] = IF v = w THEN -aux.amount ELSE 0
      BY <2>1 DEF Blocking
    <3>2. w = s
      BY <3>1 DEF IsPath
    <3> QED
      BY <3>1, <3>2
  <2>7. \A v \in Nodes \ {s, t} : div'[v] = IF v = t THEN -aux'.amount ELSE 0
    BY <1>1, <2>6
  <2>8. Blocking'
    BY <1>1, <1>3, <1>4, <1>5, <2>1, <2>4, <2>5, <2>7, TerminalsType DEF Blocking
  <2> QED
    BY <1>1, <1>2, <2>8 DEF AugmentInv, AugmentingPlaces
<1> QED
  BY <1>6, <1>7

\* The last arc of the path is augmented: no other arc of the path is touched, and the amount
\* is now missing at the start node of that arc.
LEMMA BlockAugment ==
  ASSUME AugmentInv, method \in Augmentations, Block
  PROVE  AugmentInv'
<1>1. FlowInv /\ Blocking /\ pc = "block"
  BY DEF AugmentInv, Block
<1>2. UNCHANGED <<ucap, lcap, dist, failed, method, pc>>
  BY DEF Block
<1>3. PICK p : p = aux.path
  OBVIOUS
<1>4. PICK w \in Nodes :
        /\ IsPath(p, w) /\ p # <<>>
        /\ \A i \in 1 .. Len(p) : aux.amount <= ResCap(p[i])
        /\ \A v \in Nodes \ {s, t} : div[v] = IF v = w THEN -aux.amount ELSE 0
  BY <1>1, <1>3 DEF Blocking, Block
<1>5. PICK d \in Darts : d = Last(p)
  BY <1>4, PathFront
<1>6. PICK x \in Nat : x = aux.amount
  BY <1>1 DEF Blocking
<1>7. Push(d, x)
  BY <1>3, <1>5, <1>6 DEF Block
<1>8. PICK q : q = Front(p)
  OBVIOUS
<1>9. /\ Len(p) \in 1 .. Len(p) /\ p[Len(p)] = d /\ EndNode(d) = w /\ IsPath(q, StartNode(d))
      /\ Len(q) = Len(p) - 1 /\ \A i \in 1 .. Len(p) - 1 : q[i] = p[i]
  BY <1>4, <1>5, <1>8, PathFront
<1>10. /\ ResCap(d)' = ResCap(d) - x /\ ResCap(Opposite(d))' = ResCap(Opposite(d)) + x
       /\ \A e \in Darts \ {d, Opposite(d)} : ResCap(e)' = ResCap(e)
       /\ flow' \in [Arcs -> Int]
  <2>1. flow' = Pushed(flow, d, x) /\ UNCHANGED <<ucap, lcap>> /\ x \in Int
    BY <1>2, <1>7 DEF Push
  <2> QED
    BY <1>1, <2>1, PushResidual DEF FlowInv
<1>11. FlowInv'
  <2>1. x <= ResCap(d)
    BY <1>4, <1>6, <1>9
  <2>2. \A e \in Darts : ResCap(e) \in Int /\ ResCap(e) >= 0
    BY <1>1, FlowResidual
  <2>3. Opposite(d) \in Darts
    BY DartEnds
  <2>4. NeverNegative'
    BY <1>10, <2>1, <2>2, <2>3 DEF NeverNegative
  <2>5. Legal'
    <3>1. ucap' \in [Arcs -> Int] /\ lcap' \in [Arcs -> Int]
      BY <1>1, <1>2 DEF FlowInv
    <3>2. ASSUME NEW a \in Arcs PROVE lcap'[a] <= flow'[a] /\ flow'[a] <= ucap'[a]
      <4>1. /\ <<a, 0>> \in Darts /\ ResCap(<<a, 0>>)' = ucap'[a] - flow'[a]
            /\ <<a, 1>> \in Darts /\ ResCap(<<a, 1>>)' = flow'[a] - lcap'[a]
        BY DEF Darts, ResCap, Capacity
      <4>2. ResCap(<<a, 0>>)' >= 0 /\ ResCap(<<a, 1>>)' >= 0
        BY <2>4, <4>1 DEF NeverNegative
      <4> QED
        BY <1>10, <3>1, <4>1, <4>2
    <3> QED
      BY <3>2 DEF Legal
  <2>6. div' = Divergence(flow')
    BY <1>1, <1>7, PushKeepsDivergence DEF FlowInv
  <2>7. div' \in [Nodes -> Int]
    BY <1>1, <1>7, PushTyped DEF FlowInv
  <2> QED
    BY <1>1, <1>2, <1>10, <2>5, <2>6, <2>7 DEF FlowInv
<1>12. \A i \in 1 .. Len(q) : x <= ResCap(q[i])'
  <2> SUFFICES ASSUME NEW i \in 1 .. Len(q) PROVE x <= ResCap(q[i])'
    OBVIOUS
  <2>1. i \in 1 .. Len(p) /\ Len(p) \in 1 .. Len(p) /\ i # Len(p) /\ q[i] = p[i]
    BY <1>9
  <2>2. q[i] \in Darts /\ q[i] # d /\ q[i] # Opposite(d)
    <3>1. p[i] # p[Len(p)] /\ p[i] # Opposite(p[Len(p)])
      BY <1>4, <2>1, PathArcsDiffer
    <3> QED
      BY <1>4, <1>9, <2>1, <3>1 DEF IsPath
  <2>3. ResCap(q[i])' = ResCap(q[i])
    BY <1>10, <2>2
  <2> QED
    BY <1>4, <1>6, <2>1, <2>3
<1>13. ASSUME NEW v \in Nodes \ {s, t}
       PROVE  div'[v] = IF v = StartNode(d) THEN -x ELSE 0
  <2>1. StartNode(d) \in Nodes /\ EndNode(d) \in Nodes /\ StartNode(d) # EndNode(d)
    BY DartEnds
  <2>2. div[v] = IF v = EndNode(d) THEN -x ELSE 0
    BY <1>4, <1>6, <1>9
  <2>3. div' = [div EXCEPT ![StartNode(d)] = @ - x, ![EndNode(d)] = @ + x]
    BY <1>7 DEF Push
  <2> QED
    BY <1>1, <2>1, <2>2, <2>3 DEF FlowInv
<1>14. /\ aux' = [into |-> aux'.into, degree |-> aux'.degree, path |-> aux'.path,
                  amount |-> aux'.amount]
       /\ aux'.into = aux.into /\ aux'.path = q /\ aux'.amount = x
  <2>1. PICK g : aux' = [aux EXCEPT !.path = Front(@), !.degree = g]
    BY DEF Block
  <2>2. aux = [into |-> aux.into, degree |-> aux.degree, path |-> aux.path, amount |-> aux.amount]
    BY <1>1 DEF Blocking
  <2> QED
    BY <1>3, <1>6, <1>8, <2>1, <2>2
<1>15. Blocking'
  <2>1. IsPath(q, StartNode(d))' /\ StartNode(d) \in Nodes
    BY <1>2, <1>9, DartEnds DEF IsPath
  <2>2. \A v \in Nodes : IsLayered(aux.into[v])'
    BY <1>1, <1>2, <1>14 DEF Blocking, IsLayered
  <2> QED
    BY <1>1, <1>2, <1>12, <1>13, <1>14, <2>1, <2>2 DEF Blocking
<1> QED
  BY <1>1, <1>2, <1>11, <1>15 DEF AugmentInv, AugmentingPlaces

LEMMA PhaseAugment ==
  ASSUME AugmentInv, method \in Augmentations, EndPhase
  PROVE  AugmentInv'
<1>1. /\ UNCHANGED <<ucap, lcap, flow, div, failed, method>> /\ pc' = "search"
      /\ FlowInv /\ Blocking /\ aux.path = <<>>
  BY DEF EndPhase, AugmentInv
<1>2. Balanced
  <2>1. PICK w \in Nodes : /\ IsPath(<<>>, w)
                           /\ \A v \in Nodes \ {s, t} : div[v] = IF v = w THEN -aux.amount ELSE 0
    BY <1>1 DEF Blocking
  <2>2. w = s
    BY <2>1 DEF IsPath
  <2> QED
    BY <2>1, <2>2 DEF Balanced
<1>3. FlowInv' /\ Balanced'
  BY <1>1, <1>2, FlowUnchanged DEF Balanced
<1> QED
  BY <1>1, <1>3 DEF AugmentInv, AugmentingPlaces

\* The check of the result succeeds.
LEMMA VerifyAugment ==
  ASSUME AugmentInv, method \in Augmentations, Verify
  PROVE  AugmentInv'
<1>1. UNCHANGED <<ucap, lcap, flow, div, dist, method>> /\ pc = "verify" /\ pc' = "done"
  BY DEF Verify
<1>2. FlowInv /\ Balanced /\ IsCut(CutLabels) /\ CutLabels \in SUBSET Nodes
  BY <1>1 DEF AugmentInv, CutLabels
<1>3. div[t] = CutCapacity(ucap, lcap, CutLabels)
  BY <1>2, ValueIsBounded DEF IsCut, FlowInv
<1>4. ~failed'
  <2>1. failed' = (failed \/ ~Balanced \/ div[t] # CutCapacity(ucap, lcap, CutLabels))
    BY DEF Verify, CutLabels
  <2>2. ~failed
    BY <1>2 DEF FlowInv
  <2> QED
    BY <1>2, <1>3, <2>1, <2>2, Zenon
<1>5. FlowInv' /\ Balanced'
  <2>1. div' = Divergence(flow)'
    BY <1>1, <1>2 DEF FlowInv, Divergence
  <2> QED
    BY <1>1, <1>2, <1>4, <2>1 DEF FlowInv, Legal, Balanced
<1> QED
  BY <1>1, <1>2, <1>5, CutUnchanged DEF AugmentInv, AugmentingPlaces

LEMMA NextAugment ==
  ASSUME PreflowInv, AugmentInv, [Next]_vars
  PROVE  AugmentInv'
<1>1. CASE ~(method' \in Augmentations)
  BY <1>1 DEF AugmentInv
<1>2. CASE method' \in Augmentations /\ PreflowStep
  <2>1. method' = method
    BY <1>2 DEF PreflowStep, PreflowStart, Saturate, Activate, Select, Skip, PushAlong, Relabel,
                Retire, PreflowEnd, network
  <2>2. pc \notin {"saturate", "select", "push", "rest"} /\ method \notin Preflows
    BY <1>2, <2>1 DEF PreflowInv, Preflows, Augmentations
  <2> QED
    BY <1>2, <2>2 DEF PreflowStep, PreflowStart, Saturate, Activate, Select, Skip, Discharging,
                      PushAlong, Relabel, Retire, Exhausted, PreflowEnd, Working
<1>3. CASE AugmentingStep /\ UNCHANGED local
  <2>1. method \in Augmentations
    BY <1>3, AugmentingMethod
  <2> QED
    BY <1>3, <2>1, SearchesAugment, AlongAugment, FinishAugment, LayersAugment, BlockAugment,
       PhaseAugment DEF AugmentingStep
<1>4. CASE method' \in Augmentations /\ (Search \/ Verify)
  <2>1. method \in Augmentations /\ ~Search
    BY <1>4 DEF Search, Verify, Preflows, Augmentations
  <2> QED
    BY <1>4, <2>1, VerifyAugment
<1>5. CASE method' \in Augmentations /\ UNCHANGED vars
  <2>1. UNCHANGED <<ucap, lcap, flow, div, dist, method, pc, failed, scale, aux>>
    BY <1>5 DEF vars, network, paths
  <2>2. FlowInv'
    BY <1>5, <2>1, FlowUnchanged DEF AugmentInv
  <2>3. Blocking => Blocking'
    BY <2>1 DEF Blocking, IsPath, IsLayered, ResCap, Capacity
  <2> QED
    BY <1>5, <2>1, <2>2, <2>3, CutUnchanged DEF AugmentInv, Balanced
<1> QED
  BY <1>1, <1>2, <1>3, <1>4, <1>5 DEF Next

THEOREM AugmentInvariant == Spec => []AugmentInv
<1>1. PreflowInv /\ AugmentInv /\ [Next]_vars => AugmentInv'
  BY NextAugment
<1> QED
  BY <1>1, InitAugment, PreflowInvariant, PTL DEF Spec

\* MXF_EdmondsKarp(), MXF_CapacityScaling(), MXF_Dinic(): in every network with integer
\* capacities, the flow is an st-flow between two searches, also when the user stops the solver;
\* when the methods end by themselves, its value is the capacity of a minimum cut, and the check
\* of the result succeeds.
THEOREM AugmentedFlowIsMaximum == Spec => [](method \in Augmentations => FlowIsMaximum)
<1>1. AugmentInv /\ BoundsInv => (method \in Augmentations => FlowIsMaximum)
  <2> SUFFICES ASSUME AugmentInv, BoundsInv, method \in Augmentations PROVE FlowIsMaximum
    OBVIOUS
  <2>1. FlowInv /\ (pc # "block" => Balanced)
    BY DEF AugmentInv
  <2>2. ASSUME pc = "done" PROVE div[t] = Optimum
    <3>1. IsCut(CutLabels) /\ CutLabels \in SUBSET Nodes /\ Balanced
      BY <2>1, <2>2 DEF AugmentInv, CutLabels
    <3> QED
      BY <2>1, <3>1, CutProvesOptimum DEF FlowInv, BoundsInv, IsCut
  <2> QED
    BY <2>1, <2>2 DEF FlowIsMaximum, FlowInv
<1> QED
  BY <1>1, AugmentInvariant, BoundsStay, PTL
-----------------------------------------------------------------------------
(* Dinic's method: what is known about the layers. *)

\* A chain of sets of nodes that leave out one node stops to grow within N rounds.
LEMMA ChainStops ==
  ASSUME NEW near, NEW r \in Nodes,
         \A k \in Nat : near[k] \in SUBSET (Nodes \ {r}) /\ near[k] \subseteq near[k + 1]
  PROVE  \E k \in Nodes : near[k + 1] = near[k]
<1> SUFFICES ASSUME \A k \in Nodes : near[k + 1] # near[k] PROVE FALSE
  OBVIOUS
<1>1. /\ N \in Nat /\ IsFiniteSet(Nodes) /\ Cardinality(Nodes) = N
      /\ \A T \in SUBSET Nodes : IsFiniteSet(T) /\ Cardinality(T) \in Nat /\ Cardinality(T) <= N
  <2>1. N \in Nat /\ IsFiniteSet(Nodes) /\ Cardinality(Nodes) = N
    BY GraphType, NodeSetsAreFinite, FS_Interval DEF Nodes
  <2>2. ASSUME NEW T \in SUBSET Nodes
        PROVE  IsFiniteSet(T) /\ Cardinality(T) \in Nat /\ Cardinality(T) <= N
    BY <2>1, FS_Subset, FS_CardinalityType
  <2> QED
    BY <2>1, <2>2
<1> DEFINE B == {k \in Nat : k <= N => Cardinality(near[k]) >= k}
<1>2. 0 \in B
  BY <1>1
<1>3. ASSUME NEW k \in B PROVE k + 1 \in B
  <2> SUFFICES ASSUME k + 1 <= N PROVE Cardinality(near[k + 1]) >= k + 1
    OBVIOUS
  <2>1. k \in Nat /\ k \in Nodes /\ k <= N /\ k + 1 \in Nat
    BY <1>1 DEF Nodes
  <2>2. near[k] \in SUBSET near[k + 1] /\ near[k + 1] \in SUBSET Nodes /\ near[k + 1] # near[k]
    BY <2>1
  <2>3. Cardinality(near[k]) <= Cardinality(near[k + 1])
        /\ Cardinality(near[k]) # Cardinality(near[k + 1])
    BY <1>1, <2>2, FS_Subset
  <2>4. Cardinality(near[k]) \in Nat /\ Cardinality(near[k + 1]) \in Nat
    BY <1>1, <2>2
  <2>5. Cardinality(near[k]) >= k
    BY <2>1
  <2> QED
    BY <2>1, <2>3, <2>4, <2>5
<1>4. N \in B
  <2> HIDE DEF B
  <2>1. B \in SUBSET Nat
    BY DEF B
  <2>2. B = Nat
    BY <1>2, <1>3, <2>1, AllNumbers
  <2> QED
    BY <1>1, <2>2
<1>5. near[N] \in SUBSET Nodes /\ r \notin near[N]
  BY <1>1
<1>6. Cardinality(near[N]) # N
  BY <1>1, <1>5, FS_Subset
<1>7. Cardinality(near[N]) \in Nat /\ Cardinality(near[N]) <= N /\ Cardinality(near[N]) >= N
  BY <1>1, <1>4, <1>5
<1> QED
  BY <1>1, <1>6, <1>7

\* An ascending chain.
LEMMA ChainAscends ==
  ASSUME NEW near, \A k \in Nat : near[k] \subseteq near[k + 1],
         NEW i \in Nat, NEW j \in Nat, i <= j
  PROVE  near[i] \subseteq near[j]
<1> DEFINE A == {m \in Nat : i <= m => near[i] \subseteq near[m]}
<1>1. 0 \in A
  OBVIOUS
<1>2. ASSUME NEW m \in A PROVE m + 1 \in A
  <2>1. near[m] \subseteq near[m + 1] /\ m \in Nat
    OBVIOUS
  <2>2. CASE i <= m
    BY <2>1, <2>2
  <2>3. CASE ~(i <= m)
    <3>1. i <= m + 1 => i = m + 1
      BY <2>1, <2>3
    <3> QED
      BY <2>1, <3>1
  <2> QED
    BY <2>2, <2>3
<1>3. A = Nat
  <2> HIDE DEF A
  <2>1. A \in SUBSET Nat
    BY DEF A
  <2> QED
    BY <1>1, <1>2, <2>1, AllNumbers
<1> QED
  BY <1>3

\* A node is labelled with the number of the round in which the search finds it.
LEMMA DepthIsRound ==
  ASSUME NEW near, near = (CHOOSE g : IsSearch(0, g)), NEW v \in Nodes, NEW k \in Nodes
  PROVE  v \in near[k] <=> Depth(0)[v] <= k
<1>1. IsSearch(0, near)
  BY SearchExists
<1>2. Depth(0)[v] = Cardinality({j \in Nodes : v \notin near[j]})
  BY DepthIsRecursive
<1>3. \A j \in Nat : near[j] \subseteq near[j + 1]
  <2>1. \A d \in Darts : StartNode(d) \in Nodes /\ EndNode(d) \notin Nodes => ResCap(d) = 0
    BY DartEnds
  <2> QED
    BY <1>1, <2>1, TerminalsType, SearchIsSound
<1>4. PICK T : T = {j \in Nodes : v \notin near[j]}
  OBVIOUS
<1>5. IsFiniteSet(T) /\ Cardinality(T) \in Nat /\ k \in Nat /\ k < N /\ N \in Nat
  <2>1. T \in SUBSET Nodes
    BY <1>4
  <2>2. IsFiniteSet(T) /\ Cardinality(T) \in Nat
    BY <2>1, NodeSetsAreFinite, FS_CardinalityType
  <2> QED
    BY <2>2, GraphType DEF Nodes
<1>6. CASE v \in near[k]
  <2>1. ASSUME NEW j \in T PROVE j \in 0 .. k - 1
    <3>1. j \in Nat /\ v \notin near[j]
      BY <1>4 DEF Nodes
    <3>2. ~(k <= j)
      BY <1>3, <1>5, <1>6, <3>1, ChainAscends
    <3> QED
      BY <1>5, <3>1, <3>2
  <2>2. IsFiniteSet(0 .. k - 1) /\ Cardinality(0 .. k - 1) = k
    <3>1. 0 \in Int /\ k - 1 \in Int
      BY <1>5
    <3>2. IsFiniteSet(0 .. k - 1) /\ Cardinality(0 .. k - 1) = IF 0 > k - 1 THEN 0 ELSE (k - 1) - 0 + 1
      BY <3>1, FS_Interval
    <3> QED
      BY <1>5, <3>2
  <2>3. T \in SUBSET (0 .. k - 1)
    BY <2>1
  <2>4. Cardinality(T) <= k
    BY <2>2, <2>3, FS_Subset
  <2> QED
    BY <1>2, <1>4, <1>6, <2>4
<1>7. CASE v \notin near[k]
  <2>1. ASSUME NEW j \in 0 .. k PROVE j \in T
    <3>1. j \in Nat /\ j <= k /\ j \in Nodes
      BY <1>5 DEF Nodes
    <3>2. near[j] \subseteq near[k]
      BY <1>3, <1>5, <3>1, ChainAscends
    <3> QED
      BY <1>4, <1>7, <3>1, <3>2
  <2>2. Cardinality(0 .. k) = k + 1
    <3>1. Cardinality(0 .. k) = IF 0 > k THEN 0 ELSE k - 0 + 1
      BY <1>5, FS_Interval
    <3> QED
      BY <1>5, <3>1
  <2>3. (0 .. k) \in SUBSET T
    BY <2>1
  <2>4. Cardinality(0 .. k) <= Cardinality(T)
    BY <1>5, <2>3, FS_Subset
  <2>5. ~(Cardinality(T) <= k)
    BY <1>5, <2>2, <2>4
  <2> QED
    BY <1>2, <1>4, <1>7, <2>5
<1> QED
  BY <1>6, <1>7

\* A node that is found, other than the source, is the end of a residual arc from the layer before.
Reached ==
  \A v \in Nodes \ {s} : dist[v] < NoNode =>
    \E d \in Darts : EndNode(d) = v /\ ResCap(d) > 0 /\ dist[v] = dist[StartNode(d)] + 1

LEMMA DepthReaches ==
  ASSUME NEW v \in Nodes \ {s}, Depth(0)[v] < NoNode
  PROVE  \E d \in Darts : /\ EndNode(d) = v /\ ResCap(d) > 0
                          /\ Depth(0)[v] = Depth(0)[StartNode(d)] + 1
<1>1. PICK near : near = (CHOOSE g : IsSearch(0, g))
  OBVIOUS
<1>2. near = [k \in Nat |-> IF k = 0 THEN {s} ELSE SearchStep(0, near[k - 1])]
  BY <1>1, SearchExists DEF IsSearch
<1>3. PICK m \in Nat : m = Depth(0)[v] /\ m < N
  <2>1. Depth(0)[v] \in 0 .. N /\ N \in Nat
    BY DepthType, GraphType
  <2> QED
    BY <2>1 DEF NoNode
<1>4. m \in Nodes /\ v \in near[m] /\ m # 0
  <2>1. m \in Nodes
    BY <1>3, GraphType DEF Nodes
  <2>2. v \in near[m]
    BY <1>1, <1>3, <2>1, DepthIsRound
  <2>3. v \notin near[0]
    BY <1>2
  <2> QED
    BY <2>1, <2>2, <2>3
<1>5. PICK k \in Nodes : k = m - 1 /\ k \in Nat /\ m = k + 1
  <2>1. m - 1 \in Nodes /\ m - 1 \in Nat /\ m = (m - 1) + 1
    BY <1>3, <1>4, GraphType DEF Nodes
  <2> QED
    BY <2>1
<1>6. v \notin near[k]
  BY <1>1, <1>3, <1>5, DepthIsRound
<1>7. v \in SearchStep(0, near[k])
  BY <1>2, <1>3, <1>4, <1>5
<1>8. PICK d \in Darts : StartNode(d) \in near[k] /\ ResCap(d) > 0 /\ EndNode(d) = v
  BY <1>6, <1>7 DEF SearchStep
<1>9. StartNode(d) \in Nodes /\ Depth(0)[StartNode(d)] <= k
  BY <1>1, <1>8, DartEnds, DepthIsRound
<1>10. PICK j \in Nat : j = Depth(0)[StartNode(d)]
  BY <1>9, DepthType
<1>11. j = k
  <2> SUFFICES ASSUME j # k PROVE FALSE
    OBVIOUS
  <2>1. j \in Nodes /\ j + 1 \in Nodes /\ j + 1 <= k /\ j + 1 # 0 /\ (j + 1) - 1 = j
    BY <1>5, <1>9, <1>10, GraphType DEF Nodes
  <2>2. StartNode(d) \in near[j]
    BY <1>1, <1>9, <1>10, <2>1, DepthIsRound
  <2>3. near[j + 1] = SearchStep(0, near[j])
    <3>1. j + 1 \in Nat
      BY <1>10
    <3> QED
      BY <1>2, <2>1, <3>1
  <2>4. v \in near[j + 1]
    BY <1>8, <2>2, <2>3 DEF SearchStep
  <2>5. m <= j + 1
    BY <1>1, <1>3, <2>1, <2>4, DepthIsRound
  <2> QED
    BY <1>5, <2>1, <2>5
<1> QED
  BY <1>3, <1>5, <1>8, <1>10, <1>11
\* The arcs into a node that are not dead when the flow is f.
Live(f, v) == {e \in aux.into[v] : Capacity(f, e) # 0 /\ ~Blocked(StartNode(e))}

\* Those that do not start in D.
Left(f, v, D) == {e \in Live(f, v) : StartNode(e) \notin D}

\* The degrees count the arcs that are not dead, and the path that is augmented is made of such arcs.
LayersOpen ==
  /\ aux.degree \in [Nodes -> Nat]
  /\ \A v \in Nodes : /\ \A d \in aux.into[v] : EndNode(d) = v
                      /\ aux.degree[v] = Cardinality(Live(flow, v))
  /\ \A i \in 1 .. Len(aux.path) : aux.path[i] \in Live(flow, EndNode(aux.path[i]))

\* What TopErasure() is made of.
Less(d) == [aux.degree EXCEPT ![EndNode(d)] = @ - 1]

Lost(f, v, D) == Cardinality({e \in aux.into[v] : StartNode(e) \in D /\ Capacity(f, e) > 0})

TopStep(f, d, D) == D \cup {v \in Nodes : Less(d)[v] > 0 /\ Less(d)[v] = Lost(f, v, D)}

IsErasure(f, d, dead) ==
  dead = [k \in Nat |-> IF k = 0 THEN {v \in {EndNode(d)} : Less(d)[v] = 0}
                        ELSE TopStep(f, d, dead[k - 1])]

LEMMA TopErasureIsRecursive ==
  ASSUME NEW f, NEW d
  PROVE  TopErasure(f, d) = [v \in Nodes |->
           Less(d)[v] - Lost(f, v, (CHOOSE dead : IsErasure(f, d, dead))[N])]
BY Zenon DEF TopErasure, IsErasure, TopStep, Less, Lost

\* The flow f saturates d, which was not dead, and no other arc of the layers.
Saturates(f, d) ==
  /\ d \in Live(flow, EndNode(d)) /\ Capacity(f, d) = 0
  /\ \A v \in Nodes : \A e \in aux.into[v] :
       Capacity(f, e) \in Nat /\ (e # d => Capacity(f, e) = ResCap(e))

LEMMA DartsAreFinite == IsFiniteSet(Darts) /\ \A T \in SUBSET Darts : IsFiniteSet(T)
<1>1. IsFiniteSet(Arcs) /\ IsFiniteSet({0, 1})
  <2>1. {0, 1} = {0} \cup {1}
    OBVIOUS
  <2>2. IsFiniteSet({0}) /\ IsFiniteSet({1})
    BY FS_Singleton
  <2>3. IsFiniteSet({0} \cup {1})
    BY <2>2, FS_Union
  <2> QED
    BY <2>1, <2>3, GraphType
<1>2. IsFiniteSet(Darts)
  BY <1>1, FS_Product DEF Darts
<1> QED
  BY <1>2, FS_Subset

LEMMA LiveIsFinite ==
  ASSUME Blocking, NEW v \in Nodes
  PROVE  IsFiniteSet(aux.into[v]) /\ \A T \in SUBSET aux.into[v] : IsFiniteSet(T)
BY DartsAreFinite DEF Blocking

\* When d is saturated, its end node loses an arc, and no other node does yet.
LEMMA LessCounts ==
  ASSUME Blocking, LayersOpen, NEW f, NEW d \in Darts, Saturates(f, d)
  PROVE  /\ Less(d) \in [Nodes -> Nat] /\ aux.degree[EndNode(d)] > 0
         /\ \A v \in Nodes : /\ Less(d)[v] = Cardinality(Live(f, v))
                             /\ Less(d)[v] <= aux.degree[v]
                             /\ v # EndNode(d) => Less(d)[v] = aux.degree[v]
<1>1. EndNode(d) \in Nodes
  BY DartEnds
<1>2. PICK w \in Nodes : w = EndNode(d)
  BY <1>1
<1>3. aux.degree \in [Nodes -> Nat] /\ Less(d) = [aux.degree EXCEPT ![w] = @ - 1]
  BY <1>2 DEF LayersOpen, Less
<1>4. ASSUME NEW v \in Nodes, v # w
      PROVE  Less(d)[v] = aux.degree[v] /\ Less(d)[v] = Cardinality(Live(f, v))
  <2>1. \A e \in aux.into[v] : e # d
    BY <1>2, <1>4 DEF LayersOpen
  <2>2. \A e \in aux.into[v] : Capacity(f, e) = Capacity(flow, e)
    BY <2>1 DEF Saturates, ResCap
  <2>3. Live(f, v) = Live(flow, v)
    BY <2>2 DEF Live
  <2> QED
    BY <1>3, <1>4, <2>3 DEF LayersOpen
<1>5. /\ Less(d)[w] = aux.degree[w] - 1 /\ Less(d)[w] = Cardinality(Live(f, w))
      /\ Less(d)[w] \in Nat /\ aux.degree[w] \in Nat
  <2>1. d \in Live(flow, w) /\ d \notin Live(f, w)
    BY <1>2 DEF Saturates, Live
  <2>2. \A e \in aux.into[w] : e # d => Capacity(f, e) = Capacity(flow, e)
    BY DEF Saturates, ResCap
  <2>3. Live(flow, w) = Live(f, w) \cup {d}
    BY <2>1, <2>2 DEF Live
  <2>4. IsFiniteSet(Live(f, w))
    BY LiveIsFinite DEF Live
  <2>5. Cardinality(Live(flow, w)) = Cardinality(Live(f, w)) + 1
    BY <2>1, <2>3, <2>4, FS_AddElement
  <2>6. Cardinality(Live(f, w)) \in Nat
    BY <2>4, FS_CardinalityType
  <2>7. aux.degree[w] = Cardinality(Live(flow, w)) /\ Less(d)[w] = aux.degree[w] - 1
    BY <1>3 DEF LayersOpen
  <2> QED
    BY <2>5, <2>6, <2>7, <1>3
<1>6. aux.degree[EndNode(d)] > 0
  BY <1>2, <1>5
<1>7. Less(d) \in [Nodes -> Nat]
  BY <1>3, <1>5
<1>8. ASSUME NEW v \in Nodes
      PROVE  /\ Less(d)[v] = Cardinality(Live(f, v)) /\ Less(d)[v] <= aux.degree[v]
             /\ v # EndNode(d) => Less(d)[v] = aux.degree[v]
  <2>1. CASE v = w
    BY <1>2, <1>5, <2>1
  <2>2. CASE v # w
    BY <1>3, <1>4, <2>2
  <2> QED
    BY <2>1, <2>2
<1> QED
  BY <1>6, <1>7, <1>8

\* Of the arcs that are left, those from the nodes in D are lost.
LEMMA LostCounts ==
  ASSUME Blocking, LayersOpen, NEW f, NEW d \in Darts, Saturates(f, d),
         NEW D, \A v \in D : ~Blocked(v), NEW v \in Nodes
  PROVE  /\ Lost(f, v, D) \in Nat /\ Lost(f, v, D) <= Less(d)[v]
         /\ Less(d)[v] - Lost(f, v, D) = Cardinality(Left(f, v, D))
         /\ Lost(f, v, D) > 0 => \E e \in aux.into[v] : StartNode(e) \in D
         /\ \A C \in SUBSET D : Lost(f, v, C) \in Nat /\ Lost(f, v, C) <= Lost(f, v, D)
<1>1. PICK T : T = {e \in aux.into[v] : StartNode(e) \in D /\ Capacity(f, e) > 0}
  OBVIOUS
<1>2. \A e \in aux.into[v] : Capacity(f, e) \in Nat
  BY DEF Saturates
<1>3. T = {e \in Live(f, v) : StartNode(e) \in D}
  BY <1>1, <1>2 DEF Live
<1>4. IsFiniteSet(T) /\ T \in SUBSET Live(f, v) /\ IsFiniteSet(Live(f, v))
  BY <1>1, <1>3, LiveIsFinite DEF Live
<1>5. Lost(f, v, D) = Cardinality(T) /\ Less(d)[v] = Cardinality(Live(f, v))
  BY <1>1, LessCounts DEF Lost
<1>6. /\ Cardinality(T) \in Nat /\ Cardinality(T) <= Cardinality(Live(f, v))
      /\ Cardinality(Live(f, v)) \in Nat
  BY <1>4, FS_CardinalityType, FS_Subset
<1>7. Cardinality(Live(f, v) \ T) = Cardinality(Live(f, v)) - Cardinality(T)
  <2>1. Live(f, v) \cap T = T
    BY <1>4
  <2> QED
    BY <1>4, <2>1, FS_Difference
<1>8. Live(f, v) \ T = Left(f, v, D)
  BY <1>3 DEF Left
<1>9. Cardinality(T) > 0 => \E e \in aux.into[v] : StartNode(e) \in D
  <2>1. T = {} => Cardinality(T) = 0
    BY FS_EmptySet
  <2> QED
    BY <1>1, <1>6, <2>1
<1>10. ASSUME NEW C \in SUBSET D
       PROVE  Lost(f, v, C) \in Nat /\ Lost(f, v, C) <= Cardinality(T)
  <2>1. PICK U : U = {e \in aux.into[v] : StartNode(e) \in C /\ Capacity(f, e) > 0}
    OBVIOUS
  <2>2. U \in SUBSET T
    BY <1>1, <2>1
  <2>3. IsFiniteSet(U) /\ Cardinality(U) <= Cardinality(T)
    BY <1>4, <2>2, FS_Subset
  <2> QED
    BY <2>1, <2>3, FS_CardinalityType DEF Lost
<1> QED
  BY <1>5, <1>6, <1>7, <1>8, <1>9, <1>10
LEMMA ErasureExists ==
  ASSUME Blocking, LayersOpen, NEW f, NEW d \in Darts
  PROVE  \E dead : IsErasure(f, d, dead)
<1> DEFINE F == [T \in SUBSET Nodes |-> TopStep(f, d, T)]
           D == SUBSET Nodes
           a == {v \in {EndNode(d)} : Less(d)[v] = 0}
<1>1. F \in [D -> D] /\ a \in D /\ \A T \in SUBSET Nodes : F[T] = TopStep(f, d, T)
  BY DartEnds DEF TopStep
<1> HIDE DEF F, D, a
<1>2. PICK g : /\ g = [k \in Nat |-> IF k = 0 THEN a ELSE F[g[k - 1]]]
               /\ g \in [Nat -> D]
  <2>1. F \in [D -> D] /\ a \in D
    BY <1>1
  <2>2. \E g : /\ g = [k \in Nat |-> IF k = 0 THEN a ELSE F[g[k - 1]]]
               /\ g \in [Nat -> D]
    BY ONLY <2>1, IterationExists
  <2> QED
    BY <2>2, Zenon
<1>3. ASSUME NEW k \in Nat
      PROVE  (IF k = 0 THEN a ELSE F[g[k - 1]]) = IF k = 0 THEN a ELSE TopStep(f, d, g[k - 1])
  <2>1. CASE k = 0
    BY <2>1
  <2>2. CASE k # 0
    <3>1. k - 1 \in Nat
      BY <2>2
    <3>2. g[k - 1] \in SUBSET Nodes
      BY <1>2, <3>1 DEF D
    <3> QED
      BY <1>1, <2>2, <3>2
  <2> QED
    BY <2>1, <2>2
<1>4. [k \in Nat |-> IF k = 0 THEN a ELSE F[g[k - 1]]]
        = [k \in Nat |-> IF k = 0 THEN a ELSE TopStep(f, d, g[k - 1])]
  BY <1>3
<1>5. IsErasure(f, d, g)
  BY <1>2, <1>4, Zenon DEF IsErasure, a
<1> QED
  BY <1>5

\* No arc of the layers leads to the source.
LEMMA NothingIntoSource ==
  ASSUME Blocking, LayersOpen
  PROVE  aux.into[s] = {} /\ aux.degree[s] = 0
<1>1. ASSUME NEW d \in aux.into[s] PROVE FALSE
  <2>1. d \in Darts /\ EndNode(d) = s /\ dist[s] = dist[StartNode(d)] + 1
    BY TerminalsType DEF Blocking, LayersOpen, IsLayered
  <2>2. dist[StartNode(d)] \in Nat /\ dist[s] = 0
    BY <2>1, DartEnds, GraphType DEF Blocking
  <2> QED
    BY <2>1, <2>2
<1>2. Live(flow, s) = {} /\ s \in Nodes
  BY <1>1, TerminalsType DEF Live
<1> QED
  BY <1>1, <1>2, FS_EmptySet DEF LayersOpen

\* The nodes that are erased have lost all their arcs; they were not blocked before, and they are
\* in the layer of the end node of d or behind it.
Erased(f, d, D) ==
  /\ D \in SUBSET (Nodes \ {s})
  /\ \A v \in D : /\ ~Blocked(v) /\ dist[v] >= dist[EndNode(d)]
                  /\ Less(d)[v] = Lost(f, v, D)

LEMMA StepErases ==
  ASSUME Blocking, LayersOpen, NEW f, NEW d \in Darts, Saturates(f, d),
         NEW D, Erased(f, d, D), NEW E, E = TopStep(f, d, D)
  PROVE  Erased(f, d, E)
<1>1. dist \in [Nodes -> Nat] /\ EndNode(d) \in Nodes /\ Less(d) \in [Nodes -> Nat]
  BY DartEnds, GraphType, LessCounts DEF Blocking
<1>2. ASSUME NEW v \in Nodes, Less(d)[v] > 0, Less(d)[v] = Lost(f, v, D)
      PROVE  v # s /\ ~Blocked(v) /\ dist[v] >= dist[EndNode(d)]
  <2>1. Less(d)[v] <= aux.degree[v] /\ aux.degree[v] \in Nat
    BY LessCounts DEF LayersOpen
  <2>2. aux.degree[v] # 0
    BY <1>1, <1>2, <2>1
  <2>3. v # s /\ ~Blocked(v)
    BY <2>2, NothingIntoSource DEF Blocked
  <2>4. PICK e \in aux.into[v] : StartNode(e) \in D
    BY <1>2, LostCounts DEF Erased
  <2>5. dist[v] = dist[StartNode(e)] + 1
    BY DEF Blocking, LayersOpen, IsLayered
  <2>6. dist[StartNode(e)] >= dist[EndNode(d)] /\ StartNode(e) \in Nodes
    BY <2>4 DEF Erased
  <2> QED
    BY <1>1, <2>3, <2>5, <2>6
<1>3. \A v \in E : ~Blocked(v) /\ dist[v] >= dist[EndNode(d)] /\ v \in Nodes \ {s}
  BY <1>2 DEF TopStep, Erased
<1>4. D \in SUBSET E
  BY DEF TopStep
<1>5. ASSUME NEW v \in E PROVE Less(d)[v] = Lost(f, v, E)
  <2>1. Less(d)[v] = Lost(f, v, D)
    BY DEF TopStep, Erased
  <2>2. /\ Lost(f, v, E) <= Less(d)[v] /\ Lost(f, v, D) <= Lost(f, v, E)
        /\ Lost(f, v, E) \in Nat /\ Lost(f, v, D) \in Nat
    BY <1>3, <1>4, LostCounts
  <2> QED
    BY <2>1, <2>2
<1> QED
  BY <1>3, <1>5 DEF Erased

\* TopErasure(): after N rounds, no node is left that has to be erased.
LEMMA ErasureEnds ==
  ASSUME Blocking, LayersOpen, NEW f, NEW d \in Darts, Saturates(f, d),
         NEW dead, IsErasure(f, d, dead)
  PROVE  Erased(f, d, dead[N]) /\ TopStep(f, d, dead[N]) = dead[N] /\ dead[0] \subseteq dead[N]
<1>1. /\ dead[0] = {v \in {EndNode(d)} : Less(d)[v] = 0}
      /\ \A k \in Nat : dead[k + 1] = TopStep(f, d, dead[k])
  <2>1. dead[0] = {v \in {EndNode(d)} : Less(d)[v] = 0}
    BY DEF IsErasure
  <2>2. ASSUME NEW k \in Nat PROVE dead[k + 1] = TopStep(f, d, dead[k])
    <3>1. k + 1 \in Nat /\ k + 1 # 0 /\ (k + 1) - 1 = k
      OBVIOUS
    <3> QED
      BY <3>1 DEF IsErasure
  <2> QED
    BY <2>1, <2>2
<1>2. Erased(f, d, dead[0])
  <2>1. EndNode(d) \in Nodes /\ dist[EndNode(d)] >= dist[EndNode(d)]
    BY DartEnds, GraphType DEF Blocking
  <2>2. EndNode(d) # s /\ ~Blocked(EndNode(d))
    <3>1. aux.degree[EndNode(d)] > 0 /\ d \in aux.into[EndNode(d)]
      BY LessCounts DEF Saturates, Live
    <3> QED
      BY <3>1, NothingIntoSource DEF Blocked
  <2>3. ASSUME NEW v \in dead[0] PROVE Less(d)[v] = Lost(f, v, dead[0])
    <3>1. v = EndNode(d) /\ Less(d)[v] = 0
      BY <1>1
    <3>2. Lost(f, v, dead[0]) \in Nat /\ Lost(f, v, dead[0]) <= Less(d)[v]
      BY <1>1, <2>1, <2>2, <3>1, LostCounts
    <3> QED
      BY <3>1, <3>2
  <2> QED
    BY <1>1, <2>1, <2>2, <2>3 DEF Erased
<1> DEFINE B == {k \in Nat : Erased(f, d, dead[k])}
<1>3. B = Nat
  <2>1. 0 \in B
    BY <1>2
  <2>2. ASSUME NEW k \in B PROVE k + 1 \in B
    BY <1>1, StepErases
  <2> HIDE DEF B
  <2>3. B \in SUBSET Nat
    BY DEF B
  <2> QED
    BY <2>1, <2>2, <2>3, AllNumbers
<1>4. \A k \in Nat : Erased(f, d, dead[k])
  BY <1>3
<1>5. \A k \in Nat : dead[k] \in SUBSET (Nodes \ {s}) /\ dead[k] \subseteq dead[k + 1]
  BY <1>1, <1>4 DEF Erased, TopStep
<1>6. PICK m \in Nodes : dead[m + 1] = dead[m]
  BY <1>5, TerminalsType, ChainStops
<1>7. m \in Nat /\ m <= N /\ N \in Nat
  BY GraphType DEF Nodes
<1> DEFINE A == {k \in Nat : m <= k => dead[k] = dead[m]}
<1>8. A = Nat
  <2>1. 0 \in A
    BY <1>7
  <2>2. ASSUME NEW k \in A PROVE k + 1 \in A
    <3>1. k \in Nat /\ k + 1 \in Nat
      OBVIOUS
    <3>2. CASE m <= k
      <4>1. dead[k] = dead[m]
        BY <3>2
      <4>2. dead[k + 1] = dead[m]
        BY <1>1, <1>6, <1>7, <3>1, <4>1
      <4> QED
        BY <3>1, <4>2
    <3>3. CASE ~(m <= k)
      <4>1. m <= k + 1 => m = k + 1
        BY <1>7, <3>1, <3>3
      <4> QED
        BY <3>1, <4>1
    <3> QED
      BY <3>2, <3>3
  <2> HIDE DEF A
  <2>3. A \in SUBSET Nat
    BY DEF A
  <2> QED
    BY <2>1, <2>2, <2>3, AllNumbers
<1>9. dead[N] = dead[m] /\ dead[m] = TopStep(f, d, dead[m])
  BY <1>1, <1>6, <1>7, <1>8
<1>10. dead[0] \subseteq dead[N]
  BY <1>5, <1>7, ChainAscends
<1> QED
  BY <1>4, <1>7, <1>9, <1>10

\* The nodes that TopErasure() leaves without arcs are those that were blocked before and those
\* that are erased, and the degrees count the arcs that are left between the others.
LEMMA ErasureIsExact ==
  ASSUME Blocking, LayersOpen, NEW f, NEW d \in Darts, Saturates(f, d)
  PROVE  /\ TopErasure(f, d) \in [Nodes -> Nat]
         /\ \E D \in SUBSET (Nodes \ {s}) :
              /\ \A v \in D : dist[v] >= dist[EndNode(d)]
              /\ \A v \in Nodes \ {s} : TopErasure(f, d)[v] = 0 <=> (Blocked(v) \/ v \in D)
              /\ \A v \in Nodes : TopErasure(f, d)[v]
                                    = Cardinality(Left(f, v, D))
<1>1. PICK dead : dead = (CHOOSE g : IsErasure(f, d, g))
  OBVIOUS
<1>2. IsErasure(f, d, dead)
  BY <1>1, ErasureExists
<1>3. PICK D : D = dead[N]
  OBVIOUS
<1>4. /\ Erased(f, d, D) /\ TopStep(f, d, D) = D
      /\ \A v \in {EndNode(d)} : Less(d)[v] = 0 => v \in D
  <2>1. dead[0] = {v \in {EndNode(d)} : Less(d)[v] = 0}
    BY <1>2 DEF IsErasure
  <2> QED
    BY <1>2, <1>3, <2>1, ErasureEnds
<1>5. TopErasure(f, d) = [v \in Nodes |-> Less(d)[v] - Lost(f, v, D)]
  BY <1>1, <1>3, TopErasureIsRecursive
<1>6. ASSUME NEW v \in Nodes
      PROVE  /\ Lost(f, v, D) \in Nat /\ Lost(f, v, D) <= Less(d)[v] /\ Less(d)[v] \in Nat
             /\ TopErasure(f, d)[v] = Less(d)[v] - Lost(f, v, D)
  <2>1. \A w \in D : ~Blocked(w)
    BY <1>4 DEF Erased
  <2>2. TopErasure(f, d)[v] = Less(d)[v] - Lost(f, v, D)
    BY <1>5
  <2>3. Lost(f, v, D) \in Nat /\ Lost(f, v, D) <= Less(d)[v]
    BY <2>1, LostCounts
  <2>4. Less(d)[v] \in Nat
    BY LessCounts
  <2> QED
    BY <2>2, <2>3, <2>4
<1>7. ASSUME NEW v \in Nodes \ {s}
      PROVE  TopErasure(f, d)[v] = 0 <=> (Blocked(v) \/ v \in D)
  <2>1. CASE v \in D
    <3>1. Less(d)[v] = Lost(f, v, D)
      BY <1>4, <2>1 DEF Erased
    <3> QED
      BY <1>6, <2>1, <3>1
  <2>2. CASE v \notin D /\ Less(d)[v] > 0
    <3>1. Less(d)[v] # Lost(f, v, D)
      BY <1>4, <2>2 DEF TopStep
    <3>2. aux.degree[v] # 0
      BY <1>6, <2>2, LessCounts
    <3> QED
      BY <1>6, <2>2, <3>1, <3>2 DEF Blocked
  <2>3. CASE v \notin D /\ Less(d)[v] = 0
    <3>1. v # EndNode(d)
      BY <1>4, <2>3
    <3>2. aux.degree[v] = 0
      BY <2>3, <3>1, LessCounts
    <3> QED
      BY <1>6, <2>3, <3>2 DEF Blocked
  <2> QED
    BY <1>6, <2>1, <2>2, <2>3
<1>8. D \in SUBSET (Nodes \ {s}) /\ \A v \in D : dist[v] >= dist[EndNode(d)]
  BY <1>4 DEF Erased
<1>9. TopErasure(f, d) \in [Nodes -> Nat]
  <2>1. \A v \in Nodes : Less(d)[v] - Lost(f, v, D) \in Nat
    BY <1>6
  <2> QED
    BY <1>5, <2>1
<1>10. ASSUME NEW v \in Nodes
       PROVE  TopErasure(f, d)[v] = Cardinality(Left(f, v, D))
  <2>1. \A w \in D : ~Blocked(w)
    BY <1>4 DEF Erased
  <2>2. Less(d)[v] - Lost(f, v, D) = Cardinality(Left(f, v, D))
    BY <2>1, LostCounts
  <2> QED
    BY <1>6, <2>2
<1> QED
  BY <1>7, <1>8, <1>9, <1>10
\* Dinic's method: the search finds every node from the layer before, the degrees and the path
\* are right whenever nodes are being blocked.
LayerInv ==
  method = "DINIC" =>
    /\ pc # "start" => scale = 0
    /\ pc = "explored" => Reached
    /\ pc = "block" => LayersOpen

LEMMA ExploreLayers ==
  ASSUME LayerInv, Explore
  PROVE  LayerInv'
<1> SUFFICES ASSUME method' = "DINIC" PROVE scale' = 0 /\ Reached' /\ pc' = "explored"
  BY DEF LayerInv
<1>1. scale = 0 /\ UNCHANGED <<ucap, lcap, flow, scale>> /\ dist' = Depth(0) /\ pc' = "explored"
  BY DEF Explore, LayerInv, paths
<1>2. \A d : ResCap(d)' = ResCap(d)
  BY <1>1 DEF ResCap, Capacity
<1>3. ASSUME NEW v \in Nodes \ {s}, dist'[v] < NoNode
      PROVE  \E d \in Darts : EndNode(d) = v /\ ResCap(d) > 0 /\ dist'[v] = dist'[StartNode(d)] + 1
  BY <1>1, <1>3, DepthReaches
<1> QED
  BY <1>1, <1>2, <1>3 DEF Reached

\* BuildLayers(): no node that starts an arc of the layers is blocked at first.
LEMMA BuildLayersOpen ==
  ASSUME AugmentInv, method \in Augmentations, LayerInv, BuildLayers
  PROVE  LayersOpen'
<1>1. /\ UNCHANGED <<ucap, lcap, flow, dist>> /\ Reached /\ dist \in [Nodes -> 0 .. N] /\ N \in Nat
      /\ FlowInv
  BY GraphType DEF BuildLayers, LayerInv, AugmentInv
<1>2. PICK f \in [Nodes -> SUBSET Darts] :
        f = [v \in Nodes |-> {d \in Layered(0) : EndNode(d) = v /\ dist[StartNode(d)] < dist[t]}]
  BY DEF Layered
<1>3. PICK g : g = [v \in Nodes |-> Cardinality(f[v])]
  OBVIOUS
<1>4. aux' = [into |-> f, degree |-> g, path |-> <<>>, amount |-> 0]
  <2>1. aux' = [into |-> [v \in Nodes |-> {d \in Layered(0) : EndNode(d) = v
                                                            /\ dist[StartNode(d)] < dist[t]}],
                degree |-> [v \in Nodes |-> Cardinality({d \in Layered(0) : EndNode(d) = v
                                                            /\ dist[StartNode(d)] < dist[t]})],
                path |-> <<>>, amount |-> 0]
    BY DEF BuildLayers
  <2>2. g = [v \in Nodes |-> Cardinality({d \in Layered(0) : EndNode(d) = v
                                                         /\ dist[StartNode(d)] < dist[t]})]
    BY <1>2, <1>3
  <2> QED
    BY <1>2, <2>1, <2>2, Zenon
<1>5. aux'.into = f /\ aux'.degree = g /\ aux'.path = <<>>
  BY <1>4
<1>6. ASSUME NEW v \in Nodes
      PROVE  \A d : d \in f[v] <=> /\ d \in Darts /\ ResCap(d) > 0 /\ EndNode(d) = v
                                   /\ dist[v] = dist[StartNode(d)] + 1
                                   /\ dist[StartNode(d)] < dist[t]
  BY <1>2 DEF Layered
<1>7. \A v \in Nodes : IsFiniteSet(f[v])
  BY <1>2, DartsAreFinite
<1>8. g \in [Nodes -> Nat]
  BY <1>3, <1>7, FS_CardinalityType
<1>9. ASSUME NEW v \in Nodes \ {s}, dist[v] < dist[t] PROVE g[v] # 0
  <2>1. dist[v] < NoNode /\ dist[v] \in Nat /\ dist[t] \in Nat
    BY <1>1, <1>9, TerminalsType DEF NoNode
  <2>2. PICK d \in Darts : EndNode(d) = v /\ ResCap(d) > 0 /\ dist[v] = dist[StartNode(d)] + 1
    BY <1>1, <2>1 DEF Reached
  <2>3. StartNode(d) \in Nodes /\ dist[StartNode(d)] \in Nat
    BY <1>1, DartEnds
  <2>4. d \in f[v]
    BY <1>6, <1>9, <2>1, <2>2, <2>3
  <2>5. Cardinality(f[v]) # 0
    BY <1>7, <2>4, FS_EmptySet
  <2> QED
    BY <1>3, <2>5
<1>10. ASSUME NEW v \in Nodes PROVE Live(flow, v)' = f[v]
  <2>1. ASSUME NEW d \in f[v] PROVE Capacity(flow, d)' # 0 /\ ~Blocked(StartNode(d))'
    <3>1. d \in Darts /\ ResCap(d) > 0 /\ dist[StartNode(d)] < dist[t] /\ StartNode(d) \in Nodes
      BY <1>6, DartEnds
    <3>2. Capacity(flow, d)' = ResCap(d)
      BY <1>1 DEF ResCap, Capacity
    <3>3. StartNode(d) # s => g[StartNode(d)] # 0
      BY <1>9, <3>1
    <3> QED
      BY <1>5, <3>1, <3>2, <3>3 DEF Blocked
  <2> QED
    BY <1>5, <2>1 DEF Live
<1>11. ASSUME NEW v \in Nodes
       PROVE  /\ \A d \in aux'.into[v] : EndNode(d) = v
              /\ aux'.degree[v] = Cardinality(Live(flow, v)')
  BY <1>3, <1>5, <1>6, <1>10
<1>12. Len(aux'.path) = 0
  BY <1>5
<1> QED
  BY <1>5, <1>8, <1>11, <1>12 DEF LayersOpen

\* FindPath(): the path goes along arcs that are not dead.
LEMMA FindPathOpen ==
  ASSUME AugmentInv, method \in Augmentations, LayersOpen, FindPath
  PROVE  LayersOpen'
<1>1. UNCHANGED <<ucap, lcap, flow, dist>> /\ Blocking
  BY DEF FindPath, network, AugmentInv
<1>2. PICK A : A = {d \in Darts : d \in aux.into[EndNode(d)] /\ ~Dead(d)}
  OBVIOUS
<1>3. PICK p \in PathsBy(A) : aux' = [aux EXCEPT !.path = p, !.amount = FindCap(p)]
  BY <1>2 DEF FindPath
<1>4. aux'.into = aux.into /\ aux'.degree = aux.degree /\ aux'.path = p
  BY <1>1, <1>3 DEF Blocking
<1>5. A \in SUBSET Darts /\ IsLayered(A) /\ dist \in [Nodes -> 0 .. N] /\ dist[s] = 0
  BY <1>1, <1>2, DartEnds DEF Blocking, IsLayered
<1>6. \A i \in 1 .. Len(p) : p[i] \in A
  BY <1>3, <1>5, PathsAreSound
<1>7. \A d \in A : d \in Live(flow, EndNode(d))
  BY <1>2 DEF Live, Dead, ResCap
<1>8. \A v : Live(flow, v)' = Live(flow, v)
  BY <1>1, <1>4 DEF Live, Blocked, Capacity
<1>9. \A i \in 1 .. Len(aux'.path) : aux'.path[i] \in Live(flow, EndNode(aux'.path[i]))
  BY <1>4, <1>6, <1>7
<1> QED
  BY <1>4, <1>8, <1>9 DEF LayersOpen
\* Block(): the other arcs of the layers can carry as much as before; what is left of the path does
\* not start at a node that is erased now, since these are farther from the source.
LEMMA BlockOpen ==
  ASSUME AugmentInv, method \in Augmentations, LayersOpen, Block
  PROVE  LayersOpen'
<1>1. FlowInv /\ Blocking /\ UNCHANGED <<ucap, lcap, dist>>
  BY DEF AugmentInv, Block
<1>2. PICK p : p = aux.path
  OBVIOUS
<1>3. PICK w \in Nodes : IsPath(p, w) /\ p # <<>> /\ \A i \in 1 .. Len(p) : aux.amount <= ResCap(p[i])
  BY <1>1, <1>2 DEF Blocking, Block
<1>4. PICK d \in Darts : d = Last(p)
  BY <1>3, PathFront
<1>5. PICK x \in Nat : x = aux.amount
  BY <1>1 DEF Blocking
<1>6. PICK q : q = Front(p)
  OBVIOUS
<1>7. /\ Len(p) \in 1 .. Len(p) /\ p[Len(p)] = d /\ Len(q) = Len(p) - 1
      /\ \A i \in 1 .. Len(p) - 1 : q[i] = p[i]
  BY <1>3, <1>4, <1>6, PathFront
<1>8. PICK f : f = Pushed(flow, d, x)
  OBVIOUS
<1>9. flow' = f
  BY <1>2, <1>4, <1>5, <1>8 DEF Block, Push
<1>10. /\ ResCap(d)' = ResCap(d) - x
       /\ \A e \in Darts \ {d, Opposite(d)} : ResCap(e)' = ResCap(e)
  <2>1. x \in Int /\ ucap \in [Arcs -> Int] /\ lcap \in [Arcs -> Int] /\ flow \in [Arcs -> Int]
    BY <1>1 DEF FlowInv
  <2> QED
    BY <1>1, <1>8, <1>9, <2>1, PushResidual
<1>11. \A e : ResCap(e)' = Capacity(f, e)
  BY <1>1, <1>9 DEF ResCap, Capacity
<1>12. d \in Live(flow, EndNode(d)) /\ EndNode(d) \in Nodes /\ x <= ResCap(d)
  BY <1>2, <1>3, <1>5, <1>7, DartEnds DEF LayersOpen
<1>13. ASSUME NEW v \in Nodes, NEW e \in aux.into[v], e # d
       PROVE  Capacity(f, e) = ResCap(e)
  <2>1. e \in Darts /\ dist[EndNode(e)] = dist[StartNode(e)] + 1
    BY <1>1 DEF Blocking, IsLayered
  <2>2. dist[EndNode(d)] = dist[StartNode(d)] + 1
    BY <1>1, <1>12 DEF Blocking, IsLayered, Live
  <2>3. e # Opposite(d)
    <3>1. StartNode(Opposite(d)) = EndNode(d) /\ EndNode(Opposite(d)) = StartNode(d)
      BY DartEnds
    <3>2. dist[StartNode(d)] \in Nat /\ dist[EndNode(d)] \in Nat
      BY <1>1, DartEnds, GraphType DEF Blocking
    <3> QED
      BY <2>1, <2>2, <3>1, <3>2
  <2> QED
    BY <1>10, <1>11, <1>13, <2>1, <2>3
<1>14. \A v \in Nodes : \A e \in aux.into[v] : Capacity(f, e) \in Nat
  <2> SUFFICES ASSUME NEW v \in Nodes, NEW e \in aux.into[v] PROVE Capacity(f, e) \in Nat
    OBVIOUS
  <2>1. e \in Darts /\ ResCap(e) \in Nat /\ ResCap(d) \in Nat
    BY <1>1, FlowResidual DEF Blocking
  <2>2. CASE e = d
    BY <1>10, <1>11, <1>12, <2>1, <2>2
  <2>3. CASE e # d
    BY <1>13, <2>1, <2>3
  <2> QED
    BY <2>2, <2>3
<1>15. PICK g : /\ aux' = [aux EXCEPT !.path = Front(@), !.degree = g]
                /\ Capacity(f, d) = 0 => g = TopErasure(f, d)
                /\ Capacity(f, d) # 0 => g = aux.degree
  <2>1. aux' = [aux EXCEPT !.path = Front(@),
                           !.degree = IF Capacity(f, d) = 0 THEN TopErasure(f, d) ELSE @]
    BY <1>2, <1>4, <1>5, <1>8 DEF Block
  <2>2. CASE Capacity(f, d) = 0
    BY <2>1, <2>2
  <2>3. CASE Capacity(f, d) # 0
    BY <2>1, <2>3
  <2> QED
    BY <2>2, <2>3
<1>16. aux'.into = aux.into /\ aux'.degree = g /\ aux'.path = q
  BY <1>1, <1>2, <1>6, <1>15 DEF Blocking
<1>17. ASSUME NEW i \in 1 .. Len(q)
       PROVE  /\ q[i] = p[i] /\ q[i] # d /\ q[i] \in Live(flow, EndNode(q[i]))
              /\ q[i] \in aux.into[EndNode(q[i])] /\ q[i] \in Darts
              /\ dist[StartNode(q[i])] < dist[EndNode(d)]
  <2>1. i \in 1 .. Len(p) /\ Len(p) \in 1 .. Len(p) /\ i # Len(p) /\ q[i] = p[i]
    BY <1>7
  <2>2. p[i] # p[Len(p)]
    BY <1>3, <2>1, PathArcsDiffer
  <2>3. dist[StartNode(p[i])] = i - 1 /\ dist[EndNode(d)] = Len(p) /\ p[i] \in Darts
    <3>1. dist[StartNode(p[i])] = i - 1 /\ p[i] \in Darts
      BY <1>3, <2>1 DEF IsPath
    <3>2. dist[EndNode(p[Len(p)])] = Len(p)
      BY <1>3, <2>1 DEF IsPath
    <3> QED
      BY <1>7, <3>1, <3>2
  <2>4. p[i] \in Live(flow, EndNode(p[i]))
    BY <1>2, <2>1 DEF LayersOpen
  <2> QED
    BY <1>7, <2>1, <2>2, <2>3, <2>4 DEF Live
<1>18. CASE Capacity(f, d) # 0
  <2>1. \A v : Blocked(v)' <=> Blocked(v)
    BY <1>15, <1>16, <1>18 DEF Blocked
  <2>2. ASSUME NEW v \in Nodes PROVE Live(flow, v)' = Live(flow, v)
    <3>1. \A e \in aux.into[v] : Capacity(f, e) # 0 <=> Capacity(flow, e) # 0
      <4>1. Capacity(flow, d) # 0
        BY <1>12 DEF Live
      <4> QED
        BY <1>13, <1>18, <4>1 DEF ResCap
    <3>2. \A e : Capacity(flow, e)' = Capacity(f, e)
      BY <1>11 DEF ResCap
    <3> QED
      BY <1>16, <2>1, <3>1, <3>2 DEF Live
  <2>3. ASSUME NEW i \in 1 .. Len(q) PROVE q[i] \in Live(flow, EndNode(q[i]))'
    BY <1>17, <2>2, DartEnds
  <2> QED
    BY <1>15, <1>16, <1>18, <2>2, <2>3 DEF LayersOpen
<1>19. CASE Capacity(f, d) = 0
  <2>1. Saturates(f, d)
    BY <1>12, <1>13, <1>14, <1>19 DEF Saturates
  <2>2. g = TopErasure(f, d)
    BY <1>15, <1>19
  <2>3. PICK D \in SUBSET (Nodes \ {s}) :
          /\ \A v \in D : dist[v] >= dist[EndNode(d)]
          /\ \A v \in Nodes \ {s} : g[v] = 0 <=> (Blocked(v) \/ v \in D)
          /\ \A v \in Nodes : g[v] = Cardinality(Left(f, v, D))
    BY <1>1, <2>1, <2>2, ErasureIsExact
  <2>4. g \in [Nodes -> Nat]
    BY <1>1, <2>1, <2>2, ErasureIsExact
  <2>5. ASSUME NEW v \in Nodes PROVE Blocked(v)' <=> (Blocked(v) \/ v \in D)
    <3>1. CASE v = s
      BY <2>3, <3>1 DEF Blocked
    <3>2. CASE v # s
      BY <1>16, <2>3, <3>2 DEF Blocked
    <3> QED
      BY <3>1, <3>2
  <2>6. \A e : Capacity(flow, e)' = Capacity(f, e)
    BY <1>11 DEF ResCap
  <2>7. ASSUME NEW v \in Nodes PROVE Live(flow, v)' = Left(f, v, D)
    <3>1. \A e \in aux.into[v] : StartNode(e) \in Nodes
      BY <1>1, DartEnds DEF Blocking
    <3> QED
      BY <1>16, <2>5, <2>6, <3>1 DEF Live, Left
  <2>8. ASSUME NEW i \in 1 .. Len(q) PROVE q[i] \in Live(flow, EndNode(q[i]))'
    <3>1. PICK e \in Darts : e = q[i]
      BY <1>17
    <3>2. StartNode(e) \in Nodes /\ EndNode(e) \in Nodes
      BY DartEnds
    <3>3. e # d /\ e \in Live(flow, EndNode(e)) /\ e \in aux.into[EndNode(e)]
          /\ dist[StartNode(e)] < dist[EndNode(d)]
      BY <1>17, <3>1
    <3>4. Capacity(f, e) = Capacity(flow, e)
      BY <1>13, <3>2, <3>3 DEF ResCap
    <3>5. StartNode(e) \notin D
      <4>1. dist[StartNode(e)] \in Nat /\ dist[EndNode(d)] \in Nat
        BY <1>1, <1>12, <3>2, GraphType DEF Blocking
      <4> QED
        BY <2>3, <3>3, <4>1
    <3>6. e \in Left(f, EndNode(e), D)
      BY <3>3, <3>4, <3>5 DEF Left, Live
    <3> QED
      BY <2>7, <3>1, <3>2, <3>6
  <2> QED
    BY <1>16, <2>3, <2>4, <2>7, <2>8 DEF LayersOpen
<1> QED
  BY <1>18, <1>19

LEMMA NextLayers ==
  ASSUME PreflowInv, AugmentInv, LayerInv, OnlyDinicBlocks, [Next]_vars
  PROVE  LayerInv'
<1> SUFFICES ASSUME method' = "DINIC" PROVE LayerInv'
  BY DEF LayerInv
<1>1. CASE PreflowStep
  <2>1. method' = method
    BY <1>1 DEF PreflowStep, PreflowStart, Saturate, Activate, Select, Skip, PushAlong, Relabel,
                Retire, PreflowEnd, network
  <2>2. pc \notin {"saturate", "select", "push", "rest"} /\ method \notin Preflows
    BY <2>1 DEF PreflowInv, Preflows, Augmentations
  <2> QED
    BY <1>1, <2>2 DEF PreflowStep, PreflowStart, Saturate, Activate, Select, Skip, Discharging,
                      PushAlong, Relabel, Retire, Exhausted, PreflowEnd, Working
<1>2. CASE AugmentingStep
  <2>1. method = "DINIC" /\ method \in Augmentations
    BY <1>2 DEF AugmentingStep, AugmentStart, Interrupt, Explore, AugmentAlong, Rescale, Finish,
           BuildLayers, FindPath, Block, EndPhase, network, Augmentations
  <2>2. CASE AugmentStart
    BY <2>1, <2>2 DEF AugmentStart, LayerInv
  <2>3. CASE Interrupt \/ Finish \/ EndPhase
    <3>1. scale' = scale /\ pc # "start" /\ pc' \in {"stopped", "verify", "search"}
      BY <2>3 DEF Interrupt, Finish, EndPhase, paths
    <3> QED
      BY <2>1, <3>1 DEF LayerInv
  <2>4. CASE Explore
    BY <2>4, ExploreLayers
  <2>5. CASE AugmentAlong \/ Rescale
    <3>1. pc = "explored" /\ scale = 0
      BY <2>1, <2>5 DEF AugmentAlong, Rescale, LayerInv
    <3> QED
      BY <2>1, <2>5, <3>1 DEF AugmentAlong, Rescale
  <2>6. CASE BuildLayers
    <3>1. scale' = scale /\ pc = "explored" /\ pc' = "block"
      BY <2>6 DEF BuildLayers
    <3> QED
      BY <2>1, <2>6, <3>1, BuildLayersOpen DEF LayerInv
  <2>7. CASE FindPath \/ Block
    <3>1. scale' = scale /\ pc = "block" /\ pc' = "block"
      BY <2>7 DEF FindPath, Block, network
    <3> QED
      BY <2>1, <2>7, <3>1, FindPathOpen, BlockOpen DEF LayerInv
  <2> QED
    BY <1>2, <2>2, <2>3, <2>4, <2>5, <2>6, <2>7 DEF AugmentingStep
<1>3. CASE Search \/ Verify
  <2>1. method = "DINIC" /\ pc # "start" /\ pc' \in {"verify", "done"} /\ scale' = scale
    BY <1>3 DEF Search, Verify, paths
  <2> QED
    BY <2>1 DEF LayerInv
<1>4. CASE UNCHANGED vars
  <2>1. UNCHANGED <<ucap, lcap, flow, dist, method, pc, scale, aux>>
    BY <1>4 DEF vars, network, paths
  <2>2. LayersOpen' <=> LayersOpen
    BY <2>1 DEF LayersOpen, Live, Blocked, Capacity
  <2>3. Reached' <=> Reached
    BY <2>1 DEF Reached, ResCap, Capacity
  <2> QED
    BY <2>1, <2>2, <2>3 DEF LayerInv
<1> QED
  BY <1>1, <1>2, <1>3, <1>4 DEF Next
\* What BlockingIsExact says of the nodes that can be reached through the layers.
Behind(h, v) == v = s \/ \E d \in aux.into[v] : ResCap(d) > 0 /\ h[StartNode(d)]

IsBehind(h) == h = [v \in Nodes |-> Behind(h, v)]

Exact(h) ==
  \A v \in Nodes \ {s} : /\ Blocked(v) <=> ~h[v]
                         /\ ~Blocked(v) => \E d \in aux.into[v] : ~Dead(d)

LEMMA BlockingIsRecursive ==
  BlockingIsExact <=> (pc = "block" /\ aux.path = <<>> => Exact(CHOOSE h : IsBehind(h)))
BY Zenon DEF BlockingIsExact, Exact, IsBehind, Behind

\* A node is blocked if all arcs into it are dead.
LEMMA BlockedHasNoArc ==
  ASSUME FlowInv, Blocking, LayersOpen, NEW v \in Nodes \ {s}
  PROVE  /\ ~Blocked(v) <=> \E d \in aux.into[v] : ~Dead(d)
         /\ \A d \in aux.into[v] : ~Dead(d) <=> (ResCap(d) > 0 /\ ~Blocked(StartNode(d)))
<1>1. IsFiniteSet(Live(flow, v))
  BY LiveIsFinite DEF Live
<1>2. Blocked(v) <=> Live(flow, v) = {}
  BY <1>1, FS_EmptySet DEF Blocked, LayersOpen
<1>3. \A d \in aux.into[v] : ~Dead(d) <=> d \in Live(flow, v)
  BY DEF Dead, Live, ResCap
<1>4. Live(flow, v) \in SUBSET aux.into[v]
  BY DEF Live
<1>5. \A d \in aux.into[v] : ~Dead(d) <=> (ResCap(d) > 0 /\ ~Blocked(StartNode(d)))
  <2>1. \A d \in aux.into[v] : ResCap(d) \in Int /\ ResCap(d) >= 0
    BY FlowResidual DEF Blocking
  <2> QED
    BY <2>1 DEF Dead
<1> QED
  BY <1>2, <1>3, <1>4, <1>5

\* So the nodes that are not blocked satisfy the recursion, and no other set of nodes does.
LEMMA OpenIsBehind ==
  ASSUME FlowInv, Blocking, LayersOpen
  PROVE  BlockingIsExact
<1>1. ASSUME NEW v \in Nodes, NEW h,
             \A d \in aux.into[v] : h[StartNode(d)] <=> ~Blocked(StartNode(d))
      PROVE  Behind(h, v) <=> ~Blocked(v)
  <2>1. CASE v = s
    BY <2>1 DEF Behind, Blocked
  <2>2. CASE v # s
    <3>1. /\ ~Blocked(v) <=> \E d \in aux.into[v] : ~Dead(d)
          /\ \A d \in aux.into[v] : ~Dead(d) <=> (ResCap(d) > 0 /\ ~Blocked(StartNode(d)))
      BY <2>2, BlockedHasNoArc
    <3> QED
      BY <1>1, <2>2, <3>1, Zenon DEF Behind
  <2> QED
    BY <2>1, <2>2
<1>2. \A v \in Nodes : \A d \in aux.into[v] : StartNode(d) \in Nodes
  BY DartEnds DEF Blocking
<1>3. \E h : IsBehind(h)
  <2> DEFINE g == [v \in Nodes |-> ~Blocked(v)]
  <2>1. \A v \in Nodes : g[v] <=> ~Blocked(v)
    BY Zenon
  <2>2. \A v \in Nodes : \A d \in aux.into[v] : g[StartNode(d)] <=> ~Blocked(StartNode(d))
    BY <1>2, <2>1, Zenon
  <2> HIDE DEF g
  <2>3. \A v \in Nodes : Behind(g, v) <=> ~Blocked(v)
    BY <1>1, <2>2
  <2>4. \A v \in Nodes : Behind(g, v) = ~Blocked(v)
    BY <2>3, Zenon DEF Behind, Blocked
  <2>5. [v \in Nodes |-> ~Blocked(v)] = [v \in Nodes |-> Behind(g, v)]
    BY <2>4, Zenon
  <2>6. IsBehind(g)
    BY <2>5, Zenon DEF g, IsBehind
  <2> QED
    BY <2>6
<1>4. PICK h : h = (CHOOSE g : IsBehind(g))
  OBVIOUS
<1>5. IsBehind(h)
  BY <1>3, <1>4
<1>6. \A v \in Nodes : h[v] <=> Behind(h, v)
  BY <1>5, Zenon DEF IsBehind
<1>7. dist \in [Nodes -> Nat]
  BY GraphType DEF Blocking
<1> DEFINE B == {k \in Nat : \A v \in Nodes : dist[v] = k => (h[v] <=> ~Blocked(v))}
<1>8. ASSUME NEW v \in Nodes, \A w \in Nodes : dist[v] = dist[w] + 1 => (h[w] <=> ~Blocked(w))
      PROVE  h[v] <=> ~Blocked(v)
  <2>1. \A d \in aux.into[v] : dist[v] = dist[StartNode(d)] + 1
    BY DEF Blocking, LayersOpen, IsLayered
  <2>2. \A d \in aux.into[v] : h[StartNode(d)] <=> ~Blocked(StartNode(d))
    BY <1>2, <1>8, <2>1, Zenon
  <2>3. Behind(h, v) <=> ~Blocked(v)
    BY <1>1, <2>2
  <2> QED
    BY <1>6, <2>3, Zenon
<1>9. 0 \in B
  <2>1. ASSUME NEW v \in Nodes, dist[v] = 0 PROVE h[v] <=> ~Blocked(v)
    <3>1. \A w \in Nodes : dist[v] # dist[w] + 1
      BY <1>7, <2>1
    <3> QED
      BY <1>8, <3>1
  <2> QED
    BY <2>1
<1>10. ASSUME NEW k \in B PROVE k + 1 \in B
  <2>1. ASSUME NEW v \in Nodes, dist[v] = k + 1 PROVE h[v] <=> ~Blocked(v)
    <3>1. \A w \in Nodes : dist[v] = dist[w] + 1 => dist[w] = k
      BY <1>7, <2>1
    <3>2. \A w \in Nodes : dist[v] = dist[w] + 1 => (h[w] <=> ~Blocked(w))
      BY <3>1
    <3> QED
      BY <1>8, <3>2
  <2> QED
    BY <2>1
<1>11. B = Nat
  <2> HIDE DEF B
  <2>1. B \in SUBSET Nat
    BY DEF B
  <2> QED
    BY <1>9, <1>10, <2>1, AllNumbers
<1>12. ASSUME NEW v \in Nodes PROVE h[v] <=> ~Blocked(v)
  <2>1. dist[v] \in Nat
    BY <1>7
  <2>2. dist[v] \in B
    BY <1>11, <2>1
  <2> QED
    BY <2>2
<1>13. Exact(h)
  <2> SUFFICES ASSUME NEW v \in Nodes \ {s}
               PROVE  /\ Blocked(v) <=> ~h[v]
                      /\ ~Blocked(v) => \E d \in aux.into[v] : ~Dead(d)
    BY DEF Exact
  <2>1. h[v] <=> ~Blocked(v)
    BY <1>12
  <2>2. ~Blocked(v) <=> \E d \in aux.into[v] : ~Dead(d)
    BY BlockedHasNoArc
  <2> QED
    BY <2>1, <2>2, Zenon
<1> QED
  BY <1>4, <1>13, BlockingIsRecursive, Zenon

\* No method loses sight of its work.  The preflow methods know the nodes with an excess and the
\* admissible arcs.  MXF_Dinic() with FindPath() and TopErasure(): between two paths, exactly the
\* nodes are blocked that no path through the layers leads to, so that the search for a path
\* never runs off the end of a list, and a phase does not end before there is no path left.
THEOREM NothingIsEverForgotten == Spec => []NothingIsForgotten
<1>1. Init => LayerInv
  BY DEF Init, LayerInv
<1>2. PreflowInv /\ AugmentInv /\ OnlyDinicBlocks /\ LayerInv /\ [Next]_vars => LayerInv'
  BY NextLayers
<1>3. AugmentInv /\ OnlyDinicBlocks /\ LayerInv => BlockingIsExact
  <2> SUFFICES ASSUME AugmentInv, OnlyDinicBlocks, LayerInv, pc = "block" PROVE BlockingIsExact
    BY Zenon DEF BlockingIsExact
  <2>1. method = "DINIC" /\ method \in Augmentations
    BY DEF OnlyDinicBlocks, Augmentations
  <2> QED
    BY <2>1, OpenIsBehind DEF AugmentInv, LayerInv
<1>4. WorkIsKnown /\ BlockingIsExact => NothingIsForgotten
  BY DEF NothingIsForgotten
<1> QED
  BY <1>1, <1>2, <1>3, <1>4, PreflowInvariant, AugmentInvariant, OnlyDinicHasBlocks,
     WorkStaysKnown, PTL DEF Spec

-----------------------------------------------------------------------------
(* The methods that augment a cheapest flow along shortest paths. *)

\* A function on a finite set has a least value.
LEMMA LeastValue ==
  ASSUME NEW S, IsFiniteSet(S), S # {}, NEW f, \A x \in S : f[x] \in Int
  PROVE  \E x \in S : \A y \in S : f[x] <= f[y]
<1> DEFINE C == {T \in SUBSET S : T # {} => \E x \in T : \A y \in T : f[x] <= f[y]}
<1>1. ASSUME NEW T \in SUBSET S, \A x \in T : T \ {x} \in C PROVE T \in C
  <2> SUFFICES ASSUME T # {} PROVE \E x \in T : \A y \in T : f[x] <= f[y]
    OBVIOUS
  <2>1. PICK z \in T : TRUE
    OBVIOUS
  <2>2. CASE T \ {z} = {}
    <3>1. \A y \in T : y = z
      BY <2>2
    <3>2. f[z] <= f[z]
      BY <2>1
    <3> QED
      BY <2>1, <3>1, <3>2
  <2>3. CASE T \ {z} # {}
    <3>1. PICK x \in T \ {z} : \A y \in T \ {z} : f[x] <= f[y]
      BY <1>1, <2>1, <2>3
    <3>2. \A y \in T : f[y] \in Int
      OBVIOUS
    <3>3. CASE f[x] <= f[z]
      BY <3>1, <3>3
    <3>4. CASE f[z] <= f[x]
      <4>1. \A y \in T : f[z] <= f[y]
        BY <2>1, <3>1, <3>2, <3>4
      <4> QED
        BY <2>1, <4>1
    <3> QED
      BY <2>1, <3>1, <3>2, <3>3, <3>4
  <2> QED
    BY <2>2, <2>3
<1>2. C = SUBSET S
  <2> HIDE DEF C
  <2>1. C \in SUBSET SUBSET S
    BY DEF C
  <2> QED
    BY <1>1, <2>1, AllSubsets
<1>3. S \in C
  BY <1>2
<1> QED
  BY <1>3

\* The distances after one more round.
Offers(l, A, g, v) ==
  {g[StartNode(d)] + l[d] : d \in {e \in A : EndNode(e) = v /\ g[StartNode(e)] # InfFloat}}

\* The label of a node after one more round.
Improved(l, A, g, v) == Min({g[v]} \cup Offers(l, A, g, v))

\* The equation that defines the rounds in Distances.
AreRounds(l, A, S, g) ==
  g = [k \in 0 .. N |-> IF k = 0 THEN [v \in Nodes |-> IF v \in S THEN 0 ELSE InfFloat]
                        ELSE [v \in Nodes |-> Improved(l, A, g[k - 1], v)]]

\* The distances are chosen by this equation.
LEMMA DistancesAreRecursive ==
  ASSUME NEW l, NEW A, NEW S
  PROVE  Distances(l, A, S) = (CHOOSE g : AreRounds(l, A, S, g))[N]
BY Zenon DEF Distances, AreRounds, Improved, Offers

\* Lengths of the arcs in A, and labels of nodes.
Measured(l, A, g) == A \in SUBSET Darts /\ (\A d \in A : l[d] \in Int) /\ g \in [Nodes -> Int]

\* Labels do not grow, and each is the old one or an offer.
LEMMA ImprovedIsLeast ==
  ASSUME NEW l, NEW A, NEW g, Measured(l, A, g), NEW v \in Nodes
  PROVE  /\ Improved(l, A, g, v) \in Int /\ Improved(l, A, g, v) <= g[v]
         /\ \A x \in Offers(l, A, g, v) : x \in Int /\ Improved(l, A, g, v) <= x
         /\ Improved(l, A, g, v) = g[v] \/ Improved(l, A, g, v) \in Offers(l, A, g, v)
<1> DEFINE E == {e \in A : EndNode(e) = v /\ g[StartNode(e)] # InfFloat}
           h == [e \in E |-> g[StartNode(e)] + l[e]]
<1>1. E \in SUBSET Darts /\ IsFiniteSet(E)
  BY DartsAreFinite DEF Measured
<1>2. \A e \in E : h[e] \in Int
  BY DartEnds DEF Measured
<1>3. Offers(l, A, g, v) = {h[e] : e \in E} /\ g[v] \in Int
  BY DEF Offers, Measured
<1> HIDE DEF E, h
<1>4. \E x \in {g[v]} \cup Offers(l, A, g, v) : \A y \in {g[v]} \cup Offers(l, A, g, v) : x <= y
  <2>1. CASE E = {}
    BY <1>3, <2>1
  <2>2. CASE E # {}
    <3>1. PICK e \in E : \A d \in E : h[e] <= h[d]
      BY <1>1, <1>2, <2>2, LeastValue
    <3>2. h[e] \in Int /\ h[e] \in Offers(l, A, g, v)
      BY <1>2, <1>3
    <3>3. CASE g[v] <= h[e]
      BY <1>2, <1>3, <3>1, <3>2, <3>3
    <3>4. CASE h[e] <= g[v]
      BY <1>2, <1>3, <3>1, <3>2, <3>4
    <3> QED
      BY <1>3, <3>2, <3>3, <3>4
  <2> QED
    BY <2>1, <2>2
<1>5. /\ Improved(l, A, g, v) \in {g[v]} \cup Offers(l, A, g, v)
      /\ \A y \in {g[v]} \cup Offers(l, A, g, v) : Improved(l, A, g, v) <= y
  BY <1>4 DEF Improved, Min
<1> QED
  BY <1>2, <1>3, <1>5

\* There is a solution.
LEMMA RoundsExist ==
  ASSUME NEW l, NEW A, A \in SUBSET Darts, \A d \in A : l[d] \in Int, NEW S
  PROVE  \E g : AreRounds(l, A, S, g)
<1> DEFINE D == [Nodes -> Int]
           F == [T \in D |-> [v \in Nodes |-> Improved(l, A, T, v)]]
           a == [v \in Nodes |-> IF v \in S THEN 0 ELSE InfFloat]
<1>1. F \in [D -> D] /\ a \in D
  <2>1. ASSUME NEW T \in D, NEW v \in Nodes PROVE Improved(l, A, T, v) \in Int
    <3>1. Measured(l, A, T)
      BY DEF Measured
    <3> QED
      BY <3>1, ImprovedIsLeast
  <2> QED
    BY <2>1, InfFloatType
<1>2. \A T \in D : F[T] = [v \in Nodes |-> Improved(l, A, T, v)]
  OBVIOUS
<1>3. a = [v \in Nodes |-> IF v \in S THEN 0 ELSE InfFloat]
  OBVIOUS
<1> HIDE DEF D, F, a
<1>4. \E h : /\ h = [k \in Nat |-> IF k = 0 THEN a ELSE F[h[k - 1]]]
             /\ h \in [Nat -> D]
  BY ONLY <1>1, IterationExists
<1>5. PICK h : /\ h = [k \in Nat |-> IF k = 0 THEN a ELSE F[h[k - 1]]]
               /\ h \in [Nat -> D]
  BY <1>4, Zenon
<1> DEFINE g == [k \in 0 .. N |-> h[k]]
<1>6. ASSUME NEW k \in 0 .. N
      PROVE  g[k] = IF k = 0 THEN [v \in Nodes |-> IF v \in S THEN 0 ELSE InfFloat]
                    ELSE [v \in Nodes |-> Improved(l, A, g[k - 1], v)]
  <2>1. k \in Nat /\ g[k] = h[k] /\ h[k] = IF k = 0 THEN a ELSE F[h[k - 1]]
    BY <1>5, GraphType
  <2>2. CASE k = 0
    BY <1>3, <2>1, <2>2
  <2>3. CASE k # 0
    <3>1. k - 1 \in 0 .. N /\ k - 1 \in Nat
      BY <2>3, GraphType
    <3>2. h[k - 1] \in D /\ g[k - 1] = h[k - 1]
      BY <1>5, <3>1
    <3>3. F[h[k - 1]] = [v \in Nodes |-> Improved(l, A, h[k - 1], v)]
      BY <1>2, <3>2
    <3> HIDE DEF g
    <3> QED
      BY <2>1, <2>3, <3>2, <3>3
  <2> QED
    BY <2>2, <2>3
<1>7. g = [k \in 0 .. N |-> g[k]]
  OBVIOUS
<1> HIDE DEF g
<1>8. [k \in 0 .. N |-> g[k]]
        = [k \in 0 .. N |-> IF k = 0 THEN [v \in Nodes |-> IF v \in S THEN 0 ELSE InfFloat]
                            ELSE [v \in Nodes |-> Improved(l, A, g[k - 1], v)]]
  BY <1>6
<1>9. AreRounds(l, A, S, g)
  BY <1>7, <1>8, Zenon DEF AreRounds
<1> QED
  BY <1>9

\* What the rounds are, for the lengths l of the arcs in A, and the start nodes S.
Rounds(l, A, S, g) ==
  /\ A \in SUBSET Darts /\ (\A d \in A : l[d] \in Int)
  /\ g \in [0 .. N -> [Nodes -> Int]]
  /\ \A v \in Nodes : g[0][v] = IF v \in S THEN 0 ELSE InfFloat
  /\ \A k \in 0 .. N - 1 : \A v \in Nodes :
       /\ g[k + 1][v] <= g[k][v]
       /\ \A d \in A : EndNode(d) = v /\ g[k][StartNode(d)] # InfFloat
                         => g[k + 1][v] <= g[k][StartNode(d)] + l[d]
       /\ \/ g[k + 1][v] = g[k][v]
          \/ \E d \in A : /\ EndNode(d) = v /\ g[k][StartNode(d)] # InfFloat
                          /\ g[k + 1][v] = g[k][StartNode(d)] + l[d]

\* All solutions are rounds.
LEMMA RoundsAreSteps ==
  ASSUME NEW l, NEW A, A \in SUBSET Darts, \A d \in A : l[d] \in Int, NEW S,
         NEW g, AreRounds(l, A, S, g)
  PROVE  Rounds(l, A, S, g)
<1> DEFINE B == {k \in Nat : k <= N => g[k] \in [Nodes -> Int]}
<1>1. ASSUME NEW k \in 0 .. N
      PROVE  g[k] = IF k = 0 THEN [v \in Nodes |-> IF v \in S THEN 0 ELSE InfFloat]
                    ELSE [v \in Nodes |-> Improved(l, A, g[k - 1], v)]
  BY Zenon DEF AreRounds
<1>2. N \in Nat /\ N # 0
  BY GraphType
<1>3. ASSUME NEW k \in 0 .. N - 1
      PROVE  /\ k \in 0 .. N /\ k + 1 \in 0 .. N /\ k + 1 # 0 /\ (k + 1) - 1 = k
             /\ g[k + 1] = [v \in Nodes |-> Improved(l, A, g[k], v)]
  <2>1. k \in 0 .. N /\ k + 1 \in 0 .. N /\ k + 1 # 0 /\ (k + 1) - 1 = k
    BY <1>2
  <2> QED
    BY <1>1, <2>1
<1>4. 0 \in B
  <2>1. 0 \in 0 .. N
    BY <1>2
  <2>2. g[0] = [v \in Nodes |-> IF v \in S THEN 0 ELSE InfFloat]
    BY <1>1, <2>1
  <2> QED
    BY <2>2, InfFloatType
<1>5. ASSUME NEW k \in B PROVE k + 1 \in B
  <2> SUFFICES ASSUME k + 1 <= N PROVE g[k + 1] \in [Nodes -> Int]
    OBVIOUS
  <2>1. k \in 0 .. N - 1 /\ g[k] \in [Nodes -> Int]
    BY <1>2
  <2>2. Measured(l, A, g[k])
    BY <2>1 DEF Measured
  <2>3. \A v \in Nodes : Improved(l, A, g[k], v) \in Int
    BY <2>2, ImprovedIsLeast
  <2> QED
    BY <1>3, <2>1, <2>3
<1>6. B = Nat
  <2> HIDE DEF B
  <2>1. B \in SUBSET Nat
    BY DEF B
  <2> QED
    BY <1>4, <1>5, <2>1, AllNumbers
<1>7. \A k \in 0 .. N : g[k] \in [Nodes -> Int]
  BY <1>2, <1>6
<1>8. g \in [0 .. N -> [Nodes -> Int]]
  <2>1. g = [k \in 0 .. N |-> g[k]]
    BY DEF AreRounds
  <2> QED
    BY <1>7, <2>1
<1>9. \A v \in Nodes : g[0][v] = IF v \in S THEN 0 ELSE InfFloat
  <2>1. 0 \in 0 .. N
    BY <1>2
  <2> QED
    BY <1>1, <2>1
<1>10. ASSUME NEW k \in 0 .. N - 1, NEW v \in Nodes
       PROVE  /\ g[k + 1][v] <= g[k][v]
              /\ \A d \in A : EndNode(d) = v /\ g[k][StartNode(d)] # InfFloat
                                => g[k + 1][v] <= g[k][StartNode(d)] + l[d]
              /\ \/ g[k + 1][v] = g[k][v]
                 \/ \E d \in A : /\ EndNode(d) = v /\ g[k][StartNode(d)] # InfFloat
                                 /\ g[k + 1][v] = g[k][StartNode(d)] + l[d]
  <2>1. Measured(l, A, g[k])
    BY <1>3, <1>7 DEF Measured
  <2>2. g[k + 1][v] = Improved(l, A, g[k], v)
    BY <1>3
  <2>3. /\ Improved(l, A, g[k], v) <= g[k][v]
        /\ \A x \in Offers(l, A, g[k], v) : Improved(l, A, g[k], v) <= x
        /\ Improved(l, A, g[k], v) = g[k][v] \/ Improved(l, A, g[k], v) \in Offers(l, A, g[k], v)
    BY <2>1, ImprovedIsLeast
  <2> QED
    BY <2>2, <2>3 DEF Offers
<1> QED
  BY <1>8, <1>9, <1>10 DEF Rounds

\* The nodes in T have their distances after k rounds, and no other is nearer.
Settled(g, k, T) ==
  /\ T \in SUBSET Nodes
  /\ \A j \in k .. N : /\ \A v \in T : g[j][v] = g[k][v]
                       /\ \A v \in T, w \in Nodes \ T : g[k][v] <= g[j][w]

\* One more node is settled with every round, if no length is negative.
LEMMA OneMoreSettled ==
  ASSUME NEW l, NEW A, NEW S, NEW g, Rounds(l, A, S, g), \A d \in A : l[d] >= 0,
         NEW k \in 0 .. N - 2, NEW T, Settled(g, k, T), NEW c \in Nodes \ T,
         \A w \in Nodes \ T : g[k + 1][c] <= g[k + 1][w]
  PROVE  Settled(g, k + 1, T \cup {c})
<1> DEFINE m == g[k + 1][c]
           B == {j \in Nat : k + 1 + j <= N => \A w \in Nodes \ T : m <= g[k + 1 + j][w]}
<1>1. /\ N \in Nat /\ k \in Nat /\ k \in 0 .. N - 1 /\ k + 1 \in 0 .. N /\ k \in k .. N /\ k + 1 \in k .. N
      /\ \A j \in k + 1 .. N : j \in k .. N /\ j \in 0 .. N
      /\ \A j \in Nat : k + 1 + (j + 1) <= N =>
           /\ k + 1 + j \in 0 .. N - 1 /\ k + 1 + j \in k .. N /\ k + 1 + (j + 1) = (k + 1 + j) + 1
           /\ k + 1 + j \in 0 .. N /\ k + 1 + j <= N
  BY GraphType
<1>2. \A j \in 0 .. N : \A v \in Nodes : g[j][v] \in Int
  BY DEF Rounds
<1>3. m \in Int /\ c \in Nodes
  BY <1>1, <1>2
<1>4. \A d \in A : StartNode(d) \in Nodes /\ EndNode(d) \in Nodes /\ l[d] \in Int
  BY DartEnds DEF Rounds
<1>5. 0 \in B
  BY <1>1
<1>6. ASSUME NEW i \in B PROVE i + 1 \in B
  <2> SUFFICES ASSUME k + 1 + (i + 1) <= N, NEW w \in Nodes \ T
               PROVE  m <= g[k + 1 + (i + 1)][w]
    OBVIOUS
  <2>1. PICK j : j = k + 1 + i
    OBVIOUS
  <2>2. /\ j \in 0 .. N - 1 /\ j \in k .. N /\ j \in 0 .. N /\ k + 1 + (i + 1) = j + 1
        /\ \A x \in Nodes \ T : m <= g[j][x]
    <3>1. i \in Nat
      OBVIOUS
    <3> QED
      BY <1>1, <2>1, <3>1
  <2> HIDE DEF m
  <2>3. CASE g[j + 1][w] = g[j][w]
    BY <2>2, <2>3
  <2>4. CASE \E d \in A : /\ EndNode(d) = w /\ g[j][StartNode(d)] # InfFloat
                          /\ g[j + 1][w] = g[j][StartNode(d)] + l[d]
    <3>1. PICK d \in A : /\ EndNode(d) = w /\ g[j][StartNode(d)] # InfFloat
                         /\ g[j + 1][w] = g[j][StartNode(d)] + l[d]
      BY <2>4
    <3>2. PICK x \in Nodes : x = StartNode(d)
      BY <1>4
    <3>3. g[j][x] \in Int /\ l[d] \in Int /\ l[d] >= 0
      BY <1>2, <1>4, <2>2
    <3>4. CASE x \notin T
      <4>1. m <= g[j][x]
        BY <2>2, <3>4
      <4> QED
        BY <1>3, <2>2, <3>1, <3>2, <3>3, <4>1
    <3>5. CASE x \in T
      <4>1. g[j][x] = g[k][x]
        BY <2>2, <3>5 DEF Settled
      <4>2. g[k + 1][w] <= g[k][x] + l[d]
        BY <1>1, <3>1, <3>2, <4>1 DEF Rounds
      <4>3. m <= g[k + 1][w]
        BY DEF m
      <4>4. g[k + 1][w] \in Int
        BY <1>1, <1>2
      <4>5. g[j + 1][w] = g[k][x] + l[d]
        BY <3>1, <3>2, <4>1
      <4>6. m <= g[j + 1][w]
        BY <1>3, <3>3, <4>1, <4>2, <4>3, <4>4, <4>5
      <4> QED
        BY <2>2, <4>6
    <3> QED
      BY <3>4, <3>5
  <2> QED
    BY <2>2, <2>3, <2>4 DEF Rounds
<1>7. B = Nat
  <2> HIDE DEF B
  <2>1. B \in SUBSET Nat
    BY DEF B
  <2> QED
    BY <1>5, <1>6, <2>1, AllNumbers
<1>8. ASSUME NEW j \in k + 1 .. N, NEW w \in Nodes \ T PROVE m <= g[j][w]
  <2>1. j - (k + 1) \in Nat /\ k + 1 + (j - (k + 1)) = j /\ j <= N
    BY <1>1
  <2>2. j - (k + 1) \in B
    BY <1>7, <2>1
  <2> QED
    BY <2>1, <2>2
\* Labels do not grow.
<1>9. ASSUME NEW j \in k + 1 .. N PROVE g[j][c] <= m
  <2> DEFINE C == {i \in Nat : k + 1 + i <= N => g[k + 1 + i][c] <= m}
  <2>1. 0 \in C
    BY <1>1, <1>3
  <2>2. ASSUME NEW i \in C PROVE i + 1 \in C
    <3> SUFFICES ASSUME k + 1 + (i + 1) <= N PROVE g[k + 1 + (i + 1)][c] <= m
      OBVIOUS
    <3>1. PICK x : x = k + 1 + i
      OBVIOUS
    <3>2. x \in 0 .. N - 1 /\ x \in 0 .. N /\ x + 1 \in 0 .. N /\ k + 1 + (i + 1) = x + 1 /\ g[x][c] <= m
      <4>1. i \in Nat
        OBVIOUS
      <4> QED
        BY <1>1, <3>1, <4>1
    <3>3. g[x + 1][c] <= g[x][c] /\ g[x + 1][c] \in Int /\ g[x][c] \in Int
      BY <1>2, <1>3, <3>2 DEF Rounds
    <3> HIDE DEF m
    <3> QED
      BY <1>3, <3>2, <3>3
  <2>3. C = Nat
    <3> HIDE DEF C
    <3>1. C \in SUBSET Nat
      BY DEF C
    <3> QED
      BY <2>1, <2>2, <3>1, AllNumbers
  <2>4. j - (k + 1) \in Nat /\ k + 1 + (j - (k + 1)) = j /\ j <= N
    BY <1>1
  <2>5. j - (k + 1) \in C
    BY <2>3, <2>4
  <2> QED
    BY <2>4, <2>5
<1>10. ASSUME NEW j \in k + 1 .. N
       PROVE  /\ \A v \in T \cup {c} : g[j][v] = g[k + 1][v]
              /\ \A v \in T \cup {c}, w \in Nodes \ (T \cup {c}) : g[k + 1][v] <= g[j][w]
  <2>1. j \in k .. N /\ j \in 0 .. N
    BY <1>1
  <2>2. \A v \in T : g[j][v] = g[k][v] /\ g[k + 1][v] = g[k][v]
    BY <1>1, <2>1 DEF Settled
  <2>3. g[j][c] = m
    <3>1. g[j][c] \in Int /\ g[j][c] <= m /\ m <= g[j][c]
      BY <1>2, <1>3, <1>8, <1>9, <2>1
    <3> HIDE DEF m
    <3> QED
      BY <1>3, <3>1
  <2>4. \A v \in T, w \in Nodes \ T : g[k][v] <= g[j][w]
    BY <2>1 DEF Settled
  <2> QED
    BY <1>8, <2>2, <2>3, <2>4
<1>11. T \cup {c} \in SUBSET Nodes
  BY <1>3 DEF Settled
<1> QED
  BY <1>10, <1>11 DEF Settled

\* After that round, the values of all nodes are settled.
LEMMA AllSettled ==
  ASSUME NEW l, NEW A, NEW S, NEW g, Rounds(l, A, S, g), \A d \in A : l[d] >= 0
  PROVE  \A v \in Nodes : g[N][v] = g[N - 1][v]
<1> DEFINE B == {k \in Nat : k <= N - 1 => \E T : Settled(g, k, T) /\ Cardinality(T) >= k + 1}
<1>1. N \in Nat /\ N # 0 /\ 0 \in 0 .. N /\ Nodes # {} /\ IsFiniteSet(Nodes)
  BY GraphType, NodeSetsAreFinite DEF Nodes
<1>2. \A j \in 0 .. N : \A v \in Nodes : g[j][v] \in Int
  BY DEF Rounds
<1>3. \A d \in A : StartNode(d) \in Nodes /\ EndNode(d) \in Nodes /\ l[d] \in Int
  BY DartEnds DEF Rounds
<1>4. 0 \in B
  <2>1. PICK c \in Nodes : \A w \in Nodes : g[0][c] <= g[0][w]
    <3>1. \A v \in Nodes : g[0][v] \in Int
      BY <1>1, <1>2
    <3>2. PICK f : f = g[0]
      OBVIOUS
    <3> QED
      BY <1>1, <3>1, <3>2, LeastValue
  <2> DEFINE C == {j \in Nat : j <= N => \A w \in Nodes : g[0][c] <= g[j][w] /\ g[j][c] = g[0][c]}
  <2>2. 0 \in C
    BY <1>1, <2>1
  <2>3. ASSUME NEW j \in C PROVE j + 1 \in C
    <3> SUFFICES ASSUME j + 1 <= N, NEW w \in Nodes
                 PROVE  g[0][c] <= g[j + 1][w] /\ g[j + 1][c] = g[0][c]
      OBVIOUS
    <3>1. j \in 0 .. N - 1 /\ j \in 0 .. N /\ j + 1 \in 0 .. N /\ j <= N
      BY <1>1
    <3>2. (\A x \in Nodes : g[0][c] <= g[j][x]) /\ g[j][c] = g[0][c]
      BY <3>1
    <3>3. ASSUME NEW x \in Nodes PROVE g[0][c] <= g[j + 1][x]
      <4>1. CASE g[j + 1][x] = g[j][x]
        BY <3>2, <4>1
      <4>2. CASE \E d \in A : g[j + 1][x] = g[j][StartNode(d)] + l[d]
        <5>1. PICK d \in A : g[j + 1][x] = g[j][StartNode(d)] + l[d]
          BY <4>2
        <5>2. g[0][c] <= g[j][StartNode(d)] /\ g[j][StartNode(d)] \in Int /\ l[d] \in Int /\ l[d] >= 0
          BY <1>2, <1>3, <3>1, <3>2
        <5>3. g[0][c] \in Int
          BY <1>1, <1>2
        <5> QED
          BY <5>1, <5>2, <5>3
      <4> QED
        BY <3>1, <4>1, <4>2 DEF Rounds
    <3>4. g[j + 1][c] <= g[j][c] /\ g[j + 1][c] \in Int /\ g[0][c] \in Int /\ g[j][c] \in Int
      BY <1>1, <1>2, <3>1 DEF Rounds
    <3> QED
      BY <3>2, <3>3, <3>4
  <2>4. C = Nat
    <3> HIDE DEF C
    <3>1. C \in SUBSET Nat
      BY DEF C
    <3> QED
      BY <2>2, <2>3, <3>1, AllNumbers
  <2>5. Settled(g, 0, {c})
    <3>1. \A j \in 0 .. N : j \in Nat /\ j <= N
      BY <1>1
    <3>2. \A j \in 0 .. N : \A w \in Nodes : g[0][c] <= g[j][w] /\ g[j][c] = g[0][c]
      BY <2>4, <3>1
    <3> QED
      BY <3>2 DEF Settled
  <2>6. Cardinality({c}) = 1
    BY FS_Singleton
  <2> QED
    BY <2>5, <2>6
<1>5. ASSUME NEW k \in B PROVE k + 1 \in B
  <2> SUFFICES ASSUME k + 1 <= N - 1 PROVE \E T : Settled(g, k + 1, T) /\ Cardinality(T) >= (k + 1) + 1
    OBVIOUS
  <2>1. k \in 0 .. N - 2 /\ k + 1 \in 0 .. N /\ k \in Nat
    BY <1>1
  <2>2. PICK T : Settled(g, k, T) /\ Cardinality(T) >= k + 1
    BY <1>1
  <2>3. T \in SUBSET Nodes /\ IsFiniteSet(T) /\ Cardinality(T) \in Nat
    BY <2>2, NodeSetsAreFinite, FS_CardinalityType DEF Settled
  <2>4. CASE T = Nodes
    <3>1. Cardinality(Nodes) = N
      BY <1>1, FS_Interval DEF Nodes
    <3>2. Settled(g, k + 1, Nodes)
      <4>1. \A j \in k + 1 .. N : j \in k .. N
        BY <2>1
      <4>2. k + 1 \in k .. N
        BY <1>1, <2>1
      <4>3. \A j \in k + 1 .. N : \A v \in Nodes : g[j][v] = g[k + 1][v]
        BY <2>2, <2>4, <4>1, <4>2 DEF Settled
      <4> QED
        BY <4>3 DEF Settled
    <3> QED
      BY <1>1, <2>1, <3>1, <3>2
  <2>5. CASE T # Nodes
    <3>1. Nodes \ T # {} /\ IsFiniteSet(Nodes \ T)
      BY <1>1, <2>3, <2>5, NodeSetsAreFinite
    <3>2. PICK c \in Nodes \ T : \A w \in Nodes \ T : g[k + 1][c] <= g[k + 1][w]
      <4>1. \A v \in Nodes \ T : g[k + 1][v] \in Int
        BY <1>2, <2>1
      <4>2. PICK f : f = g[k + 1]
        OBVIOUS
      <4> QED
        BY <3>1, <4>1, <4>2, LeastValue
    <3>3. Settled(g, k + 1, T \cup {c})
      BY <2>1, <2>2, <3>2, OneMoreSettled
    <3>4. Cardinality(T \cup {c}) = Cardinality(T) + 1
      BY <2>3, <3>2, FS_AddElement
    <3> QED
      BY <2>1, <2>2, <2>3, <3>3, <3>4
  <2> QED
    BY <2>4, <2>5
<1>6. N - 1 \in Nat /\ N - 1 <= N - 1
  BY <1>1
<1>7. N - 1 \in B
  <2>1. B = Nat
    <3> HIDE DEF B
    <3>1. B \in SUBSET Nat
      BY DEF B
    <3> QED
      BY <1>4, <1>5, <3>1, AllNumbers
  <2> QED
    BY <1>6, <2>1
<1>8. PICK T : Settled(g, N - 1, T) /\ Cardinality(T) >= (N - 1) + 1
  BY <1>6, <1>7
<1>9. T = Nodes
  <2>1. T \in SUBSET Nodes /\ Cardinality(T) >= N
    BY <1>1, <1>8 DEF Settled
  <2>2. Cardinality(Nodes) = N
    BY <1>1, FS_Interval DEF Nodes
  <2>3. Cardinality(T) <= Cardinality(Nodes) /\ Cardinality(T) \in Nat /\ Cardinality(Nodes) \in Nat
    BY <1>1, <2>1, FS_Subset, FS_CardinalityType
  <2>4. Cardinality(T) = Cardinality(Nodes)
    BY <1>1, <2>1, <2>2, <2>3
  <2> QED
    BY <1>1, <2>1, <2>4, FS_Subset
<1>10. N \in N - 1 .. N
  BY <1>1
<1> QED
  BY <1>8, <1>9, <1>10 DEF Settled

\* The distances d by arcs in A of length l from the nodes in S, if no length is negative.
AreDistances(l, A, S, d) ==
  /\ d \in [Nodes -> Int]
  /\ \A v \in Nodes : 0 <= d[v] /\ d[v] <= InfFloat /\ (v \in S => d[v] = 0)
  /\ \A e \in A : d[StartNode(e)] # InfFloat => d[EndNode(e)] <= d[StartNode(e)] + l[e]

\* Lengths that do not exceed what counts as infinite.
Short(l, A) == \A e \in A : (N + 1) * l[e] < InfFloat

\* From where the search has come to, it goes on.
GoesOn(A, d) == \A e \in A : d[StartNode(e)] # InfFloat => d[EndNode(e)] # InfFloat

\* So the last round gives the distances.
LEMMA DistancesAreExact ==
  ASSUME NEW l, NEW A, A \in SUBSET Darts, \A d \in A : l[d] \in Int /\ l[d] >= 0, NEW S
  PROVE  AreDistances(l, A, S, Distances(l, A, S))
<1>1. PICK g : g = CHOOSE h : AreRounds(l, A, S, h)
  OBVIOUS
<1>2. AreRounds(l, A, S, g)
  BY <1>1, RoundsExist, Zenon
<1>3. Rounds(l, A, S, g)
  BY <1>2, RoundsAreSteps
<1>4. Distances(l, A, S) = g[N]
  BY <1>1, DistancesAreRecursive
<1>5. N \in Nat /\ N # 0 /\ N \in 0 .. N /\ N - 1 \in 0 .. N /\ N - 1 \in 0 .. N - 1 /\ (N - 1) + 1 = N
  BY GraphType
<1>6. \A v \in Nodes : g[N][v] = g[N - 1][v]
  BY <1>3, AllSettled
<1>7. \A j \in 0 .. N : g[j] \in [Nodes -> Int] /\ \A v \in Nodes : g[j][v] \in Int
  BY <1>3 DEF Rounds
<1>8. \A d \in A : StartNode(d) \in Nodes /\ EndNode(d) \in Nodes
  BY DartEnds
<1> DEFINE B == {k \in Nat : k <= N => \A v \in Nodes : /\ 0 <= g[k][v] /\ g[k][v] <= InfFloat
                                                        /\ v \in S => g[k][v] = 0}
<1>9. 0 \in B
  BY <1>3, InfFloatType DEF Rounds
<1>10. ASSUME NEW k \in B PROVE k + 1 \in B
  <2> SUFFICES ASSUME k + 1 <= N, NEW v \in Nodes
               PROVE  /\ 0 <= g[k + 1][v] /\ g[k + 1][v] <= InfFloat
                      /\ v \in S => g[k + 1][v] = 0
    OBVIOUS
  <2>1. k \in 0 .. N - 1 /\ k \in 0 .. N /\ k + 1 \in 0 .. N /\ k <= N
    BY <1>5
  <2>2. \A w \in Nodes : /\ 0 <= g[k][w] /\ g[k][w] <= InfFloat
                         /\ w \in S => g[k][w] = 0
    BY <2>1
  <2>3. 0 <= g[k + 1][v]
    <3>1. CASE g[k + 1][v] = g[k][v]
      BY <2>2, <3>1
    <3>2. CASE \E d \in A : g[k + 1][v] = g[k][StartNode(d)] + l[d]
      BY <1>7, <1>8, <2>1, <2>2, <3>2
    <3> QED
      BY <1>3, <2>1, <3>1, <3>2 DEF Rounds
  <2>4. g[k + 1][v] <= g[k][v] /\ g[k + 1][v] \in Int /\ g[k][v] \in Int
    BY <1>3, <1>7, <2>1 DEF Rounds
  <2> QED
    BY <2>2, <2>3, <2>4, InfFloatType
<1>11. B = Nat
  <2> HIDE DEF B
  <2>1. B \in SUBSET Nat
    BY DEF B
  <2> QED
    BY <1>9, <1>10, <2>1, AllNumbers
<1>12. \A v \in Nodes : /\ 0 <= g[N][v] /\ g[N][v] <= InfFloat
                        /\ v \in S => g[N][v] = 0
  BY <1>5, <1>11
<1>13. ASSUME NEW e \in A, g[N][StartNode(e)] # InfFloat
       PROVE  g[N][EndNode(e)] <= g[N][StartNode(e)] + l[e]
  <2>1. g[N - 1][StartNode(e)] # InfFloat /\ g[N - 1][StartNode(e)] = g[N][StartNode(e)]
    BY <1>6, <1>8, <1>13
  <2>2. g[(N - 1) + 1][EndNode(e)] <= g[N - 1][StartNode(e)] + l[e]
    BY <1>3, <1>5, <1>8, <2>1 DEF Rounds
  <2> QED
    BY <1>5, <2>1, <2>2
<1> QED
  BY <1>4, <1>5, <1>7, <1>12, <1>13 DEF AreDistances

\* No node behind a reached one is left out, if the lengths are small.
LEMMA SearchGoesOn ==
  ASSUME NEW l, NEW A, A \in SUBSET Darts, \A d \in A : l[d] \in Int /\ l[d] >= 0, NEW S,
         Short(l, A)
  PROVE  GoesOn(A, Distances(l, A, S))
<1> SUFFICES ASSUME NEW a \in A PROVE GoesOn(A, Distances(l, A, S))
  BY DEF GoesOn
<1>1. PICK g : g = CHOOSE h : AreRounds(l, A, S, h)
  OBVIOUS
<1>2. AreRounds(l, A, S, g)
  BY <1>1, RoundsExist, Zenon
<1>3. Rounds(l, A, S, g)
  BY <1>2, RoundsAreSteps
<1>4. Distances(l, A, S) = g[N]
  BY <1>1, DistancesAreRecursive
<1>5. N \in Nat /\ N # 0 /\ N \in 0 .. N
  BY GraphType
<1>6. \A d \in A : StartNode(d) \in Nodes /\ EndNode(d) \in Nodes
  BY DartEnds
<1>7. \A j \in 0 .. N : \A v \in Nodes : g[j][v] \in Int
  BY <1>3 DEF Rounds
<1>8. PICK L \in Nat : (N + 1) * L < InfFloat /\ \A d \in A : l[d] <= L
  <2> DEFINE f == [d \in A |-> -l[d]]
  <2>1. \A d \in A : f[d] \in Int /\ f[d] = -l[d]
    OBVIOUS
  <2>2. IsFiniteSet(A) /\ A # {}
    BY DartsAreFinite
  <2> HIDE DEF f
  <2>3. PICK d \in A : \A e \in A : f[d] <= f[e]
    BY <2>1, <2>2, LeastValue
  <2>4. l[d] \in Nat /\ \A e \in A : l[e] <= l[d]
    BY <2>1, <2>3
  <2> QED
    BY <2>4 DEF Short
<1> DEFINE B == {k \in Nat : k <= N => \A v \in Nodes : g[k][v] # InfFloat => g[k][v] <= k * L}
<1>9. 0 \in B
  BY <1>3 DEF Rounds
<1>10. ASSUME NEW k \in B PROVE k + 1 \in B
  <2> SUFFICES ASSUME k + 1 <= N, NEW v \in Nodes, g[k + 1][v] # InfFloat
               PROVE  g[k + 1][v] <= (k + 1) * L
    OBVIOUS
  <2>1. k \in 0 .. N - 1 /\ k \in 0 .. N /\ k + 1 \in 0 .. N /\ k <= N /\ k \in Nat
    BY <1>5
  <2>2. PICK m \in Nat : m = k * L
    BY <2>1
  <2>3. (k + 1) * L = m + L
    BY <2>1, <2>2
  <2>4. CASE g[k + 1][v] = g[k][v]
    <3>1. g[k][v] <= m /\ g[k][v] \in Int
      BY <1>7, <2>1, <2>2, <2>4
    <3> QED
      BY <2>3, <2>4, <3>1
  <2>5. CASE \E d \in A : g[k][StartNode(d)] # InfFloat /\ g[k + 1][v] = g[k][StartNode(d)] + l[d]
    <3>1. PICK d \in A : g[k][StartNode(d)] # InfFloat /\ g[k + 1][v] = g[k][StartNode(d)] + l[d]
      BY <2>5
    <3>2. g[k][StartNode(d)] <= m /\ g[k][StartNode(d)] \in Int /\ l[d] \in Int /\ l[d] <= L
      BY <1>6, <1>7, <1>8, <2>1, <2>2, <3>1
    <3> QED
      BY <2>3, <3>1, <3>2
  <2> QED
    BY <1>3, <2>1, <2>4, <2>5 DEF Rounds
<1>11. B = Nat
  <2> HIDE DEF B
  <2>1. B \in SUBSET Nat
    BY DEF B
  <2> QED
    BY <1>9, <1>10, <2>1, AllNumbers
<1>12. \A v \in Nodes : g[N][v] # InfFloat => g[N][v] <= N * L
  BY <1>5, <1>11
<1>13. AreDistances(l, A, S, g[N])
  BY <1>4, DistancesAreExact
<1>14. ASSUME NEW e \in A, g[N][StartNode(e)] # InfFloat PROVE g[N][EndNode(e)] # InfFloat
  <2>1. g[N][EndNode(e)] <= g[N][StartNode(e)] + l[e]
    BY <1>13, <1>14 DEF AreDistances
  <2>2. PICK m \in Nat : m = N * L
    BY <1>5
  <2>3. (N + 1) * L = m + L
    BY <1>5, <2>2
  <2>4. g[N][StartNode(e)] <= m /\ l[e] <= L
    BY <1>6, <1>8, <1>12, <1>14, <2>2
  <2>5. g[N][StartNode(e)] \in Int /\ g[N][EndNode(e)] \in Int /\ l[e] \in Int
    BY <1>5, <1>6, <1>7
  <2> QED
    BY <1>8, <2>1, <2>3, <2>4, <2>5, InfFloatType
<1> QED
  BY <1>4, <1>14 DEF GoesOn

-----------------------------------------------------------------------------
(* The paths which a search for cheapest paths has found. *)

\* The arcs by which the search has reached their ends.
Tight(d, l, A) ==
  {e \in A : d[StartNode(e)] # InfFloat /\ d[EndNode(e)] = d[StartNode(e)] + l[e]}

\* One step of ShortestTo, for the pair x of a node and the nodes left to pass.
Reaching(T, S, to, x) ==
  IF x[1] \in S THEN {<<>>}
  ELSE UNION {{Append(p, e) : p \in to[<<StartNode(e), x[2] \cup {x[1]}>>]} :
                e \in {f \in T : EndNode(f) = x[1] /\ StartNode(f) \notin x[2] \cup {x[1]}}}

\* The equation that defines the paths in ShortestTo.
AreTrails(T, S, to) == to = [x \in Nodes \X SUBSET Nodes |-> Reaching(T, S, to, x)]

\* The paths are chosen by this equation.
LEMMA ShortestIsRecursive ==
  ASSUME NEW w, NEW d, NEW l, NEW A, NEW S
  PROVE  ShortestTo(w, d, l, A, S) = (CHOOSE to : AreTrails(Tight(d, l, A), S, to))[<<w, {}>>]
BY Zenon DEF ShortestTo, AreTrails, Reaching, Tight

\* A path p gets to v by one more arc of T.
OneFurther(T, to, v, X, p) ==
  \E e \in T : /\ EndNode(e) = v /\ StartNode(e) \notin X \cup {v}
               /\ \E q \in to[<<StartNode(e), X \cup {v}>>] : p = Append(q, e)

\* What the paths in one step are.
LEMMA ReachingPaths ==
  \A T, S, to, v, X, p :
    p \in Reaching(T, S, to, <<v, X>>) <=> IF v \in S THEN p = <<>> ELSE OneFurther(T, to, v, X, p)
<1> TAKE T, S, to, v, X, p
<1> DEFINE x == <<v, X>>
<1>1. x[1] = v /\ x[2] = X
  OBVIOUS
<1> HIDE DEF x
<1>2. CASE v \in S
  BY <1>1, <1>2 DEF Reaching
<1>3. CASE v \notin S
  <2> DEFINE E == {e \in T : EndNode(e) = v /\ StartNode(e) \notin X \cup {v}}
             P(e) == {Append(q, e) : q \in to[<<StartNode(e), X \cup {v}>>]}
  <2>1. Reaching(T, S, to, x) = UNION {P(e) : e \in E}
    BY <1>1, <1>3 DEF Reaching
  <2>2. p \in Reaching(T, S, to, x) <=> \E e \in E : p \in P(e)
    BY <2>1
  <2>3. \A e : p \in P(e) <=> \E q \in to[<<StartNode(e), X \cup {v}>>] : p = Append(q, e)
    OBVIOUS
  <2> QED
    BY <1>3, <2>2, <2>3 DEF x, OneFurther
<1> QED
  BY <1>2, <1>3

\* The rounds after which the paths to v that avoid X are known.
Nodes2Go(v, X) == 2 * Cardinality(Nodes \ X) + (IF v \in X THEN 1 ELSE 0)

\* The bound falls with each arc.
LEMMA LessToGo ==
  ASSUME NEW v \in Nodes, NEW X \in SUBSET Nodes, NEW w \in Nodes, w \notin X \cup {v}
  PROVE  /\ Nodes2Go(v, X) \in Nat /\ Nodes2Go(w, X \cup {v}) \in Nat
         /\ Nodes2Go(w, X \cup {v}) < Nodes2Go(v, X)
<1>1. PICK Y \in SUBSET Nodes : Y = Nodes \ X
  OBVIOUS
<1>2. PICK Z \in SUBSET Nodes : Z = Nodes \ (X \cup {v})
  OBVIOUS
<1>3. IsFiniteSet(Y) /\ Cardinality(Y) \in Nat /\ Cardinality(Z) \in Nat
  BY NodeSetsAreFinite, FS_CardinalityType
<1>4. CASE v \in X
  <2>1. X \cup {v} = X /\ Z = Y
    BY <1>1, <1>2, <1>4
  <2>2. Nodes2Go(v, X) = 2 * Cardinality(Y) + 1
    BY <1>1, <1>4 DEF Nodes2Go
  <2>3. Nodes2Go(w, X \cup {v}) = 2 * Cardinality(Y)
    <3>1. w \notin X
      BY <2>1
    <3>2. Nodes2Go(w, X \cup {v}) = 2 * Cardinality(Z) + 0
      BY <1>2, <2>1, <3>1 DEF Nodes2Go
    <3> QED
      BY <1>3, <2>1, <3>2
  <2> QED
    BY <1>3, <2>2, <2>3
<1>5. CASE v \notin X
  <2>1. v \in Y /\ Z = Y \ {v}
    BY <1>1, <1>2, <1>5
  <2>2. Cardinality(Z) = Cardinality(Y) - 1
    BY <1>3, <2>1, FS_RemoveElement
  <2> QED
    BY <1>1, <1>2, <1>3, <1>5, <2>2 DEF Nodes2Go
<1> QED
  BY <1>4, <1>5

\* And it is bounded itself.
LEMMA ToGoIsBounded ==
  \A v \in Nodes : \A X \in SUBSET Nodes : Nodes2Go(v, X) \in Nat /\ Nodes2Go(v, X) < 2 * N + 2
<1> SUFFICES ASSUME NEW v \in Nodes, NEW X \in SUBSET Nodes
             PROVE  Nodes2Go(v, X) \in Nat /\ Nodes2Go(v, X) < 2 * N + 2
  OBVIOUS
<1>1. PICK Y \in SUBSET Nodes : Y = Nodes \ X
  OBVIOUS
<1>2. N \in Nat /\ Cardinality(Nodes) = N
  BY GraphType, FS_Interval DEF Nodes
<1>3. Cardinality(Y) \in Nat /\ Cardinality(Y) <= N
  BY <1>2, NodeSetsAreFinite, FS_CardinalityType, FS_Subset
<1> QED
  BY <1>1, <1>2, <1>3 DEF Nodes2Go

\* There is a solution of the equation.
LEMMA TrailsExist ==
  ASSUME NEW T, T \in SUBSET Darts, NEW S
  PROVE  \E to : AreTrails(T, S, to)
<1> DEFINE K == Nodes \X SUBSET Nodes
           D == [K -> SUBSET Seq(Darts)]
           F == [to \in D |-> [x \in K |-> Reaching(T, S, to, x)]]
           a == [x \in K |-> {}]
<1>1. ASSUME NEW to \in D, NEW v \in Nodes, NEW X \in SUBSET Nodes, NEW p \in Reaching(T, S, to, <<v, X>>)
      PROVE  p \in Seq(Darts)
  <2>1. CASE v \in S
    <3>1. p = <<>>
      <4> HIDE DEF D
      <4> QED
        BY <1>1, <2>1, ReachingPaths
    <3> QED
      BY <3>1
  <2>2. CASE v \notin S
    <3>1. PICK e \in T : \E q \in to[<<StartNode(e), X \cup {v}>>] : p = Append(q, e)
      <4> HIDE DEF D
      <4> QED
        BY <1>1, <2>2, ReachingPaths DEF OneFurther
    <3>2. e \in Darts /\ StartNode(e) \in Nodes
      BY DartEnds
    <3>3. <<StartNode(e), X \cup {v}>> \in K
      BY <3>2
    <3>4. to[<<StartNode(e), X \cup {v}>>] \in SUBSET Seq(Darts)
      BY <3>3
    <3> QED
      BY <3>1, <3>2, <3>4
  <2> QED
    BY <2>1, <2>2
<1>2. F \in [D -> D] /\ a \in D
  <2>1. ASSUME NEW to \in D, NEW x \in K PROVE Reaching(T, S, to, x) \in SUBSET Seq(Darts)
    <3>1. PICK v \in Nodes, X \in SUBSET Nodes : x = <<v, X>>
      OBVIOUS
    <3> HIDE DEF D
    <3> QED
      BY <1>1, <3>1
  <2> QED
    BY <2>1
<1>3. \A to \in D : F[to] = [x \in K |-> Reaching(T, S, to, x)]
  OBVIOUS
<1> HIDE DEF D, F, a
<1>4. PICK g : /\ g = [k \in Nat |-> IF k = 0 THEN a ELSE F[g[k - 1]]]
               /\ g \in [Nat -> D]
  <2>1. \E g : /\ g = [k \in Nat |-> IF k = 0 THEN a ELSE F[g[k - 1]]]
               /\ g \in [Nat -> D]
    BY ONLY <1>2, IterationExists
  <2> QED
    BY <2>1, Zenon
<1>5. ASSUME NEW k \in Nat, NEW v \in Nodes, NEW X \in SUBSET Nodes
      PROVE  g[k + 1][<<v, X>>] = Reaching(T, S, g[k], <<v, X>>)
  <2>1. k + 1 \in Nat /\ k + 1 # 0 /\ (k + 1) - 1 = k /\ g[k] \in D
    BY <1>4
  <2>2. g[k + 1] = F[g[k]]
    BY <1>4, <2>1
  <2>3. g[k + 1] = [x \in K |-> Reaching(T, S, g[k], x)]
    BY <1>3, <2>1, <2>2
  <2>4. <<v, X>> \in K
    OBVIOUS
  <2> QED
    BY <2>3, <2>4
<1> DEFINE B == {k \in Nat : \A v \in Nodes : \A X \in SUBSET Nodes :
                               Nodes2Go(v, X) < k => g[k + 1][<<v, X>>] = g[k][<<v, X>>]}
<1>6. 0 \in B
  BY ToGoIsBounded
<1>7. ASSUME NEW k \in B PROVE k + 1 \in B
  <2> SUFFICES ASSUME NEW v \in Nodes, NEW X \in SUBSET Nodes, Nodes2Go(v, X) < k + 1
               PROVE  g[(k + 1) + 1][<<v, X>>] = g[k + 1][<<v, X>>]
    OBVIOUS
  <2>1. k \in Nat /\ k + 1 \in Nat
    OBVIOUS
  <2>2. ASSUME NEW e \in T, StartNode(e) \notin X \cup {v}
        PROVE  g[k + 1][<<StartNode(e), X \cup {v}>>] = g[k][<<StartNode(e), X \cup {v}>>]
    <3>1. StartNode(e) \in Nodes /\ X \cup {v} \in SUBSET Nodes
      BY DartEnds
    <3>2. Nodes2Go(StartNode(e), X \cup {v}) < k
      <4>1. PICK w \in Nodes : w = StartNode(e)
        BY <3>1
      <4>2. /\ Nodes2Go(v, X) \in Nat /\ Nodes2Go(w, X \cup {v}) \in Nat
            /\ Nodes2Go(w, X \cup {v}) < Nodes2Go(v, X)
        BY <2>2, <4>1, LessToGo
      <4> QED
        BY <2>1, <4>1, <4>2
    <3> QED
      BY <3>1, <3>2
  <2>3. \A p : p \in Reaching(T, S, g[k + 1], <<v, X>>) <=> p \in Reaching(T, S, g[k], <<v, X>>)
    <3>1. PICK e : e = g[k + 1]
      OBVIOUS
    <3>2. PICK h : h = g[k]
      OBVIOUS
    <3>3. \A d \in T : StartNode(d) \notin X \cup {v} =>
                         e[<<StartNode(d), X \cup {v}>>] = h[<<StartNode(d), X \cup {v}>>]
      BY <2>2, <3>1, <3>2
    <3> HIDE DEF B
    <3>4. \A p : p \in Reaching(T, S, e, <<v, X>>) <=> p \in Reaching(T, S, h, <<v, X>>)
      <4> SUFFICES ASSUME NEW p
                   PROVE  p \in Reaching(T, S, e, <<v, X>>) <=> p \in Reaching(T, S, h, <<v, X>>)
        OBVIOUS
      <4>1. CASE v \in S
        BY <4>1, ReachingPaths
      <4>2. CASE v \notin S
        <5>1. OneFurther(T, e, v, X, p) <=> OneFurther(T, h, v, X, p)
          BY <3>3 DEF OneFurther
        <5> QED
          BY <4>2, <5>1, ReachingPaths
      <4> QED
        BY <4>1, <4>2
    <3> QED
      BY <3>1, <3>2, <3>4
  <2>4. Reaching(T, S, g[k + 1], <<v, X>>) = Reaching(T, S, g[k], <<v, X>>)
    BY <2>3
  <2> QED
    BY <1>5, <2>1, <2>4
<1>8. 2 * N + 2 \in Nat /\ (2 * N + 2) + 1 \in Nat /\ 2 * N + 2 \in B
  <2>1. B = Nat
    <3> HIDE DEF B
    <3>1. B \in SUBSET Nat
      BY DEF B
    <3> QED
      BY <1>6, <1>7, <3>1, AllNumbers
  <2>2. 2 * N + 2 \in Nat /\ (2 * N + 2) + 1 \in Nat
    BY GraphType
  <2> HIDE DEF B
  <2> QED
    BY <2>1, <2>2
<1>9. PICK m \in Nat : m = 2 * N + 2
  BY <1>8
<1>10. ASSUME NEW v \in Nodes, NEW X \in SUBSET Nodes
       PROVE  g[m][<<v, X>>] = Reaching(T, S, g[m], <<v, X>>)
  <2>1. g[m + 1][<<v, X>>] = g[m][<<v, X>>]
    BY <1>8, <1>9, ToGoIsBounded
  <2> QED
    BY <1>5, <2>1
<1>11. g[m] = [x \in K |-> g[m][x]]
  BY <1>4 DEF D
<1>12. \A x \in K : g[m][x] = Reaching(T, S, g[m], x)
  BY <1>10
<1>13. AreTrails(T, S, g[m])
  <2> QED
    BY <1>11, <1>12 DEF AreTrails
<1> QED
  BY <1>13

\* A path by arcs in T from a node in S to v, which avoids X and meets no node twice.
IsTrail(p, T, S, v, X) ==
  /\ p \in Seq(T)
  /\ IF p = <<>> THEN v \in S ELSE StartNode(p[1]) \in S /\ EndNode(p[Len(p)]) = v
  /\ \A i \in 1 .. Len(p) : /\ StartNode(p[i]) \notin X \cup {v}
                            /\ i # Len(p) => StartNode(p[i + 1]) = EndNode(p[i])
  /\ \A i, j \in 1 .. Len(p) : i # j => StartNode(p[i]) # StartNode(p[j])

\* No node of it is farther than the last one.
Below(p, d, v) ==
  \A i \in 1 .. Len(p) : d[StartNode(p[i])] <= d[v] /\ d[EndNode(p[i])] <= d[v]

\* No arc in T gets to a smaller distance.
Ascends(T, d) ==
  /\ T \in SUBSET Darts /\ d \in [Nodes -> Int]
  /\ \A e \in T : d[StartNode(e)] <= d[EndNode(e)]

\* One more arc at the end of a trail gives a trail.
LEMMA TrailExtended ==
  ASSUME NEW T, NEW S, NEW X, NEW v \in Nodes, NEW d, Ascends(T, d), NEW e \in T, EndNode(e) = v,
         NEW q, IsTrail(q, T, S, StartNode(e), X \cup {v}), Below(q, d, StartNode(e)),
         StartNode(e) \notin X \cup {v}
  PROVE  IsTrail(Append(q, e), T, S, v, X) /\ Below(Append(q, e), d, v)
<1> DEFINE p == Append(q, e)
<1>1. /\ q \in Seq(T) /\ p \in Seq(T) /\ Len(p) = Len(q) + 1 /\ Len(q) \in Nat
      /\ p # <<>> /\ p[Len(q) + 1] = e /\ \A i \in 1 .. Len(q) : p[i] = q[i]
  <2>1. q \in Seq(T)
    BY DEF IsTrail
  <2> QED
    BY <2>1
<1> HIDE DEF p
<1>2. PICK n \in Nat : n = Len(q)
  BY <1>1
<1>3. q = <<>> <=> n = 0
  BY <1>1, <1>2
<1>4. StartNode(p[1]) \in S
  <2>1. CASE q = <<>>
    BY <1>1, <1>2, <1>3, <2>1 DEF IsTrail
  <2>2. CASE q # <<>>
    <3>1. p[1] = q[1]
      BY <1>1, <1>2, <1>3, <2>2
    <3> QED
      BY <2>2, <3>1 DEF IsTrail
  <2> QED
    BY <2>1, <2>2
<1>5. ASSUME NEW i \in 1 .. n + 1
      PROVE  /\ StartNode(p[i]) \notin X \cup {v}
             /\ i # n + 1 => StartNode(p[i + 1]) = EndNode(p[i])
  <2>1. CASE i = n + 1
    BY <1>1, <1>2, <2>1
  <2>2. CASE i \in 1 .. n
    <3>1. p[i] = q[i] /\ StartNode(q[i]) \notin X \cup {v}
      BY <1>1, <1>2, <2>2 DEF IsTrail
    <3>2. CASE i = n
      <4>1. p[i + 1] = e /\ q # <<>>
        BY <1>1, <1>2, <1>3, <2>2, <3>2
      <4>2. EndNode(q[n]) = StartNode(e)
        BY <1>2, <4>1 DEF IsTrail
      <4> QED
        BY <3>1, <3>2, <4>1, <4>2
    <3>3. CASE i # n
      <4>1. p[i + 1] = q[i + 1]
        BY <1>1, <1>2, <2>2, <3>3
      <4>2. StartNode(q[i + 1]) = EndNode(q[i])
        BY <1>2, <2>2, <3>3 DEF IsTrail
      <4> QED
        BY <3>1, <4>1, <4>2
    <3> QED
      BY <3>2, <3>3
  <2> QED
    BY <2>1, <2>2
<1>6. ASSUME NEW i \in 1 .. n PROVE StartNode(p[i]) # StartNode(p[n + 1])
  <2>1. p[i] = q[i] /\ p[n + 1] = e
    BY <1>1, <1>2
  <2>2. StartNode(q[i]) # StartNode(e)
    BY <1>2 DEF IsTrail
  <2> QED
    BY <2>1, <2>2
<1>7. ASSUME NEW i \in 1 .. n, NEW j \in 1 .. n, i # j PROVE StartNode(p[i]) # StartNode(p[j])
  BY <1>1, <1>2, <1>7 DEF IsTrail
<1>8. ASSUME NEW i \in 1 .. n + 1, NEW j \in 1 .. n + 1, i # j PROVE StartNode(p[i]) # StartNode(p[j])
  <2>1. CASE i \in 1 .. n /\ j \in 1 .. n
    BY <1>7, <1>8, <2>1
  <2>2. CASE i = n + 1 /\ j \in 1 .. n
    BY <1>6, <2>2
  <2>3. CASE j = n + 1 /\ i \in 1 .. n
    BY <1>6, <2>3
  <2> QED
    BY <1>8, <2>1, <2>2, <2>3
<1>9. IsTrail(p, T, S, v, X)
  <2>1. Len(p) = n + 1 /\ EndNode(p[n + 1]) = v
    BY <1>1, <1>2
  <2> QED
    BY <1>1, <1>4, <1>5, <1>8, <2>1 DEF IsTrail
<1>10. ASSUME NEW i \in 1 .. n + 1 PROVE d[StartNode(p[i])] <= d[v] /\ d[EndNode(p[i])] <= d[v]
  <2>1. d[StartNode(e)] <= d[v] /\ d[StartNode(e)] \in Int /\ d[v] \in Int
    BY DartEnds DEF Ascends
  <2>2. CASE i = n + 1
    BY <1>1, <1>2, <2>1, <2>2
  <2>3. CASE i \in 1 .. n
    <3>1. p[i] = q[i] /\ q[i] \in T
      BY <1>1, <1>2, <2>3
    <3>2. d[StartNode(q[i])] <= d[StartNode(e)] /\ d[EndNode(q[i])] <= d[StartNode(e)]
      BY <1>2, <2>3 DEF Below
    <3>3. d[StartNode(q[i])] \in Int /\ d[EndNode(q[i])] \in Int
      BY <3>1, DartEnds DEF Ascends
    <3> QED
      BY <2>1, <3>1, <3>2, <3>3
  <2> QED
    BY <2>2, <2>3
<1>11. Below(p, d, v)
  BY <1>1, <1>2, <1>10 DEF Below
<1> QED
  BY <1>9, <1>11 DEF p

\* All solutions consist of trails.
LEMMA TrailsAreSound ==
  ASSUME NEW T, NEW S, NEW to, AreTrails(T, S, to), NEW d, Ascends(T, d)
  PROVE  \A v \in Nodes : \A X \in SUBSET Nodes : \A p \in to[<<v, X>>] :
           IsTrail(p, T, S, v, X) /\ Below(p, d, v)
<1> DEFINE B == {k \in Nat : \A v \in Nodes : \A X \in SUBSET Nodes : Nodes2Go(v, X) < k =>
                               \A p \in to[<<v, X>>] : IsTrail(p, T, S, v, X) /\ Below(p, d, v)}
<1>1. 0 \in B
  BY ToGoIsBounded
<1>2. ASSUME NEW k \in B PROVE k + 1 \in B
  <2> SUFFICES ASSUME NEW v \in Nodes, NEW X \in SUBSET Nodes, Nodes2Go(v, X) < k + 1,
                      NEW p \in to[<<v, X>>]
               PROVE  IsTrail(p, T, S, v, X) /\ Below(p, d, v)
    OBVIOUS
  <2>1. p \in Reaching(T, S, to, <<v, X>>)
    BY DEF AreTrails
  <2>2. CASE v \in S
    <3>1. p = <<>>
      BY <2>1, <2>2, ReachingPaths
    <3> QED
      BY <2>2, <3>1 DEF IsTrail, Below
  <2>3. CASE v \notin S
    <3>1. OneFurther(T, to, v, X, p)
      BY <2>1, <2>3, ReachingPaths
    <3>2. PICK e \in T, q \in UNION {to[<<StartNode(f), X \cup {v}>>] : f \in T} :
            /\ EndNode(e) = v /\ StartNode(e) \notin X \cup {v}
            /\ q \in to[<<StartNode(e), X \cup {v}>>] /\ p = Append(q, e)
      BY <3>1 DEF OneFurther
    <3>3. PICK c \in Nodes : c = StartNode(e)
      BY DartEnds DEF Ascends
    <3>4. Nodes2Go(c, X \cup {v}) < k
      <4>1. /\ Nodes2Go(v, X) \in Nat /\ Nodes2Go(c, X \cup {v}) \in Nat
            /\ Nodes2Go(c, X \cup {v}) < Nodes2Go(v, X)
        BY <3>2, <3>3, LessToGo
      <4> QED
        BY <4>1
    <3>5. X \cup {v} \in SUBSET Nodes /\ q \in to[<<c, X \cup {v}>>]
      BY <3>2, <3>3
    <3>6. IsTrail(q, T, S, c, X \cup {v}) /\ Below(q, d, c)
      BY <3>4, <3>5
    <3> HIDE DEF B
    <3> QED
      BY <3>2, <3>3, <3>6, TrailExtended
  <2> QED
    BY <2>2, <2>3
<1>3. B = Nat
  <2> HIDE DEF B
  <2>1. B \in SUBSET Nat
    BY DEF B
  <2> QED
    BY <1>1, <1>2, <2>1, AllNumbers
<1>4. 2 * N + 2 \in Nat
  BY GraphType
<1>5. 2 * N + 2 \in B
  <2> HIDE DEF B
  <2> QED
    BY <1>3, <1>4
<1> QED
  BY <1>5, ToGoIsBounded

\* The paths of a search by arcs that have no negative length.
LEMMA ShortestAreTrails ==
  ASSUME NEW w \in Nodes, NEW l, NEW A, A \in SUBSET Darts, \A e \in A : l[e] \in Int /\ l[e] >= 0,
         NEW d \in [Nodes -> Int], NEW S, NEW p \in ShortestTo(w, d, l, A, S)
  PROVE  IsTrail(p, Tight(d, l, A), S, w, {}) /\ Below(p, d, w)
<1>1. PICK T : T = Tight(d, l, A)
  OBVIOUS
<1>2. Ascends(T, d)
  <2>1. \A e \in A : d[StartNode(e)] \in Int /\ d[EndNode(e)] \in Int
    BY DartEnds
  <2> QED
    BY <1>1, <2>1 DEF Ascends, Tight
<1>3. PICK to : to = CHOOSE g : AreTrails(T, S, g)
  OBVIOUS
<1>4. AreTrails(T, S, to)
  <2>1. \E g : AreTrails(T, S, g)
    BY <1>2, TrailsExist DEF Ascends
  <2> QED
    BY <1>3, <2>1, Zenon
<1>5. p \in to[<<w, {}>>]
  BY <1>1, <1>3, ShortestIsRecursive
<1> QED
  BY <1>1, <1>2, <1>4, <1>5, TrailsAreSound

\* No arc is met twice on such a path.
LEMMA TrailArcsDiffer ==
  ASSUME NEW T, T \in SUBSET Darts, NEW S, NEW v, NEW X, NEW p, IsTrail(p, T, S, v, X)
  PROVE  ArcsDiffer(p)
<1>1. p \in Seq(T) /\ Len(p) \in Nat /\ \A i \in 1 .. Len(p) : p[i] \in T
  BY DEF IsTrail
<1>2. p \in Seq(Darts)
  <2>1. p = [i \in 1 .. Len(p) |-> p[i]]
    BY <1>1
  <2>2. \A i \in 1 .. Len(p) : p[i] \in Darts
    BY <1>1
  <2> QED
    BY <1>1, <2>1, <2>2
<1>3. ASSUME NEW i \in 1 .. Len(p), NEW j \in 1 .. Len(p), i < j, p[i][1] = p[j][1]
      PROVE  FALSE
  <2>1. i \in Int /\ j \in Int /\ i # j
    BY <1>1, <1>3
  <2>2. StartNode(p[i]) # StartNode(p[j])
    BY <2>1 DEF IsTrail
  <2>3. p[i] \in Darts /\ p[j] \in Darts
    BY <1>1
  <2>4. p[i] = p[j] \/ StartNode(p[i]) = EndNode(p[j])
    <3>1. PICK a \in Arcs, c \in {0, 1} : p[i] = <<a, c>>
      BY <2>3 DEF Darts
    <3>2. PICK b \in Arcs, z \in {0, 1} : p[j] = <<b, z>>
      BY <2>3 DEF Darts
    <3>3. a = b
      BY <1>3, <3>1, <3>2
    <3>4. c = z \/ z = 1 - c
      BY <3>1, <3>2
    <3> QED
      BY <3>1, <3>2, <3>3, <3>4 DEF StartNode, EndNode, Opposite
  <2>5. StartNode(p[i]) # EndNode(p[j])
    <3>1. CASE j = Len(p)
      <4>1. EndNode(p[j]) = v /\ StartNode(p[i]) # v
        <5>1. p # <<>>
          BY <1>1
        <5> QED
          BY <3>1, <5>1 DEF IsTrail
      <4> QED
        BY <4>1
    <3>2. CASE j # Len(p)
      <4>1. EndNode(p[j]) = StartNode(p[j + 1])
        BY <3>2 DEF IsTrail
      <4>2. j + 1 \in 1 .. Len(p) /\ i # j + 1
        BY <1>1, <1>3, <2>1, <3>2
      <4>3. StartNode(p[i]) # StartNode(p[j + 1])
        BY <4>2 DEF IsTrail
      <4> QED
        BY <4>1, <4>3
    <3> QED
      BY <3>1, <3>2
  <2> QED
    BY <2>2, <2>4, <2>5
<1>4. ASSUME NEW i \in 1 .. Len(p), NEW j \in 1 .. Len(p), i # j PROVE p[i][1] # p[j][1]
  <2>1. i < j \/ j < i
    BY <1>1, <1>4
  <2> QED
    BY <1>3, <2>1
<1> QED
  BY <1>2, <1>4 DEF ArcsDiffer

\* A trail is such a walk.
LEMMA TrailIsWalk ==
  ASSUME NEW T, T \in SUBSET Darts, NEW r, NEW v, NEW X, NEW p, IsTrail(p, T, {r}, v, X)
  PROVE  IsWalk(p, r, v)
<1>1. ArcsDiffer(p)
  BY TrailArcsDiffer
<1>2. /\ p \in Seq(T)
      /\ IF p = <<>> THEN v \in {r} ELSE StartNode(p[1]) \in {r} /\ EndNode(p[Len(p)]) = v
      /\ \A i \in 1 .. Len(p) : i # Len(p) => StartNode(p[i + 1]) = EndNode(p[i])
  BY DEF IsTrail
<1>3. ASSUME NEW i \in 1 .. Len(p)
      PROVE  StartNode(p[i]) = IF i = 1 THEN r ELSE EndNode(p[i - 1])
  <2>1. CASE i = 1
    <3>1. p # <<>>
      BY <1>2, <2>1
    <3> QED
      BY <1>2, <2>1, <3>1
  <2>2. CASE i # 1
    <3>1. PICK j \in 1 .. Len(p) : j = i - 1
      BY <1>2, <2>2
    <3>2. Len(p) \in Nat /\ j # Len(p) /\ j + 1 = i
      BY <1>2, <3>1
    <3> QED
      BY <1>2, <2>2, <3>1, <3>2
  <2> QED
    BY <2>1, <2>2
<1> QED
  BY <1>1, <1>2, <1>3 DEF IsWalk

-----------------------------------------------------------------------------
(* Flow is sent along such a path. *)

\* The network, a flow within its capacities, and its divergences.
NetInv ==
  /\ ucap \in [Arcs -> Int] /\ lcap \in [Arcs -> Int] /\ flow \in [Arcs -> Int]
  /\ Legal /\ div = Divergence(flow)

\* No residual capacity is negative.
LEMMA NetResidual ==
  ASSUME NetInv
  PROVE  \A d \in Darts : ResCap(d) \in Int /\ ResCap(d) >= 0
<1>1. NeverNegative
  BY LegalIsResidual DEF NetInv
<1> QED
  BY <1>1, ResCapInt DEF NetInv, NeverNegative

\* Divergences are integers.
LEMMA DivergenceType == \A f \in [Arcs -> Int] : Divergence(f) \in [Nodes -> Int]
<1> TAKE f \in [Arcs -> Int]
<1>1. \A S \in SUBSET Arcs : Sum(f, S) \in Int
  BY ArcSetsAreFinite, SumIsInteger
<1> QED
  BY <1>1 DEF Divergence

\* What can be pushed after that could be pushed before, or back along the path.
LEMMA ResidualAfter ==
  ASSUME NetInv, NEW p, ArcsDiffer(p), NEW x \in Nat, NEW g, g = AlongPath(p, x, 1 .. Len(p)),
         NEW d \in Darts
  PROVE  Capacity(g, d) <= ResCap(d) \/ \E i \in 1 .. Len(p) : d = Opposite(p[i])
<1>1. PICK a \in Arcs, c \in {0, 1} : d = <<a, c>>
  BY DEF Darts
<1>2. g[a] = IF \E i \in 1 .. Len(p) : p[i] = <<a, 0>> THEN flow[a] + x
             ELSE IF \E i \in 1 .. Len(p) : p[i] = <<a, 1>> THEN flow[a] - x ELSE flow[a]
  BY DEF AlongPath
<1>3. ucap[a] \in Int /\ lcap[a] \in Int /\ flow[a] \in Int
  BY DEF NetInv
<1>4. ASSUME NEW i \in 1 .. Len(p), p[i] = <<a, 1 - c>> PROVE d = Opposite(p[i])
  BY <1>1, <1>4 DEF Opposite
<1>5. CASE c = 0
  <2>1. CASE \E i \in 1 .. Len(p) : p[i] = <<a, 1>>
    BY <1>4, <1>5, <2>1
  <2>2. CASE ~ \E i \in 1 .. Len(p) : p[i] = <<a, 1>>
    <3>1. flow[a] <= g[a] /\ g[a] \in Int
      BY <1>2, <1>3, <2>2
    <3>2. Capacity(g, d) = ucap[a] - g[a] /\ ResCap(d) = ucap[a] - flow[a]
      BY <1>1, <1>5 DEF Capacity, ResCap
    <3> QED
      BY <1>3, <3>1, <3>2
  <2> QED
    BY <2>1, <2>2
<1>6. CASE c = 1
  <2>1. CASE \E i \in 1 .. Len(p) : p[i] = <<a, 0>>
    BY <1>4, <1>6, <2>1
  <2>2. CASE ~ \E i \in 1 .. Len(p) : p[i] = <<a, 0>>
    <3>1. g[a] <= flow[a] /\ g[a] \in Int
      BY <1>2, <1>3, <2>2
    <3>2. Capacity(g, d) = g[a] - lcap[a] /\ ResCap(d) = flow[a] - lcap[a]
      BY <1>1, <1>6 DEF Capacity, ResCap
    <3> QED
      BY <1>3, <3>1, <3>2
  <2> QED
    BY <2>1, <2>2
<1> QED
  BY <1>5, <1>6

\* Pushing what a path can carry keeps the flow legal.
LEMMA PushOnKeepsNet ==
  ASSUME NetInv, NEW p, ArcsDiffer(p), NEW x \in Nat, \A i \in 1 .. Len(p) : x <= ResCap(p[i]),
         PushOn(p, x), UNCHANGED <<ucap, lcap>>
  PROVE  /\ NetInv'
         /\ flow' = AlongPath(p, x, 1 .. Len(p))
         /\ \A y \in Nat : \A d \in Residual(y)' :
              d \in Residual(y) \/ \E i \in 1 .. Len(p) : d = Opposite(p[i])
<1>1. PICK g : g = AlongPath(p, x, 1 .. Len(p))
  OBVIOUS
<1>2. g \in [Arcs -> Int]
  BY <1>1 DEF AlongPath, NetInv
<1>3. flow' = g
  <2>1. Len(p) \in Nat /\ flow \in [Arcs -> Int] /\ x \in Int
    BY DEF ArcsDiffer, NetInv
  <2> QED
    BY <1>1, <2>1, AugmentedFlow DEF PushOn
<1>4. Legal'
  <2>1. \A a \in Arcs : lcap[a] <= g[a] /\ g[a] <= ucap[a]
    BY <1>1, AlongPathLegal DEF NetInv
  <2> QED
    BY <1>3, <2>1 DEF Legal
<1>5. div' = Divergence(flow)'
  BY <1>3 DEF PushOn
<1>6. NetInv'
  BY <1>2, <1>3, <1>4, <1>5 DEF NetInv
<1>7. ASSUME NEW y \in Nat, NEW d \in Residual(y)'
      PROVE  d \in Residual(y) \/ \E i \in 1 .. Len(p) : d = Opposite(p[i])
  <2>1. d \in Darts /\ ResCap(d)' > y
    BY <1>7 DEF Residual
  <2>2. ResCap(d)' = Capacity(g, d)
    BY <1>3 DEF ResCap, Capacity
  <2>3. Capacity(g, d) \in Int /\ ResCap(d) \in Int
    BY <1>2, <2>1, NetResidual DEF Capacity, NetInv, Darts
  <2>4. Capacity(g, d) <= ResCap(d) \/ \E i \in 1 .. Len(p) : d = Opposite(p[i])
    BY <1>1, <2>1, ResidualAfter
  <2>5. CASE Capacity(g, d) <= ResCap(d)
    BY <2>1, <2>2, <2>3, <2>5 DEF Residual
  <2> QED
    BY <2>4, <2>5
<1> QED
  BY <1>1, <1>3, <1>6, <1>7

\* Potentials that prove the flow to be cheapest, as to arcs with more than y units left.
Cheap(y) == \A d \in Residual(y) : RedLength(pi, d) >= 0

\* The reduced length of an arc against a path is the opposite.
LEMMA RedLengthType ==
  ASSUME len \in [Arcs -> Int], NEW p \in [Nodes -> Int], NEW d \in Darts
  PROVE  RedLength(p, d) \in Int /\ RedLength(p, Opposite(d)) = -RedLength(p, d)
<1>1. PICK a \in Arcs, c \in {0, 1} : d = <<a, c>>
  BY DEF Darts
<1>2. /\ StartNode(d) \in Nodes /\ EndNode(d) \in Nodes
      /\ StartNode(Opposite(d)) = EndNode(d) /\ EndNode(Opposite(d)) = StartNode(d)
  BY DartEnds
<1>3. Opposite(d) = <<a, 1 - c>> /\ 1 - c \in {0, 1} /\ (c = 0 <=> 1 - c # 0)
  BY <1>1 DEF Opposite
<1>4. RedLength(p, d) = (IF c = 0 THEN len[a] ELSE -len[a]) + p[StartNode(d)] - p[EndNode(d)]
  BY <1>1 DEF RedLength
<1>5. RedLength(p, Opposite(d)) = (IF c = 0 THEN -len[a] ELSE len[a]) + p[EndNode(d)] - p[StartNode(d)]
  BY <1>2, <1>3 DEF RedLength
<1> QED
  BY <1>2, <1>4, <1>5

\* UpdatePotentials(): reduced lengths that are not negative do not get negative, and those of
\* a cheapest path become zero.
KeptBy(p, q, A, d, x) ==
  \A e \in A :
    /\ RedLength(p, e) >= 0 => RedLength(q, e) >= 0
    /\ e \in Tight(d, Reduced(p), A) /\ d[StartNode(e)] <= x /\ d[EndNode(e)] <= x
         => RedLength(q, e) = 0

\* The update of the potentials by the distances does so (UpdatePotentials()).
LEMMA UpdateKeeps ==
  ASSUME len \in [Arcs -> Int], NEW p \in [Nodes -> Int], NEW A, A \in SUBSET Darts, NEW S, NEW d,
         AreDistances(Reduced(p), A, S, d), NEW x \in Int, 0 <= x, x <= InfFloat
  PROVE  KeptBy(p, Updated(p, d, x), A, d, x)
<1> SUFFICES ASSUME NEW e \in A
             PROVE  /\ RedLength(p, e) >= 0 => RedLength(Updated(p, d, x), e) >= 0
                    /\ e \in Tight(d, Reduced(p), A) /\ d[StartNode(e)] <= x /\ d[EndNode(e)] <= x
                         => RedLength(Updated(p, d, x), e) = 0
  BY DEF KeptBy
<1>1. PICK v \in Nodes : v = StartNode(e)
  BY DartEnds
<1>2. PICK w \in Nodes : w = EndNode(e)
  BY DartEnds
<1>3. PICK q : q = Updated(p, d, x)
  OBVIOUS
<1>4. PICK y : y = IF e[2] = 0 THEN len[e[1]] ELSE -len[e[1]]
  OBVIOUS
<1>5. /\ RedLength(p, e) = y + p[v] - p[w] /\ RedLength(q, e) = y + q[v] - q[w]
      /\ Reduced(p)[e] = y + p[v] - p[w]
  BY <1>1, <1>2, <1>4 DEF RedLength, Reduced
<1>6. y \in Int
  BY <1>4 DEF Darts
<1>7. q[v] = p[v] + Least(d[v], x) /\ q[w] = p[w] + Least(d[w], x)
  BY <1>3 DEF Updated
<1>8. /\ d[v] \in Int /\ d[w] \in Int /\ d[v] <= InfFloat /\ d[w] <= InfFloat /\ InfFloat \in Int
      /\ d[v] # InfFloat => d[w] <= d[v] + (y + p[v] - p[w])
  BY <1>1, <1>2, <1>5, InfFloatType DEF AreDistances
<1>9. RedLength(p, e) >= 0 => RedLength(q, e) >= 0
  BY <1>5, <1>6, <1>7, <1>8 DEF Least
<1>10. ASSUME e \in Tight(d, Reduced(p), A), d[v] <= x, d[w] <= x PROVE RedLength(q, e) = 0
  <2>1. d[w] = d[v] + (y + p[v] - p[w])
    BY <1>1, <1>2, <1>5, <1>10 DEF Tight
  <2>2. Least(d[v], x) = d[v] /\ Least(d[w], x) = d[w]
    BY <1>8, <1>10 DEF Least
  <2> QED
    BY <1>5, <1>6, <1>7, <1>8, <2>1, <2>2
<1> QED
  BY <1>1, <1>2, <1>3, <1>9, <1>10

\* The lengths, the demands and the potentials.
CostTyped == len \in [Arcs -> Int] /\ dem \in [Nodes -> Int] /\ pi \in [Nodes -> Int]

\* A search by arcs of no negative reduced length.
LEMMA CheapSearch ==
  ASSUME CostTyped, NEW y \in Nat, Cheap(y), NEW S
  PROVE  /\ Residual(y) \in SUBSET Darts
         /\ \A e \in Residual(y) : Reduced(pi)[e] \in Int /\ Reduced(pi)[e] >= 0
         /\ AreDistances(Reduced(pi), Residual(y), S, Distances(Reduced(pi), Residual(y), S))
<1>1. Residual(y) \in SUBSET Darts
  BY DEF Residual
<1>2. \A e \in Residual(y) : Reduced(pi)[e] \in Int /\ Reduced(pi)[e] >= 0
  BY <1>1, RedLengthType DEF Reduced, Cheap, CostTyped
<1>3. PICK l : l = Reduced(pi)
  OBVIOUS
<1>4. PICK A : A = Residual(y)
  OBVIOUS
<1>5. AreDistances(l, A, S, Distances(l, A, S))
  BY <1>1, <1>2, <1>3, <1>4, DistancesAreExact
<1> QED
  BY <1>1, <1>2, <1>3, <1>4, <1>5

\* A part of a path that the search has found.
IsPart(p, q) == ArcsDiffer(p) /\ \A i \in 1 .. Len(p) : \E j \in 1 .. Len(q) : p[i] = q[j]

\* Potentials updated and flow pushed along a cheapest path: slackness is kept.
LEMMA AugmentKeepsCheap ==
  ASSUME NetInv, CostTyped, NEW y \in Nat, Cheap(y), NEW S,
         NEW d, d = Distances(Reduced(pi), Residual(y), S), NEW w \in Nodes,
         NEW q \in ShortestTo(w, d, Reduced(pi), Residual(y), S), NEW p, IsPart(p, q),
         NEW x \in Nat, \A i \in 1 .. Len(p) : x <= ResCap(p[i]),
         PushOn(p, x), pi' = Updated(pi, d, d[w]), UNCHANGED <<ucap, lcap, task>>
  PROVE  NetInv' /\ CostTyped' /\ Cheap(y)'
<1>1. PICK l : l = Reduced(pi)
  OBVIOUS
<1>2. PICK A : A = Residual(y)
  OBVIOUS
<1>3. /\ A \in SUBSET Darts /\ \A e \in A : l[e] \in Int /\ l[e] >= 0 /\ l[e] = RedLength(pi, e)
      /\ AreDistances(l, A, S, d)
  <2>1. /\ A \in SUBSET Darts /\ \A e \in A : l[e] \in Int /\ l[e] >= 0
        /\ AreDistances(l, A, S, d)
    BY <1>1, <1>2, CheapSearch
  <2> QED
    BY <1>1, <2>1 DEF Reduced
<1>4. d \in [Nodes -> Int] /\ 0 <= d[w] /\ d[w] <= InfFloat /\ d[w] \in Int
  BY <1>3 DEF AreDistances
<1>5. IsTrail(q, Tight(d, l, A), S, w, {}) /\ Below(q, d, w)
  <2>1. q \in ShortestTo(w, d, l, A, S)
    BY <1>1, <1>2
  <2> QED
    BY <1>3, <1>4, <2>1, ShortestAreTrails
<1>6. PICK z \in [Nodes -> Int] : z = Updated(pi, d, d[w])
  <2>1. \A v \in Nodes : pi[v] \in Int /\ Least(d[v], d[w]) \in Int
    BY <1>4 DEF Least, CostTyped
  <2>2. Updated(pi, d, d[w]) \in [Nodes -> Int]
    BY <2>1 DEF Updated
  <2> QED
    BY <2>2
<1>7. CostTyped' /\ pi' = z /\ len' = len
  BY <1>6 DEF CostTyped, len, dem
<1>8. /\ NetInv'
      /\ \A e \in Residual(y)' : e \in Residual(y) \/ \E i \in 1 .. Len(p) : e = Opposite(p[i])
  BY PushOnKeepsNet DEF IsPart
<1>9. PICK r \in [Nodes -> Int] : r = pi
  BY DEF CostTyped
<1>10. len \in [Arcs -> Int]
  BY DEF CostTyped
<1>15. \A e \in A : /\ RedLength(r, e) >= 0 => RedLength(z, e) >= 0
                    /\ e \in Tight(d, Reduced(r), A) /\ d[StartNode(e)] <= d[w] /\ d[EndNode(e)] <= d[w]
                         => RedLength(z, e) = 0
  <2>1. PICK c \in Int : c = d[w] /\ 0 <= c /\ c <= InfFloat
    BY <1>4
  <2>2. AreDistances(Reduced(r), A, S, d) /\ z = Updated(r, d, c)
    BY <1>1, <1>3, <1>6, <1>9, <2>1
  <2>3. KeptBy(r, Updated(r, d, c), A, d, c)
    BY <1>3, <1>10, <2>1, <2>2, UpdateKeeps
  <2> QED
    BY <2>1, <2>2, <2>3 DEF KeptBy
<1>11. ASSUME NEW e \in A PROVE RedLength(z, e) >= 0
  <2>1. RedLength(r, e) >= 0
    BY <1>3, <1>9
  <2> QED
    BY <1>15, <2>1
<1>12. ASSUME NEW i \in 1 .. Len(p) PROVE RedLength(z, Opposite(p[i])) >= 0
  <2>1. PICK j \in 1 .. Len(q) : p[i] = q[j]
    BY DEF IsPart
  <2>2. PICK e \in A : e = q[j] /\ e \in Tight(d, l, A) /\ d[StartNode(e)] <= d[w] /\ d[EndNode(e)] <= d[w]
    <3>1. q[j] \in Tight(d, l, A)
      BY <1>5 DEF IsTrail
    <3>2. d[StartNode(q[j])] <= d[w] /\ d[EndNode(q[j])] <= d[w]
      BY <1>5 DEF Below
    <3>3. q[j] \in A
      BY <3>1 DEF Tight
    <3> QED
      BY <3>1, <3>2, <3>3
  <2>3. AreDistances(Reduced(r), A, S, d) /\ e \in Tight(d, Reduced(r), A)
    BY <1>1, <1>3, <1>9, <2>2
  <2>4. RedLength(z, e) = 0
    BY <1>15, <2>2, <2>3
  <2>5. RedLength(z, Opposite(e)) = -RedLength(z, e)
    BY <1>3, <1>10, RedLengthType
  <2> QED
    BY <2>1, <2>2, <2>4, <2>5
<1>13. \A e \in Residual(y)' : RedLength(z, e) >= 0
  BY <1>2, <1>8, <1>11, <1>12
<1>14. \A e \in Residual(y)' : RedLength(pi, e)' >= 0
  <2>1. \A e : RedLength(pi, e)' = RedLength(z, e)
    BY <1>7 DEF RedLength
  <2> QED
    BY <1>13, <2>1
<1> QED
  BY <1>7, <1>8, <1>14 DEF Cheap

\* The least of three numbers.
LEMMA MinOfThree ==
  \A a, b, c \in Int : /\ Min({a, b, c}) \in {a, b, c}
                       /\ Min({a, b, c}) <= a /\ Min({a, b, c}) <= b /\ Min({a, b, c}) <= c
<1> SUFFICES ASSUME NEW a \in Int, NEW b \in Int, NEW c \in Int
    PROVE  /\ Min({a, b, c}) \in {a, b, c}
           /\ Min({a, b, c}) <= a /\ Min({a, b, c}) <= b /\ Min({a, b, c}) <= c
  OBVIOUS
<1> DEFINE T == {a, b, c}
<1>1. \E x \in T : \A y \in T : x <= y
  <2>1. a <= b \/ b <= a
    OBVIOUS
  <2>2. a <= c \/ c <= a
    OBVIOUS
  <2>3. b <= c \/ c <= b
    OBVIOUS
  <2>4. (a <= b /\ a <= c) \/ (b <= a /\ b <= c) \/ (c <= a /\ c <= b)
    BY <2>1, <2>2, <2>3
  <2> QED
    BY <2>4
<1>2. a \in T /\ b \in T /\ c \in T
  OBVIOUS
<1>3. T = {a, b, c}
  OBVIOUS
<1> HIDE DEF T
<1>4. Min(T) \in T /\ \A y \in T : Min(T) <= y
  BY <1>1 DEF Min
<1> QED
  BY <1>2, <1>3, <1>4

-----------------------------------------------------------------------------
(* Edmonds and Karp's method, and capacity scaling. *)

\* The potentials of the call prove its flow to be cheapest.
StartsCheap ==
  \A a \in Arcs : LET x == task.len[a] + task.pi[From[a]] - task.pi[To[a]]
                  IN  /\ task.flow[a] < task.ucap[a] => x >= 0
                      /\ task.lcap[a] < task.flow[a] => x <= 0

\* The methods that are proved to keep it.
CheapMethod == (task.method = "EDMONDS_KARP" /\ StartsCheap) \/ task.method \in Scaled

\* The bounds of the network are those of the call.
IsTask == task \in Tasks /\ ucap = task.ucap /\ lcap = task.lcap

\* Potentials of the call that prove its flow to be cheapest.
LEMMA StartIsCheap ==
  ASSUME NetInv, CostTyped, IsTask, flow = task.flow, pi = task.pi, StartsCheap
  PROVE  Cheap(0)
<1> SUFFICES ASSUME NEW d \in Residual(0) PROVE RedLength(pi, d) >= 0
  BY DEF Cheap
<1>1. d \in Darts /\ ResCap(d) > 0
  BY DEF Residual
<1>2. PICK a \in Arcs, c \in {0, 1} : d = <<a, c>>
  BY <1>1 DEF Darts
<1>3. ucap[a] \in Int /\ lcap[a] \in Int /\ flow[a] \in Int
  BY DEF NetInv
<1>4. PICK x : x = len[a] + pi[From[a]] - pi[To[a]]
  OBVIOUS
<1>5. (flow[a] < ucap[a] => x >= 0) /\ (lcap[a] < flow[a] => x <= 0)
  BY <1>4 DEF StartsCheap, len, IsTask
<1>6. From[a] \in Nodes /\ To[a] \in Nodes /\ len[a] \in Int
  BY GraphType DEF CostTyped
<1>7. pi[From[a]] \in Int /\ pi[To[a]] \in Int /\ x \in Int
  BY <1>4, <1>6 DEF CostTyped
<1>8. CASE c = 0
  <2>1. RedLength(pi, d) = x /\ ResCap(d) = ucap[a] - flow[a]
    BY <1>2, <1>4, <1>8 DEF RedLength, StartNode, EndNode, Opposite, ResCap, Capacity
  <2> QED
    BY <1>1, <1>3, <1>5, <2>1
<1>9. CASE c = 1
  <2>1. RedLength(pi, d) = -len[a] + pi[To[a]] - pi[From[a]] /\ ResCap(d) = flow[a] - lcap[a]
    BY <1>2, <1>9 DEF RedLength, StartNode, EndNode, Opposite, ResCap, Capacity
  <2> QED
    BY <1>1, <1>3, <1>4, <1>5, <1>6, <1>7, <2>1
<1> QED
  BY <1>8, <1>9

\* The inductive invariant of these methods.
CheapInv ==
  /\ "method" \in DOMAIN task
  /\ CheapMethod =>
       /\ running /\ pc = "off" /\ NetInv /\ CostTyped /\ limit \in Nat
       /\ stage \in {"start", "saturate", "path", "balance", "verify", "done", "rejected"}
       /\ task.method = "EDMONDS_KARP" =>
            /\ limit = 0 /\ rest \in Int /\ stage \notin {"saturate", "balance"}
            /\ stage \in {"start", "path"} => Cheap(0)
       /\ task.method \in Scaled /\ stage = "path" => Cheap(limit)

\* It holds at first.
LEMMA InitCheap == FlowInit => CheapInv
<1> SUFFICES ASSUME FlowInit PROVE CheapInv
  OBVIOUS
<1>1. CASE MaxFlowInit
  <2>1. task = NoTask
    BY <1>1 DEF MaxFlowInit
  <2> QED
    BY <2>1 DEF CheapInv, CheapMethod, Scaled, NoTask
<1>2. CASE CostInit
  <2>1. /\ task \in Tasks /\ ucap = task.ucap /\ lcap = task.lcap /\ flow = task.flow /\ Legal
        /\ div = Divergence(flow) /\ pi = task.pi
        /\ pc = IF task.method = "BFLOW" THEN "start" ELSE "off"
        /\ stage = CASE task.method = "BFLOW" -> "maxflow"
                     [] task.method \in Between \cup Scaled -> "start"
                     [] OTHER -> "phase1"
    BY <1>2 DEF CostInit
  <2>2. /\ task.ucap \in [Arcs -> Nat] /\ task.lcap \in [Arcs -> Nat] /\ task.flow \in [Arcs -> Nat]
        /\ task.len \in [Arcs -> Int] /\ task.dem \in [Nodes -> Int] /\ task.pi \in [Nodes -> Int]
        /\ "method" \in DOMAIN task
    BY <2>1, TasksType
  <2>3. running /\ limit = 0 /\ rest = 0
    BY DEF FlowInit
  <2>4. NetInv /\ CostTyped
    BY <2>1, <2>2 DEF NetInv, CostTyped, len, dem
  <2>5. ASSUME CheapMethod PROVE pc = "off" /\ stage = "start"
    <3>1. task.method \in Between \cup Scaled /\ task.method # "BFLOW"
      BY <2>5 DEF CheapMethod, Between, Scaled
    <3> QED
      BY <2>1, <3>1, Zenon
  <2>6. StartsCheap => Cheap(0)
    <3>1. IsTask
      BY <2>1 DEF IsTask
    <3> QED
      BY <2>1, <2>4, <3>1, StartIsCheap
  <2> QED
    BY <2>2, <2>3, <2>4, <2>5, <2>6 DEF CheapInv, CheapMethod, Scaled
<1> QED
  BY <1>1, <1>2 DEF FlowInit

\* What of the state CheapInv depends on.
cheapVars == <<task, running, pc, ucap, lcap, flow, div, pi, rest, limit>>

\* It depends on these variables.
LEMMA CheapUnchanged ==
  ASSUME CheapInv, UNCHANGED cheapVars,
         stage' = stage \/ stage' \in {"verify", "done", "rejected"}
  PROVE  CheapInv'
<1>1. /\ task' = task /\ running' = running /\ pc' = pc /\ ucap' = ucap /\ lcap' = lcap
      /\ flow' = flow /\ div' = div /\ pi' = pi /\ rest' = rest /\ limit' = limit
  BY DEF cheapVars
<1>2. CheapMethod' = CheapMethod /\ StartsCheap' = StartsCheap
  BY <1>1 DEF CheapMethod, StartsCheap
<1>3. NetInv => NetInv'
  BY <1>1 DEF NetInv, Legal, Divergence
<1>4. CostTyped => CostTyped'
  BY <1>1 DEF CostTyped, len, dem
<1>5. \A y : Cheap(y) => Cheap(y)'
  BY <1>1 DEF Cheap, Residual, ResCap, Capacity, RedLength, len
<1>6. limit' = limit /\ (Cheap(limit) => Cheap(limit)')
  BY <1>1, <1>5
<1>7. Cheap(0) => Cheap(0)'
  BY <1>5
<1> QED
  BY <1>1, <1>2, <1>3, <1>4, <1>6, <1>7 DEF CheapInv

\* The steps of these methods, and those of all others.
LEMMA CheapSteps ==
  ASSUME CheapInv, FlowNext, CheapMethod
  PROVE  \/ StartBetween \/ AugmentBetween \/ NoPathBetween \/ FinishBetween \/ StartScaled
         \/ SaturatePhase \/ AugmentPhase \/ EndPathPhase \/ EndScaled \/ CheckCost
         \/ UNCHANGED flowVars
<1>1. /\ running /\ pc = "off"
      /\ stage \in {"start", "saturate", "path", "balance", "verify", "done", "rejected"}
      /\ task.method \in {"EDMONDS_KARP", "CAPA", "SAP"}
  BY DEF CheapInv, CheapMethod, Scaled
<1>2. ~MaxFlowNext
  <2>1. ~PreflowStep
    BY <1>1 DEF PreflowStep, PreflowStart, Saturate, Activate, Select, Relabel, Retire,
                PreflowEnd, Skip, PushAlong, Discharging, Exhausted
  <2>2. ~AugmentingStep
    BY <1>1 DEF AugmentingStep, AugmentStart, Interrupt, Explore, AugmentAlong, Rescale, Finish,
                BuildLayers, FindPath, Block, EndPhase
  <2> QED
    BY <1>1, <2>1, <2>2 DEF MaxFlowNext, Next, Search, Verify
<1>3. ~SwitchToBFlow /\ ~AdmissibleBFlow /\ ~Stop
  BY <1>1 DEF SwitchToBFlow, AdmissibleBFlow, Stop
<1>4. ~ScalingStep
  BY <1>1 DEF ScalingStep, StartScaling, Measure, StopScaling, SaturateNegative, DischargeNode,
              EndPhaseOfScaling, CostScalings
<1>5. ~SimplexStep
  BY <1>1 DEF SimplexStep, StartSimplex, SkipArc, Descend, CancelFreeCycle, Retreat, NextRoot,
              StartTree, ReadQueue, EndShrinking, ExpandCycle, StartPivoting, PivotStep, EndPivoting
<1>6. ~StartCancelling /\ ~CancelCycle /\ ~NoCycle /\ ~FindLabels /\ ~StopCancelling /\ ~EndCancelling
  BY <1>1 DEF StartCancelling, CancelCycle, NoCycle, FindLabels, StopCancelling, EndCancelling,
              Cancelling
<1> QED
  BY <1>2, <1>3, <1>4, <1>5, <1>6 DEF FlowNext, CostNext, PathStep

\* The task does not become another one.
LEMMA TaskStays ==
  ASSUME CheapInv, FlowNext
  PROVE  ("method" \in DOMAIN task)' /\ (CheapMethod' => CheapMethod /\ task' = task)
<1>1. CASE SwitchToBFlow
  <2>1. task' = [task EXCEPT !.method = "SIMPLEX"] /\ "method" \in DOMAIN task
    BY <1>1 DEF SwitchToBFlow, CheapInv
  <2>2. "method" \in DOMAIN task' /\ task'.method = "SIMPLEX"
    BY <2>1
  <2> QED
    BY <2>2 DEF CheapMethod, Scaled
<1>2. CASE ~SwitchToBFlow
  <2>1. task' = task
    <3>1. CASE MaxFlowNext \/ UNCHANGED flowVars
      BY <3>1 DEF MaxFlowNext, flowVars, cost
    <3>2. CASE PathStep
      BY <3>2 DEF PathStep, StartBetween, AugmentBetween, NoPathBetween, FinishBetween, StartScaled,
                  SaturatePhase, AugmentPhase, EndPathPhase, EndScaled, StartCancelling, CancelCycle,
                  NoCycle, FindLabels, StopCancelling, EndCancelling
    <3>3. CASE ScalingStep
      BY <3>3 DEF ScalingStep, StartScaling, Measure, StopScaling, SaturateNegative, DischargeNode,
                  EndPhaseOfScaling
    <3>4. CASE SimplexStep
      BY <3>4 DEF SimplexStep, StartSimplex, SkipArc, Descend, CancelFreeCycle, Retreat, NextRoot,
                  StartTree, ReadQueue, EndShrinking, ExpandCycle, StartPivoting, PivotStep,
                  EndPivoting, cost
    <3>5. CASE AdmissibleBFlow \/ Stop \/ CheckCost
      BY <3>5 DEF AdmissibleBFlow, Stop, CheckCost
    <3> QED
      BY <1>2, <3>1, <3>2, <3>3, <3>4, <3>5 DEF FlowNext, CostNext
  <2> QED
    BY <2>1 DEF CheapInv, CheapMethod, StartsCheap
<1> QED
  BY <1>1, <1>2

\* What is left of the path q, when p starts at its k-th arc.
IsTail(p, q, k, T, v, X) ==
  /\ IsTrail(p, T, {StartNode(q[k])}, v, X) /\ p # <<>> /\ Head(p) = q[k]
  /\ \A i \in 1 .. Len(p) : \E j \in 1 .. Len(q) : p[i] = q[j]

\* It is a trail as well.
LEMMA TrailTail ==
  ASSUME NEW T, NEW S, NEW v, NEW X, NEW q, IsTrail(q, T, S, v, X), NEW k \in 1 .. Len(q)
  PROVE  IsTail(SubSeq(q, k, Len(q)), q, k, T, v, X)
<1> SUFFICES ASSUME NEW p, p = SubSeq(q, k, Len(q)) PROVE IsTail(p, q, k, T, v, X)
  OBVIOUS
<1>1. q \in Seq(T) /\ Len(q) \in Nat /\ \A i \in 1 .. Len(q) : q[i] \in T
  BY DEF IsTrail
<1>2. PICK n \in Nat : n = Len(q)
  BY <1>1
<1>3. PICK m \in Nat : m = n - k + 1 /\ m # 0
  <2>1. n - k + 1 \in Nat /\ n - k + 1 # 0
    BY <1>1, <1>2
  <2> QED
    BY <2>1
<1>4. p = [i \in 1 .. m |-> q[k + i - 1]]
  BY <1>1, <1>2, <1>3
<1>5. \A i \in 1 .. m : k + i - 1 \in 1 .. n
  BY <1>1, <1>2, <1>3
<1>6. /\ p \in Seq(T) /\ Len(p) = m /\ p # <<>>
      /\ \A i \in 1 .. m : p[i] = q[k + i - 1]
  <2>1. \A i \in 1 .. m : q[k + i - 1] \in T
    BY <1>1, <1>2, <1>5
  <2> QED
    BY <1>3, <1>4, <2>1
<1>7. Head(p) = q[k] /\ p[1] = q[k] /\ p[m] = q[n]
  <2>1. k + 1 - 1 = k /\ k + m - 1 = n /\ 1 \in 1 .. m /\ m \in 1 .. m
    BY <1>1, <1>2, <1>3
  <2>2. p[1] = q[k + 1 - 1] /\ p[m] = q[k + m - 1]
    BY <1>6, <2>1
  <2>3. Head(p) = p[1]
    BY <1>6
  <2> QED
    BY <2>1, <2>2, <2>3
<1>8. EndNode(p[m]) = v
  <2>1. q # <<>>
    BY <1>1
  <2> QED
    BY <1>2, <1>7, <2>1 DEF IsTrail
<1>9. ASSUME NEW i \in 1 .. m
      PROVE  /\ StartNode(p[i]) \notin X \cup {v}
             /\ i # m => StartNode(p[i + 1]) = EndNode(p[i])
  <2>1. PICK j \in 1 .. n : j = k + i - 1 /\ p[i] = q[j]
    BY <1>5, <1>6
  <2>2. StartNode(q[j]) \notin X \cup {v}
    BY <1>2, <2>1 DEF IsTrail
  <2>3. ASSUME i # m PROVE StartNode(p[i + 1]) = EndNode(p[i])
    <3>1. i + 1 \in 1 .. m /\ k + (i + 1) - 1 = j + 1 /\ j # n
      BY <1>2, <1>3, <2>1, <2>3
    <3>2. p[i + 1] = q[j + 1]
      <4>1. p[i + 1] = q[k + (i + 1) - 1]
        BY <1>6, <3>1
      <4> QED
        BY <3>1, <4>1
    <3>3. StartNode(q[j + 1]) = EndNode(q[j])
      BY <1>2, <2>1, <3>1 DEF IsTrail
    <3> QED
      BY <2>1, <3>2, <3>3
  <2> QED
    BY <2>1, <2>2, <2>3
<1>10. ASSUME NEW i \in 1 .. m, NEW j \in 1 .. m, i # j PROVE StartNode(p[i]) # StartNode(p[j])
  <2>1. PICK a \in 1 .. n : a = k + i - 1 /\ p[i] = q[a]
    BY <1>5, <1>6
  <2>2. PICK b \in 1 .. n : b = k + j - 1 /\ p[j] = q[b]
    BY <1>5, <1>6
  <2>3. a # b
    BY <1>10, <2>1, <2>2
  <2> QED
    BY <1>2, <2>1, <2>2, <2>3 DEF IsTrail
<1>11. \A i \in 1 .. Len(p) : \E j \in 1 .. Len(q) : p[i] = q[j]
  BY <1>2, <1>5, <1>6
<1> QED
  BY <1>6, <1>7, <1>8, <1>9, <1>10, <1>11 DEF IsTrail, IsTail

\* Deficiencies are integers.
LEMMA DeficiencyType == NetInv /\ CostTyped => \A v \in Nodes : Deficiency(v) \in Int
<1>1. NetInv => div \in [Nodes -> Int]
  BY DivergenceType DEF NetInv
<1> QED
  BY <1>1 DEF Deficiency, CostTyped

\* The part of the path from the last node with an excess on.
LEMMA ExcessTail ==
  ASSUME NetInv, CostTyped, NEW T, T \in SUBSET Darts, NEW S, NEW v, NEW X, NEW q,
         IsTrail(q, T, S, v, X), q # <<>>, Deficiency(StartNode(q[1])) < 0
  PROVE  /\ IsPart(FromExcess(q), q) /\ FromExcess(q) # <<>>
         /\ IsTrail(FromExcess(q), T, {StartNode(Head(FromExcess(q)))}, v, X)
         /\ StartNode(Head(FromExcess(q))) \in Nodes /\ Deficiency(StartNode(Head(FromExcess(q)))) < 0
<1>1. q \in Seq(T) /\ Len(q) \in Nat /\ DOMAIN q = 1 .. Len(q) /\ 1 \in DOMAIN q
      /\ \A i \in 1 .. Len(q) : q[i] \in T
  <2>1. q \in Seq(T)
    BY DEF IsTrail
  <2> QED
    BY <2>1
<1> DEFINE K == {i \in DOMAIN q : Deficiency(StartNode(q[i])) < 0}
<1>2. Max(K) \in K
  <2>1. K \in SUBSET (0 .. Len(q)) /\ K # {}
    BY <1>1
  <2> HIDE DEF K
  <2> QED
    BY <1>1, <2>1, MaxExists
<1>3. PICK k \in 1 .. Len(q) : k = Max(K) /\ Deficiency(StartNode(q[k])) < 0
  BY <1>1, <1>2
<1>4. PICK p : p = SubSeq(q, k, Len(q))
  OBVIOUS
<1>5. FromExcess(q) = p
  BY <1>3, <1>4 DEF FromExcess
<1> HIDE DEF K
<1>6. /\ IsTrail(p, T, {StartNode(q[k])}, v, X) /\ p # <<>> /\ Head(p) = q[k]
      /\ \A i \in 1 .. Len(p) : \E j \in 1 .. Len(q) : p[i] = q[j]
  <2>1. IsTail(SubSeq(q, k, Len(q)), q, k, T, v, X)
    BY TrailTail
  <2> QED
    BY <1>4, <2>1 DEF IsTail
<1>7. ArcsDiffer(p)
  BY <1>6, TrailArcsDiffer
<1>8. StartNode(q[k]) \in Nodes
  BY <1>1, <1>3, DartEnds
<1> QED
  BY <1>3, <1>5, <1>6, <1>7, <1>8 DEF IsPart

\* Edmonds and Karp's method starts.
LEMMA StartBetweenCheap ==
  ASSUME CheapInv, CheapMethod, StartBetween
  PROVE  CheapInv'
<1>1. /\ task.method = "EDMONDS_KARP" /\ Cheap(0) /\ running /\ pc = "off" /\ NetInv /\ CostTyped
      /\ limit = 0 /\ "method" \in DOMAIN task
  BY DEF CheapInv, CheapMethod, StartBetween, Between, Scaled
<1>2. Compatible(pi)
  BY <1>1 DEF Cheap, Compatible
<1>3. /\ stage' = "path" /\ pi' = pi /\ rest' = Deficiency(t) /\ task' = task /\ running' = running
      /\ pc' = pc /\ ucap' = ucap /\ lcap' = lcap /\ flow' = flow /\ div' = div /\ limit' = limit
  BY <1>2 DEF StartBetween, network
<1>4. NetInv'
  BY <1>1, <1>3 DEF NetInv, Legal, Divergence
<1>5. CostTyped'
  BY <1>1, <1>3 DEF CostTyped, len, dem
<1>6. Cheap(0)'
  BY <1>1, <1>3 DEF Cheap, Residual, ResCap, Capacity, RedLength, len
<1>7. rest' \in Int
  BY <1>1, <1>3, DeficiencyType, TerminalsType
<1> QED
  BY <1>1, <1>3, <1>4, <1>5, <1>6, <1>7 DEF CheapInv, Scaled

\* The amount x is sent along p, a part of a cheapest path q to w, which starts at r.
IsSending(y, S, d, w, q, p, x, r) ==
  /\ d = Distances(Reduced(pi), Residual(y), S) /\ q \in ShortestTo(w, d, Reduced(pi), Residual(y), S)
  /\ IsPart(p, q) /\ IsWalk(p, r, w) /\ r \in Nodes /\ w \in Nodes
  /\ x \in Nat /\ (\A i \in 1 .. Len(p) : x <= ResCap(p[i])) /\ PushOn(p, x)
  /\ pi' = Updated(pi, d, d[w])

\* It is sent from s to t, and not more than remains.
LEMMA BetweenSends ==
  ASSUME CheapInv, CheapMethod, AugmentBetween
  PROVE  \E d, p, x : IsSending(0, {s}, d, t, p, p, x, s) /\ x <= rest /\ rest' = rest - x
<1>1. /\ task.method = "EDMONDS_KARP" /\ Cheap(0) /\ NetInv /\ CostTyped /\ rest \in Int /\ rest > 0
  BY DEF CheapInv, CheapMethod, AugmentBetween, Between, Scaled
<1>2. PICK d : d = Distances(Reduced(pi), Residual(0), {s})
  OBVIOUS
<1>3. PICK p \in ShortestTo(t, d, Reduced(pi), Residual(0), {s}) :
        PushOn(p, Least(rest, FindCap(p))) /\ rest' = rest - Least(rest, FindCap(p))
  BY <1>2 DEF AugmentBetween
<1>4. pi' = Updated(pi, d, d[t])
  BY <1>1, <1>2 DEF AugmentBetween, UpdatedTo
<1>5. t \in Nodes /\ s \in Nodes /\ t # s
  BY TerminalsType
<1>6. /\ Residual(0) \in SUBSET Darts
      /\ \A e \in Residual(0) : Reduced(pi)[e] \in Int /\ Reduced(pi)[e] >= 0
      /\ d \in [Nodes -> Int]
  BY <1>1, <1>2, CheapSearch DEF AreDistances
<1>7. IsTrail(p, Tight(d, Reduced(pi), Residual(0)), {s}, t, {})
  <2>1. PICK l : l = Reduced(pi)
    OBVIOUS
  <2>2. PICK A : A = Residual(0)
    OBVIOUS
  <2>3. p \in ShortestTo(t, d, l, A, {s})
    BY <1>3, <2>1, <2>2
  <2>4. IsTrail(p, Tight(d, l, A), {s}, t, {})
    BY <1>5, <1>6, <2>1, <2>2, <2>3, ShortestAreTrails
  <2> QED
    BY <2>1, <2>2, <2>4
<1>8. Tight(d, Reduced(pi), Residual(0)) \in SUBSET Darts
  BY <1>6 DEF Tight
<1>9. IsPart(p, p) /\ p \in Seq(Darts) /\ p # <<>>
  <2>1. ArcsDiffer(p)
    BY <1>7, <1>8, TrailArcsDiffer
  <2>2. p # <<>>
    BY <1>5, <1>7 DEF IsTrail
  <2> QED
    BY <2>1, <2>2 DEF IsPart, ArcsDiffer
<1>10. FindCap(p) \in Nat /\ \A i \in 1 .. Len(p) : FindCap(p) <= ResCap(p[i])
  BY <1>1, <1>9, NetResidual, CapOfPath
<1>11. PICK x \in Nat : x = Least(rest, FindCap(p)) /\ x <= FindCap(p) /\ x <= rest
  BY <1>1, <1>10 DEF Least
<1>12. \A i \in 1 .. Len(p) : x <= ResCap(p[i])
  <2>1. \A i \in 1 .. Len(p) : ResCap(p[i]) \in Int
    BY <1>1, <1>9, NetResidual
  <2> QED
    BY <1>10, <1>11, <2>1
<1>13. IsWalk(p, s, t)
  BY <1>7, <1>8, TrailIsWalk
<1>14. IsSending(0, {s}, d, t, p, p, x, s)
  BY <1>2, <1>3, <1>4, <1>5, <1>9, <1>11, <1>12, <1>13 DEF IsSending
<1> QED
  BY <1>3, <1>11, <1>14

\* It augments once.
LEMMA AugmentBetweenCheap ==
  ASSUME CheapInv, CheapMethod, AugmentBetween
  PROVE  CheapInv'
<1>1. /\ task.method = "EDMONDS_KARP" /\ Cheap(0) /\ running /\ pc = "off" /\ NetInv /\ CostTyped
      /\ limit = 0 /\ rest \in Int /\ stage = "path" /\ "method" \in DOMAIN task
  BY DEF CheapInv, CheapMethod, AugmentBetween, Between, Scaled
<1>2. /\ task' = task /\ running' = running /\ pc' = pc /\ stage' = stage
      /\ ucap' = ucap /\ lcap' = lcap /\ limit' = limit
  BY DEF AugmentBetween
<1>3. PICK d, p, x : IsSending(0, {s}, d, t, p, p, x, s) /\ rest' = rest - x
  BY BetweenSends
<1>4. NetInv' /\ CostTyped' /\ Cheap(0)'
  BY <1>1, <1>2, <1>3, AugmentKeepsCheap DEF IsSending
<1>5. rest' \in Int
  BY <1>1, <1>3 DEF IsSending
<1> QED
  BY <1>1, <1>2, <1>4, <1>5 DEF CheapInv, Scaled

\* The first phase of capacity scaling starts from the largest capacity.
LEMMA LargestCapacity ==
  ASSUME NetInv
  PROVE  Max({0} \cup {ucap[a] : a \in Arcs}) \in Nat
<1> DEFINE T == {0} \cup {ucap[a] : a \in Arcs}
           f == [a \in Arcs |-> -ucap[a]]
<1>1. \A a \in Arcs : ucap[a] \in Int /\ f[a] = -ucap[a] /\ f[a] \in Int
  BY DEF NetInv
<1> HIDE DEF f
<1>2. \E x \in T : \A y \in T : x >= y
  <2>1. CASE Arcs = {}
    BY <2>1
  <2>2. CASE Arcs # {}
    <3>1. PICK b \in Arcs : \A a \in Arcs : f[b] <= f[a]
      BY <1>1, <2>2, GraphType, LeastValue
    <3>2. \A a \in Arcs : ucap[b] >= ucap[a]
      BY <1>1, <3>1
    <3>3. CASE ucap[b] >= 0
      <4>1. \A y \in T : ucap[b] >= y
        BY <3>2, <3>3
      <4> QED
        BY <4>1
    <3>4. CASE ~(ucap[b] >= 0)
      <4>1. \A y \in T : 0 >= y
        BY <1>1, <3>2, <3>4
      <4> QED
        BY <4>1
    <3> QED
      BY <3>3, <3>4
  <2> QED
    BY <2>1, <2>2
<1>3. T \in SUBSET Int /\ 0 \in T
  BY <1>1
<1> HIDE DEF T
<1>4. Max(T) \in T /\ \A y \in T : Max(T) >= y
  BY <1>2 DEF Max
<1>5. Max(T) \in Nat
  <2>1. PICK m \in Int : m = Max(T)
    BY <1>3, <1>4
  <2>2. m >= 0
    BY <1>3, <1>4, <2>1
  <2> QED
    BY <2>1, <2>2
<1> QED
  BY <1>5 DEF T

\* Capacity scaling starts.
LEMMA StartScaledCheap ==
  ASSUME CheapInv, CheapMethod, StartScaled
  PROVE  CheapInv'
<1>1. /\ task.method \in Scaled /\ running /\ pc = "off" /\ NetInv /\ CostTyped
      /\ "method" \in DOMAIN task
  BY DEF CheapInv, CheapMethod, StartScaled, Scaled
<1>2. limit' \in Nat
  <2>1. PICK c \in Nat : c = Max({0} \cup {ucap[a] : a \in Arcs})
    BY <1>1, LargestCapacity
  <2>2. limit' = IF task.method = "CAPA" /\ c > 0 THEN c - 1 ELSE 0
    BY <2>1 DEF StartScaled
  <2> QED
    BY <2>2
<1>3. /\ stage' = "saturate" /\ pi' = pi /\ task' = task /\ running' = running
      /\ pc' = pc /\ ucap' = ucap /\ lcap' = lcap /\ flow' = flow /\ div' = div
  BY DEF StartScaled, network
<1>4. NetInv'
  BY <1>1, <1>3 DEF NetInv, Legal, Divergence
<1>5. CostTyped'
  BY <1>1, <1>3 DEF CostTyped, len, dem
<1> QED
  BY <1>1, <1>2, <1>3, <1>4, <1>5 DEF CheapInv, Scaled

\* Arcs of negative reduced length are saturated: the opposite ones have positive length.
LEMMA SaturateCheap ==
  ASSUME CheapInv, CheapMethod, SaturatePhase
  PROVE  CheapInv'
<1>1. /\ task.method \in Scaled /\ running /\ pc = "off" /\ NetInv /\ CostTyped
      /\ "method" \in DOMAIN task /\ limit \in Nat
  BY DEF CheapInv, CheapMethod, SaturatePhase, Scaled
<1>2. PICK full : full = {d \in Saturable : RedLength(pi, d) < 0}
  OBVIOUS
<1>3. /\ flow' = [a \in Arcs |-> IF <<a, 0>> \in full THEN ucap[a]
                                 ELSE IF <<a, 1>> \in full THEN lcap[a] ELSE flow[a]]
      /\ div' = Divergence(flow') /\ stage' = "path" /\ pi' = pi /\ task' = task
      /\ running' = running /\ pc' = pc /\ ucap' = ucap /\ lcap' = lcap /\ limit' = limit
  BY <1>2 DEF SaturatePhase, sending
<1>4. NetInv'
  <2>1. flow' \in [Arcs -> Int] /\ \A a \in Arcs : lcap[a] <= flow'[a] /\ flow'[a] <= ucap[a]
    BY <1>1, <1>3 DEF NetInv, Legal
  <2>2. div' = Divergence(flow)'
    BY <1>3
  <2> QED
    BY <1>1, <1>3, <2>1, <2>2 DEF NetInv, Legal
<1>5. CostTyped'
  BY <1>1, <1>3 DEF CostTyped, len, dem
<1>6. ASSUME NEW d \in Residual(limit)' PROVE RedLength(pi, d) >= 0
  <2>1. d \in Darts /\ ResCap(d)' > limit
    BY <1>3 DEF Residual
  <2>2. PICK a \in Arcs, c \in {0, 1} : d = <<a, c>>
    BY <2>1 DEF Darts
  <2>3. PICK g \in [Arcs -> Int] : g = flow'
    BY <1>4 DEF NetInv
  <2>4. ResCap(d)' = IF c = 1 THEN g[a] - lcap[a] ELSE ucap[a] - g[a]
    BY <1>3, <2>2, <2>3 DEF ResCap, Capacity
  <2>5. /\ RedLength(pi, d) \in Int /\ RedLength(pi, Opposite(d)) = -RedLength(pi, d)
        /\ Opposite(d) = <<a, 1 - c>>
    BY <1>1, <2>1, <2>2, RedLengthType DEF CostTyped, Opposite
  <2>6. ucap[a] \in Int /\ lcap[a] \in Int /\ flow[a] \in Int
    BY <1>1 DEF NetInv
  <2>7. d \notin full
    <3>1. CASE d \in full /\ c = 0
      <4>1. g[a] = ucap[a]
        BY <1>3, <2>2, <2>3, <3>1
      <4> QED
        BY <1>1, <2>1, <2>4, <2>6, <3>1, <4>1
    <3>2. CASE d \in full /\ c = 1
      <4>1. <<a, 0>> \notin full
        <5>1. RedLength(pi, d) < 0 /\ Opposite(d) = <<a, 0>>
          BY <1>2, <2>5, <3>2
        <5>2. ~(RedLength(pi, <<a, 0>>) < 0)
          BY <2>5, <5>1
        <5> QED
          BY <1>2, <5>2
      <4>2. g[a] = lcap[a]
        BY <1>3, <2>2, <2>3, <3>2, <4>1
      <4> QED
        BY <1>1, <2>1, <2>4, <2>6, <3>2, <4>2
    <3> QED
      BY <2>2, <3>1, <3>2
  <2>8. CASE Opposite(d) \in full
    BY <1>2, <2>5, <2>8
  <2>9. CASE Opposite(d) \notin full
    <3>1. <<a, 0>> \notin full /\ <<a, 1>> \notin full
      BY <2>2, <2>5, <2>7, <2>9
    <3>2. g[a] = flow[a]
      BY <1>3, <2>3, <3>1
    <3>3. ResCap(d) > limit
      BY <2>1, <2>2, <2>4, <3>2 DEF ResCap, Capacity
    <3>4. ~(RedLength(pi, d) < 0)
      BY <1>2, <2>1, <2>7, <3>3 DEF Saturable, Residual
    <3> QED
      BY <2>5, <3>4
  <2> QED
    BY <2>8, <2>9
<1>7. Cheap(limit)'
  <2>1. \A d : RedLength(pi, d)' = RedLength(pi, d)
    BY <1>3 DEF RedLength, len
  <2> QED
    BY <1>6, <2>1 DEF Cheap
<1> QED
  BY <1>1, <1>3, <1>4, <1>5, <1>7 DEF CheapInv, Scaled

\* It is sent from a node with too much to a node that lacks something, and not more than that.
LEMMA PhaseSends ==
  ASSUME CheapInv, CheapMethod, AugmentPhase
  PROVE  \E d, w, q, p, x, r :
           /\ IsSending(limit, Supersaturated, d, w, q, p, x, r)
           /\ Deficiency(w) > 0 /\ x <= Deficiency(w) /\ Deficiency(r) < 0 /\ x <= -Deficiency(r)
           /\ rest' = IF task.method = "SAP" THEN rest - x ELSE rest
<1>1. task.method \in Scaled /\ NetInv /\ CostTyped /\ limit \in Nat /\ Cheap(limit)
  BY DEF CheapInv, CheapMethod, AugmentPhase, Scaled
<1>2. PICK y \in Nat : y = limit
  BY <1>1
<1>3. PICK d : d = Distances(Reduced(pi), Residual(y), Supersaturated)
  OBVIOUS
<1> DEFINE U(w, q) == Min({FindCap(FromExcess(q)), Deficiency(w), -Deficiency(StartNode(Head(FromExcess(q))))})
<1>4. PICK w \in Deficient :
        /\ \E q \in ShortestTo(w, d, Reduced(pi), Residual(y), Supersaturated) :
             /\ PushOn(FromExcess(q), U(w, q))
             /\ rest' = IF task.method = "SAP" THEN rest - U(w, q) ELSE rest
        /\ pi' = Updated(pi, d, d[w])
  BY <1>2, <1>3 DEF AugmentPhase, PhaseDistances, UpdatedTo
<1>5. PICK q \in ShortestTo(w, d, Reduced(pi), Residual(y), Supersaturated) :
        /\ PushOn(FromExcess(q), U(w, q))
        /\ rest' = IF task.method = "SAP" THEN rest - U(w, q) ELSE rest
  BY <1>4
<1>7. /\ \A v \in Nodes : Deficiency(v) \in Int
      /\ w \in Nodes /\ Deficiency(w) > y /\ w \notin Supersaturated
      /\ Supersaturated \in SUBSET Nodes /\ \A v \in Supersaturated : -Deficiency(v) > y
  <2>1. \A v \in Nodes : Deficiency(v) \in Int
    BY <1>1, DeficiencyType
  <2> QED
    BY <1>2, <2>1 DEF Deficient, Supersaturated
<1>8. /\ Residual(y) \in SUBSET Darts
      /\ \A e \in Residual(y) : Reduced(pi)[e] \in Int /\ Reduced(pi)[e] >= 0
      /\ d \in [Nodes -> Int]
  BY <1>1, <1>2, <1>3, CheapSearch DEF AreDistances
<1>9. PICK T : T = Tight(d, Reduced(pi), Residual(y))
  OBVIOUS
<1>10. IsTrail(q, T, Supersaturated, w, {}) /\ T \in SUBSET Darts
  <2>1. PICK l : l = Reduced(pi)
    OBVIOUS
  <2>2. PICK A : A = Residual(y)
    OBVIOUS
  <2>3. PICK S : S = Supersaturated
    OBVIOUS
  <2>4. q \in ShortestTo(w, d, l, A, S)
    BY <2>1, <2>2, <2>3
  <2>5. IsTrail(q, Tight(d, l, A), S, w, {})
    BY <1>7, <1>8, <2>1, <2>2, <2>4, ShortestAreTrails
  <2> QED
    BY <1>8, <1>9, <2>1, <2>2, <2>3, <2>5 DEF Tight
<1>11. q # <<>> /\ StartNode(q[1]) \in Supersaturated
  BY <1>7, <1>10 DEF IsTrail
<1>12. Deficiency(StartNode(q[1])) < 0
  BY <1>2, <1>7, <1>11
<1>13. PICK p : p = FromExcess(q)
  OBVIOUS
<1>14. /\ IsPart(p, q) /\ p # <<>>
       /\ StartNode(Head(p)) \in Nodes /\ Deficiency(StartNode(Head(p))) < 0
       /\ IsTrail(p, T, {StartNode(Head(p))}, w, {})
  <2>1. /\ IsPart(FromExcess(q), q) /\ FromExcess(q) # <<>>
        /\ StartNode(Head(FromExcess(q))) \in Nodes /\ Deficiency(StartNode(Head(FromExcess(q)))) < 0
        /\ IsTrail(FromExcess(q), T, {StartNode(Head(FromExcess(q)))}, w, {})
    BY <1>1, <1>10, <1>11, <1>12, ExcessTail
  <2> QED
    BY <1>13, <2>1
<1>15. p \in Seq(Darts) /\ \A i \in 1 .. Len(p) : ResCap(p[i]) \in Int
  <2>1. p \in Seq(Darts)
    BY <1>14 DEF IsPart, ArcsDiffer
  <2> QED
    BY <1>1, <2>1, NetResidual
<1>16. PICK c \in Nat : c = FindCap(p) /\ \A i \in 1 .. Len(p) : c <= ResCap(p[i])
  BY <1>1, <1>14, <1>15, NetResidual, CapOfPath
<1>17. PICK a \in Int : a = Deficiency(w) /\ a > 0
  BY <1>2, <1>7
<1>18. PICK b \in Int : b = -Deficiency(StartNode(Head(p))) /\ b > 0
  BY <1>7, <1>14
<1>19. PICK x : x = Min({c, a, b})
  OBVIOUS
<1>20. x \in Nat /\ x <= c /\ x <= a /\ x <= b
  <2>0. c \in Int /\ a \in Int /\ b \in Int
    BY <1>16, <1>17, <1>18
  <2>1. /\ Min({c, a, b}) \in {c, a, b}
        /\ Min({c, a, b}) <= c /\ Min({c, a, b}) <= a /\ Min({c, a, b}) <= b
    BY <2>0, Zenon, MinOfThree
  <2> QED
    BY <1>16, <1>17, <1>18, <1>19, <2>1
<1>21. U(w, q) = x
  BY <1>13, <1>16, <1>17, <1>18, <1>19
<1> HIDE DEF U
<1>22. \A i \in 1 .. Len(p) : x <= ResCap(p[i])
  BY <1>15, <1>16, <1>20
<1>23. PICK r \in Nodes : r = StartNode(Head(p))
  BY <1>14
<1>24. IsWalk(p, r, w)
  BY <1>10, <1>14, <1>23, TrailIsWalk
<1>25. PICK S : S = Supersaturated
  OBVIOUS
<1>26. IsSending(y, S, d, w, q, p, x, r)
  BY <1>3, <1>4, <1>5, <1>7, <1>13, <1>14, <1>20, <1>21, <1>22, <1>24, <1>25 DEF IsSending
<1>27. rest' = IF task.method = "SAP" THEN rest - x ELSE rest
  BY <1>5, <1>21
<1>28. Deficiency(w) > 0 /\ x <= Deficiency(w) /\ Deficiency(r) < 0 /\ x <= -Deficiency(r)
  BY <1>14, <1>17, <1>18, <1>20, <1>23
<1> QED
  BY <1>2, <1>25, <1>26, <1>27, <1>28

\* It augments along a path.
LEMMA AugmentPhaseCheap ==
  ASSUME CheapInv, CheapMethod, AugmentPhase
  PROVE  CheapInv'
<1>1. /\ task.method \in Scaled /\ running /\ pc = "off" /\ NetInv /\ CostTyped
      /\ "method" \in DOMAIN task /\ limit \in Nat /\ stage = "path" /\ Cheap(limit)
  BY DEF CheapInv, CheapMethod, AugmentPhase, Scaled
<1>2. /\ task' = task /\ running' = running /\ pc' = pc /\ stage' = stage
      /\ ucap' = ucap /\ lcap' = lcap /\ limit' = limit
  BY DEF AugmentPhase
<1>3. PICK y \in Nat : y = limit
  BY <1>1
<1>4. PICK S : S = Supersaturated
  OBVIOUS
<1>5. PICK d, w, q, p, x, r : IsSending(y, S, d, w, q, p, x, r)
  BY <1>3, <1>4, PhaseSends
<1>6. NetInv' /\ CostTyped' /\ Cheap(y)'
  BY <1>1, <1>2, <1>3, <1>5, AugmentKeepsCheap DEF IsSending
<1>7. Cheap(limit)'
  BY <1>2, <1>3, <1>6
<1> QED
  BY <1>1, <1>2, <1>6, <1>7 DEF CheapInv, Scaled

\* The next phase looks at smaller capacities.
LEMMA EndPathPhaseCheap ==
  ASSUME CheapInv, CheapMethod, EndPathPhase
  PROVE  CheapInv'
<1>1. /\ task.method \in Scaled /\ running /\ pc = "off" /\ NetInv /\ CostTyped
      /\ "method" \in DOMAIN task /\ limit \in Nat
  BY DEF CheapInv, CheapMethod, EndPathPhase, Scaled
<1>2. /\ stage' \in {"balance", "saturate"} /\ limit' = limit \div 2 /\ pi' = pi /\ task' = task
      /\ running' = running /\ pc' = pc /\ ucap' = ucap /\ lcap' = lcap /\ flow' = flow /\ div' = div
  BY DEF EndPathPhase, Halved
<1>3. NetInv'
  BY <1>1, <1>2 DEF NetInv, Legal, Divergence
<1>4. CostTyped'
  BY <1>1, <1>2 DEF CostTyped, len, dem
<1>5. limit' \in Nat
  BY <1>1, <1>2
<1> QED
  BY <1>1, <1>2, <1>3, <1>4, <1>5 DEF CheapInv, Scaled

\* Each step keeps the invariant.
LEMMA NextCheap ==
  ASSUME CheapInv, [FlowNext]_flowVars
  PROVE  CheapInv'
<1>1. CASE UNCHANGED flowVars
  <2>1. UNCHANGED cheapVars /\ stage' = stage
    BY <1>1 DEF flowVars, vars, network, cost, sending, cheapVars
  <2> QED
    BY <2>1, CheapUnchanged
<1>2. CASE FlowNext /\ ~CheapMethod
  <2>1. ("method" \in DOMAIN task)' /\ ~CheapMethod'
    BY <1>2, TaskStays
  <2> QED
    BY <2>1 DEF CheapInv
<1>3. CASE FlowNext /\ CheapMethod
  <2>1. CASE NoPathBetween \/ FinishBetween \/ EndScaled \/ CheckCost
    <3>1. stage' \in {"verify", "done"}
      BY <2>1 DEF NoPathBetween, FinishBetween, EndScaled, CheckCost, Infeasible
    <3>2. CASE NoPathBetween
      <4>1. UNCHANGED cheapVars
        BY <3>2 DEF NoPathBetween, cheapVars, sending
      <4> QED
        BY <3>1, <4>1, CheapUnchanged
    <3>3. CASE FinishBetween
      <4>1. task.method = "EDMONDS_KARP"
        BY <1>3, <3>3 DEF CheapMethod, FinishBetween, Between, Scaled
      <4>2. UNCHANGED cheapVars
        BY <3>3, <4>1 DEF FinishBetween, cheapVars, sending
      <4> QED
        BY <3>1, <4>2, CheapUnchanged
    <3>4. CASE EndScaled
      <4>1. UNCHANGED cheapVars
        BY <3>4 DEF EndScaled, cheapVars, sending
      <4> QED
        BY <3>1, <4>1, CheapUnchanged
    <3>5. CASE CheckCost
      <4>1. UNCHANGED cheapVars
        BY <3>5 DEF CheckCost, cheapVars, sending
      <4> QED
        BY <3>1, <4>1, CheapUnchanged
    <3> QED
      BY <2>1, <3>2, <3>3, <3>4, <3>5
  <2> QED
    BY <1>1, <1>3, <2>1, CheapSteps, StartBetweenCheap, AugmentBetweenCheap, StartScaledCheap,
       SaturateCheap, AugmentPhaseCheap, EndPathPhaseCheap
<1> QED
  BY <1>1, <1>2, <1>3

\* The methods that augment along cheapest paths keep complementary slackness: of the arcs that
\* count in this phase, none gets a negative reduced length, neither by a path that is
\* augmented, which opens the opposite arcs, nor by UpdatePotentials(), which stops at the
\* target's distance, nor when a new phase of capacity scaling begins.
THEOREM CheapPathsKeepSlackness ==
  FlowSpec => [](CheapMethod => SlacknessIsKept)
<1>1. CheapInv => (CheapMethod => SlacknessIsKept)
  <2> SUFFICES ASSUME CheapInv, CheapMethod PROVE SlacknessIsKept
    OBVIOUS
  <2>1. /\ task.method \in {"EDMONDS_KARP", "CAPA", "SAP"}
        /\ stage \in {"start", "saturate", "path", "balance", "verify", "done", "rejected"}
    BY DEF CheapInv, CheapMethod, Scaled
  <2>2. stage = "path" /\ task.method = "EDMONDS_KARP" => Compatible(pi)
    BY DEF CheapInv, Cheap, Compatible
  <2>3. stage = "path" /\ task.method \in Scaled => \A d \in Residual(limit) : RedLength(pi, d) >= 0
    BY DEF CheapInv, Cheap
  <2> QED
    BY <2>1, <2>2, <2>3 DEF SlacknessIsKept
<1> QED
  BY <1>1, InitCheap, NextCheap, PTL DEF FlowSpec
-----------------------------------------------------------------------------
(* Duality: no potentials give more than a flow that meets the demands costs. *)

\* Sums of sums, and of multiples.
LEMMA SumOfSums ==
  ASSUME NEW f, NEW g, NEW h, NEW S, IsFiniteSet(S),
         \A a \in S : f[a] \in Int /\ g[a] \in Int /\ h[a] = f[a] + g[a]
  PROVE  Sum(h, S) = Sum(f, S) + Sum(g, S)
<1> DEFINE C == {T \in SUBSET S : Sum(h, T) = Sum(f, T) + Sum(g, T)}
<1>1. ASSUME NEW T \in SUBSET S, \A x \in T : T \ {x} \in C
      PROVE  T \in C
  <2>1. IsFiniteSet(T)
    BY FS_Subset
  <2>2. CASE T = {}
    BY <2>2, SumOfNothing
  <2>3. CASE T # {}
    <3>1. PICK c \in T : c = Chosen(T) /\ T \ {c} \in C
      BY <1>1, <2>3, ChosenIsMember
    <3>2. /\ Sum(f, T) = f[c] + Sum(f, T \ {c}) /\ Sum(g, T) = g[c] + Sum(g, T \ {c})
          /\ Sum(h, T) = h[c] + Sum(h, T \ {c})
      BY <2>1, <2>3, <3>1, SumChosen
    <3>3. Sum(f, T \ {c}) \in Int /\ Sum(g, T \ {c}) \in Int
      BY <2>1, FS_Subset, SumIsInteger
    <3>4. /\ f[c] \in Int /\ g[c] \in Int /\ h[c] = f[c] + g[c]
          /\ Sum(h, T \ {c}) = Sum(f, T \ {c}) + Sum(g, T \ {c})
      BY <3>1
    <3>5. Sum(h, T) = Sum(f, T) + Sum(g, T)
      BY <3>2, <3>3, <3>4
    <3> QED
      BY <3>5
  <2> QED
    BY <2>2, <2>3
<1> HIDE DEF C
<1>2. C = SUBSET S
  <2>1. C \in SUBSET SUBSET S
    BY DEF C
  <2> QED
    BY <1>1, <2>1, AllSubsets
<1> QED
  BY <1>2 DEF C

\* A number times a sum of numbers.
LEMMA SumOfMultiples ==
  ASSUME NEW f, NEW h, NEW S, IsFiniteSet(S), NEW x \in Int,
         \A a \in S : f[a] \in Int /\ h[a] = f[a] * x
  PROVE  Sum(h, S) = Sum(f, S) * x
<1> DEFINE C == {T \in SUBSET S : Sum(h, T) = Sum(f, T) * x}
<1>1. ASSUME NEW T \in SUBSET S, \A y \in T : T \ {y} \in C
      PROVE  T \in C
  <2>1. IsFiniteSet(T)
    BY FS_Subset
  <2>2. CASE T = {}
    BY <2>2, SumOfNothing
  <2>3. CASE T # {}
    <3>1. PICK c \in T : c = Chosen(T) /\ T \ {c} \in C
      BY <1>1, <2>3, ChosenIsMember
    <3>2. Sum(f, T) = f[c] + Sum(f, T \ {c}) /\ Sum(h, T) = h[c] + Sum(h, T \ {c})
      BY <2>1, <2>3, <3>1, SumChosen
    <3>3. PICK y \in Int : y = Sum(f, T \ {c})
      BY <2>1, FS_Subset, SumIsInteger
    <3>4. PICK z \in Int : z = f[c] /\ h[c] = z * x
      OBVIOUS
    <3>5. Sum(h, T \ {c}) = y * x
      BY <3>1, <3>3
    <3>6. Sum(h, T) = z * x + y * x /\ Sum(f, T) = z + y
      BY <3>2, <3>3, <3>4, <3>5
    <3>7. z * x + y * x = (z + y) * x
      OBVIOUS
    <3>8. Sum(h, T) = Sum(f, T) * x
      BY <3>6, <3>7
    <3> QED
      BY <3>8
  <2> QED
    BY <2>2, <2>3
<1> HIDE DEF C
<1>2. C = SUBSET S
  <2>1. C \in SUBSET SUBSET S
    BY DEF C
  <2> QED
    BY <1>1, <2>1, AllSubsets
<1> QED
  BY <1>2 DEF C

\* Potentials times divergences: each arc counts by the difference between its ends.
ToEnds(f, p) == [a \in Arcs |-> f[a] * p[To[a]]]

\* The same at the start nodes of the arcs.
FromStarts(f, p) == [a \in Arcs |-> f[a] * p[From[a]]]

\* The same, node by node.
AtNodes(f, p) == [v \in Nodes |-> Divergence(f)[v] * p[v]]

\* For the potential of one node only.
LEMMA PotentialOfNode ==
  ASSUME NEW f \in [Arcs -> Int], NEW p \in [Nodes -> Int], NEW v \in Nodes
  PROVE  /\ AtNodes(f, p)[v] \in Int
         /\ AtNodes(f, p)[v] = Sum(ToEnds(f, p), Into(v)) - Sum(FromStarts(f, p), OutOf(v))
<1>1. PICK x \in Int : x = p[v]
  OBVIOUS
<1>2. /\ IsFiniteSet(Into(v)) /\ IsFiniteSet(OutOf(v))
      /\ Into(v) \in SUBSET Arcs /\ OutOf(v) \in SUBSET Arcs
  BY ArcSetsAreFinite DEF Into, OutOf
<1>3. PICK y \in Int : y = Sum(f, Into(v))
  BY <1>2, SumIsInteger
<1>4. PICK z \in Int : z = Sum(f, OutOf(v))
  BY <1>2, SumIsInteger
<1>5. Sum(ToEnds(f, p), Into(v)) = y * x
  <2>1. \A a \in Into(v) : f[a] \in Int /\ ToEnds(f, p)[a] = f[a] * x
    BY <1>1 DEF Into, ToEnds
  <2> QED
    BY <1>2, <1>3, <2>1, SumOfMultiples
<1>6. Sum(FromStarts(f, p), OutOf(v)) = z * x
  <2>1. \A a \in OutOf(v) : f[a] \in Int /\ FromStarts(f, p)[a] = f[a] * x
    BY <1>1 DEF OutOf, FromStarts
  <2> QED
    BY <1>2, <1>4, <2>1, SumOfMultiples
<1>7. AtNodes(f, p)[v] = (y - z) * x
  BY <1>1, <1>3, <1>4, DivergenceAt DEF AtNodes
<1>8. (y - z) * x = y * x - z * x /\ (y - z) * x \in Int
  OBVIOUS
<1> QED
  BY <1>5, <1>6, <1>7, <1>8

\* For all nodes: both ways to add up give the same.
LEMMA PotentialOfNodes ==
  ASSUME NEW f \in [Arcs -> Int], NEW p \in [Nodes -> Int], NEW X \in SUBSET Nodes
  PROVE  Sum(AtNodes(f, p), X)
           = Sum(ToEnds(f, p), EndingIn(X)) - Sum(FromStarts(f, p), StartingIn(X))
<1>1. PICK g \in [Arcs -> Int] : g = ToEnds(f, p)
  <2>1. \A a \in Arcs : f[a] * p[To[a]] \in Int
    <3> SUFFICES ASSUME NEW a \in Arcs PROVE f[a] * p[To[a]] \in Int
      OBVIOUS
    <3>1. f[a] \in Int /\ p[To[a]] \in Int
      BY GraphType
    <3> QED
      BY <3>1
  <2> QED
    BY <2>1 DEF ToEnds
<1>2. PICK h \in [Arcs -> Int] : h = FromStarts(f, p)
  <2>1. \A a \in Arcs : f[a] * p[From[a]] \in Int
    <3> SUFFICES ASSUME NEW a \in Arcs PROVE f[a] * p[From[a]] \in Int
      OBVIOUS
    <3>1. f[a] \in Int /\ p[From[a]] \in Int
      BY GraphType
    <3> QED
      BY <3>1
  <2> QED
    BY <2>1 DEF FromStarts
<1>3. PICK z : z = AtNodes(f, p)
  OBVIOUS
<1>4. \A v \in Nodes : z[v] \in Int /\ z[v] = Sum(g, Into(v)) - Sum(h, OutOf(v))
  BY <1>1, <1>2, <1>3, PotentialOfNode
<1> DEFINE C == {Y \in SUBSET X : Sum(z, Y) = Sum(g, EndingIn(Y)) - Sum(h, StartingIn(Y))}
<1>5. IsFiniteSet(X)
  BY NodeSetsAreFinite
<1>6. \A S \in SUBSET Arcs : IsFiniteSet(S) /\ Sum(g, S) \in Int /\ Sum(h, S) \in Int
  BY ArcSetsAreFinite, SumIsInteger
<1>7. ASSUME NEW Y \in SUBSET X, \A v \in Y : Y \ {v} \in C
      PROVE  Y \in C
  <2>1. IsFiniteSet(Y)
    BY <1>5, FS_Subset
  <2>2. CASE Y = {}
    <3>1. EndingIn(Y) = {} /\ StartingIn(Y) = {}
      BY <2>2 DEF EndingIn, StartingIn
    <3>2. Sum(g, {}) = 0 /\ Sum(h, {}) = 0 /\ Sum(z, {}) = 0
      BY SumOfNothing
    <3>3. Sum(z, Y) = 0 /\ Sum(g, EndingIn(Y)) = 0 /\ Sum(h, StartingIn(Y)) = 0
      BY <2>2, <3>1, <3>2, Zenon
    <3>4. Sum(z, Y) = Sum(g, EndingIn(Y)) - Sum(h, StartingIn(Y))
      BY <3>3
    <3> QED
      BY <3>4
  <2>3. CASE Y # {}
    <3>1. PICK v \in Y : Y \ {v} \in C
      BY <1>7, <2>3
    <3> DEFINE Z == Y \ {v}
    <3>2. v \in Nodes
      OBVIOUS
    <3>3. Sum(z, Y) = z[v] + Sum(z, Z)
      BY <1>4, <2>1, SumWithout
    <3>4. Sum(g, EndingIn(Y)) = Sum(g, EndingIn(Z)) + Sum(g, Into(v))
      <4>1. EndingIn(Y) = EndingIn(Z) \cup Into(v) /\ EndingIn(Z) \cap Into(v) = {}
        BY DEF EndingIn, Into
      <4>2. EndingIn(Z) \in SUBSET Arcs /\ Into(v) \in SUBSET Arcs
        BY DEF EndingIn, Into
      <4> HIDE DEF Z
      <4> QED
        BY <1>6, <4>1, <4>2, SumOfUnion
    <3>5. Sum(h, StartingIn(Y)) = Sum(h, StartingIn(Z)) + Sum(h, OutOf(v))
      <4>1. StartingIn(Y) = StartingIn(Z) \cup OutOf(v) /\ StartingIn(Z) \cap OutOf(v) = {}
        BY DEF StartingIn, OutOf
      <4>2. StartingIn(Z) \in SUBSET Arcs /\ OutOf(v) \in SUBSET Arcs
        BY DEF StartingIn, OutOf
      <4> HIDE DEF Z
      <4> QED
        BY <1>6, <4>1, <4>2, SumOfUnion
    <3>6. Sum(z, Z) = Sum(g, EndingIn(Z)) - Sum(h, StartingIn(Z))
      BY <3>1
    <3>7. z[v] = Sum(g, Into(v)) - Sum(h, OutOf(v))
      BY <1>4, <3>2
    <3>8. /\ Sum(g, EndingIn(Z)) \in Int /\ Sum(h, StartingIn(Z)) \in Int
          /\ Sum(g, Into(v)) \in Int /\ Sum(h, OutOf(v)) \in Int
      BY <1>6 DEF EndingIn, StartingIn, Into, OutOf
    <3> HIDE DEF Z
    <3>9. Sum(z, Y) = Sum(g, EndingIn(Y)) - Sum(h, StartingIn(Y))
      BY <3>3, <3>4, <3>5, <3>6, <3>7, <3>8
    <3> QED
      BY <3>9
  <2> QED
    BY <2>2, <2>3
<1> HIDE DEF C
<1>8. C = SUBSET X
  <2>1. C \in SUBSET SUBSET X
    BY DEF C
  <2> QED
    BY <1>5, <1>7, <2>1, AllSubsets
<1>9. Sum(z, X) = Sum(g, EndingIn(X)) - Sum(h, StartingIn(X))
  BY <1>8 DEF C
<1> QED
  BY <1>1, <1>2, <1>3, <1>9

\* The types of its parts.
LEMMA TaskTypes ==
  ASSUME IsTask
  PROVE  /\ ucap \in [Arcs -> Nat] /\ lcap \in [Arcs -> Nat] /\ task.flow \in [Arcs -> Nat]
         /\ ucap \in [Arcs -> Int] /\ lcap \in [Arcs -> Int]
         /\ len \in [Arcs -> Int] /\ dem \in [Nodes -> Int] /\ task.pi \in [Nodes -> Int]
<1>1. /\ task.ucap \in [Arcs -> Nat] /\ task.lcap \in [Arcs -> Nat] /\ task.flow \in [Arcs -> Nat]
      /\ task.len \in [Arcs -> Int] /\ task.dem \in [Nodes -> Int] /\ task.pi \in [Nodes -> Int]
  BY TasksType DEF IsTask
<1>2. \A a \in Arcs : task.ucap[a] \in Int /\ task.lcap[a] \in Int
  BY <1>1
<1>3. task.ucap \in [Arcs -> Int] /\ task.lcap \in [Arcs -> Int]
  BY <1>1, <1>2
<1> QED
  BY <1>1, <1>3 DEF IsTask, len, dem

\* What an arc adds to the weight of a flow, and to the dual objective.
Gain(p, a) ==
  IF RedLength(p, <<a, 0>>) > 0 THEN lcap[a] * RedLength(p, <<a, 0>>) ELSE ucap[a] * RedLength(p, <<a, 0>>)

\* A flow within the capacities that meets the demands.
Feasible(f) ==
  /\ f \in [Arcs -> Int] /\ Divergence(f) = dem
  /\ \A a \in Arcs : lcap[a] <= f[a] /\ f[a] <= ucap[a]

\* Complementary slackness, for any flow.
Complementary(f, p) ==
  \A a \in Arcs : /\ f[a] < ucap[a] => RedLength(p, <<a, 0>>) >= 0
                  /\ lcap[a] < f[a] => RedLength(p, <<a, 0>>) <= 0

\* Of one arc: its part of the weight is not less than its part of the dual objective.
LEMMA GainIsBounded ==
  ASSUME IsTask, NEW p \in [Nodes -> Int], NEW f, Feasible(f), NEW a \in Arcs
  PROVE  /\ Gain(p, a) \in Int /\ f[a] * RedLength(p, <<a, 0>>) \in Int
         /\ Gain(p, a) <= f[a] * RedLength(p, <<a, 0>>)
         /\ Complementary(f, p) => Gain(p, a) = f[a] * RedLength(p, <<a, 0>>)
<1>1. PICK x \in Int : x = RedLength(p, <<a, 0>>)
  <2>1. <<a, 0>> \in Darts
    BY DEF Darts
  <2> QED
    BY <2>1, RedLengthType, TaskTypes
<1>2. PICK y \in Int, lo \in Int, hi \in Int :
        y = f[a] /\ lo = lcap[a] /\ hi = ucap[a] /\ lo <= y /\ y <= hi
  BY TaskTypes DEF Feasible
<1>3. Gain(p, a) = IF x > 0 THEN lo * x ELSE hi * x
  BY <1>1, <1>2 DEF Gain
<1>4. (y - lo) * x = y * x - lo * x /\ (hi - y) * (-x) = y * x - hi * x
  OBVIOUS
<1>5. lo * x \in Int /\ hi * x \in Int /\ y * x \in Int
  OBVIOUS
<1>6. /\ x > 0 => (y - lo) * x >= 0
      /\ x <= 0 => (hi - y) * (-x) >= 0
  BY <1>2
<1>7. Gain(p, a) \in Int /\ Gain(p, a) <= y * x
  BY <1>3, <1>4, <1>5, <1>6
<1>8. ASSUME Complementary(f, p) PROVE Gain(p, a) = y * x
  <2>1. (y < hi => x >= 0) /\ (lo < y => x <= 0)
    BY <1>1, <1>2, <1>8 DEF Complementary
  <2>2. CASE x > 0
    <3>1. lo = y
      BY <1>2, <2>1, <2>2
    <3> QED
      BY <1>3, <2>2, <3>1
  <2>3. CASE x = 0
    <3>1. hi * x = 0 /\ y * x = 0
      BY <2>3
    <3> QED
      BY <1>3, <2>3, <3>1
  <2>4. CASE x < 0
    <3>1. hi = y
      BY <1>2, <2>1, <2>4
    <3> QED
      BY <1>3, <2>4, <3>1
  <2> QED
    BY <2>2, <2>3, <2>4
<1> QED
  BY <1>1, <1>2, <1>5, <1>7, <1>8

\* Weak duality, and equality by complementary slackness.
LEMMA DualIsBound ==
  ASSUME IsTask, NEW p \in [Nodes -> Int], NEW f, Feasible(f)
  PROVE  /\ DualObjective(p) \in Int /\ Weight(f) \in Int /\ DualObjective(p) <= Weight(f)
         /\ Complementary(f, p) => DualObjective(p) = Weight(f)
<1>1. f \in [Arcs -> Int] /\ Divergence(f) = dem /\ len \in [Arcs -> Int] /\ dem \in [Nodes -> Int]
  BY TaskTypes DEF Feasible
<1>2. PICK g : g = [a \in Arcs |-> Gain(p, a)]
  OBVIOUS
<1>3. PICK h : h = [a \in Arcs |-> f[a] * RedLength(p, <<a, 0>>)]
  OBVIOUS
<1>4. PICK w : w = [a \in Arcs |-> f[a] * len[a]]
  OBVIOUS
<1>5. PICK z : z = [a \in Arcs |-> ToEnds(f, p)[a] - FromStarts(f, p)[a]]
  OBVIOUS
<1>6. PICK y : y = [v \in Nodes |-> dem[v] * p[v]]
  OBVIOUS
<1>7. DualObjective(p) = Sum(y, Nodes) + Sum(g, Arcs)
  BY <1>2, <1>6 DEF DualObjective, Gain
<1>8. Weight(f) = Sum(w, Arcs)
  BY <1>4 DEF Weight
<1>9. \A a \in Arcs : /\ g[a] \in Int /\ h[a] \in Int /\ g[a] <= h[a]
                      /\ Complementary(f, p) => g[a] = h[a]
  <2>1. \A a \in Arcs : /\ Gain(p, a) \in Int /\ f[a] * RedLength(p, <<a, 0>>) \in Int
                        /\ Gain(p, a) <= f[a] * RedLength(p, <<a, 0>>)
                        /\ Complementary(f, p) => Gain(p, a) = f[a] * RedLength(p, <<a, 0>>)
    BY GainIsBounded
  <2> QED
    BY <1>2, <1>3, <2>1
<1>10. ASSUME NEW a \in Arcs
       PROVE  /\ ToEnds(f, p)[a] \in Int /\ FromStarts(f, p)[a] \in Int /\ w[a] \in Int
              /\ z[a] \in Int /\ z[a] = ToEnds(f, p)[a] - FromStarts(f, p)[a] /\ w[a] = h[a] + z[a]
  <2>1. PICK x \in Int : x = f[a]
    BY <1>1
  <2>2. PICK l \in Int : l = len[a]
    BY <1>1
  <2>3. PICK c \in Int : c = p[To[a]]
    BY GraphType
  <2>4. PICK d \in Int : d = p[From[a]]
    BY GraphType
  <2>5. RedLength(p, <<a, 0>>) = l + d - c
    BY <2>2, <2>3, <2>4 DEF RedLength, StartNode, EndNode, Opposite
  <2>6. /\ ToEnds(f, p)[a] = x * c /\ FromStarts(f, p)[a] = x * d /\ w[a] = x * l
        /\ h[a] = x * (l + d - c) /\ z[a] = ToEnds(f, p)[a] - FromStarts(f, p)[a]
    BY <1>3, <1>4, <1>5, <2>1, <2>2, <2>3, <2>4, <2>5 DEF ToEnds, FromStarts
  <2>7. x * c \in Int /\ x * d \in Int /\ x * l \in Int
    OBVIOUS
  <2>8. x * (l + d - c) = x * l + x * d - x * c
    OBVIOUS
  <2> QED
    BY <2>6, <2>7, <2>8
<1>11. /\ IsFiniteSet(Arcs) /\ Sum(g, Arcs) \in Int /\ Sum(h, Arcs) \in Int /\ Sum(z, Arcs) \in Int
       /\ Sum(w, Arcs) \in Int
       /\ Sum(ToEnds(f, p), Arcs) \in Int /\ Sum(FromStarts(f, p), Arcs) \in Int
  BY <1>9, <1>10, ArcSetsAreFinite, SumIsInteger
<1>12. Sum(w, Arcs) = Sum(h, Arcs) + Sum(z, Arcs)
  BY <1>9, <1>10, <1>11, SumOfSums
<1>13. Sum(z, Arcs) = Sum(ToEnds(f, p), Arcs) - Sum(FromStarts(f, p), Arcs)
  <2>1. PICK e : e = ToEnds(f, p)
    OBVIOUS
  <2>2. PICK b : b = FromStarts(f, p)
    OBVIOUS
  <2>3. \A a \in Arcs : z[a] \in Int /\ b[a] \in Int /\ e[a] = z[a] + b[a]
    BY <1>10, <2>1, <2>2
  <2>4. Sum(e, Arcs) = Sum(z, Arcs) + Sum(b, Arcs)
    BY <1>11, <2>3, SumOfSums
  <2> QED
    BY <1>11, <2>1, <2>2, <2>4
<1>14. Sum(y, Nodes) = Sum(z, Arcs)
  <2>1. AtNodes(f, p) = y
    BY <1>1, <1>6 DEF AtNodes
  <2>2. EndingIn(Nodes) = Arcs /\ StartingIn(Nodes) = Arcs
    BY GraphType DEF EndingIn, StartingIn
  <2>3. Sum(AtNodes(f, p), Nodes)
          = Sum(ToEnds(f, p), EndingIn(Nodes)) - Sum(FromStarts(f, p), StartingIn(Nodes))
    BY <1>1, PotentialOfNodes
  <2> QED
    BY <1>13, <2>1, <2>2, <2>3
<1>15. Sum(g, Arcs) <= Sum(h, Arcs)
  BY <1>9, <1>11, SumOfLess
<1>16. Complementary(f, p) => Sum(g, Arcs) = Sum(h, Arcs)
  BY <1>9, <1>11, SumOfEqual
<1> QED
  BY <1>7, <1>8, <1>11, <1>12, <1>14, <1>15, <1>16

\* The numbers of which the optimum is the least.
Costs(c) ==
  {InfFloat} \cup {WeightOf(c, r.flow) :
                     r \in {x \in Candidates : x.ucap = c.ucap /\ x.lcap = c.lcap /\ x.div = c.dem}}

\* The optimum is the least of them.
LEMMA OptimumIsMin ==
  ASSUME task \in Tasks
  PROVE  CostOptimum = Min(Costs(Problem(task)))
<1> DEFINE R(c) == [problem |-> c, weight |-> Min(Costs(c))]
<1>1. LeastWeights = {R(c) : c \in {Problem(x) : x \in Tasks}}
  BY DEF LeastWeights, Costs
<1>2. \A c : R(c).problem = c /\ R(c).weight = Min(Costs(c))
  OBVIOUS
<1> HIDE DEF R
<1>3. R(Problem(task)) \in LeastWeights
  BY <1>1
<1>4. \A r \in LeastWeights : r = R(r.problem)
  BY <1>1, <1>2
<1>5. PICK r : r = CHOOSE x \in LeastWeights : x.problem = Problem(task)
  OBVIOUS
<1>6. r \in LeastWeights /\ r.problem = Problem(task)
  BY <1>2, <1>3, <1>5
<1>7. r.weight = Min(Costs(Problem(task)))
  BY <1>2, <1>4, <1>6
<1> QED
  BY <1>5, <1>7 DEF CostOptimum

\* No capacity is larger than all of them.
LEMMA CapacitiesAreBounded ==
  ASSUME IsTask, Arcs # {}
  PROVE  /\ Max({ucap[a] : a \in Arcs}) \in Nat
         /\ \A b \in Arcs : ucap[b] <= Max({ucap[a] : a \in Arcs})
<1> DEFINE T == {ucap[a] : a \in Arcs}
           f == [a \in Arcs |-> -ucap[a]]
<1>1. \A a \in Arcs : ucap[a] \in Nat /\ ucap[a] \in Int /\ f[a] = -ucap[a] /\ f[a] \in Int
  BY TaskTypes
<1> HIDE DEF f
<1>2. PICK b \in Arcs : \A a \in Arcs : f[b] <= f[a]
  BY <1>1, GraphType, LeastValue
<1>3. \A a \in Arcs : ucap[b] >= ucap[a]
  BY <1>1, <1>2
<1>4. \E x \in T : \A y \in T : x >= y
  BY <1>3
<1>5. \A x \in T : x \in Nat
  BY <1>1
<1>6. \A a \in Arcs : ucap[a] \in T
  OBVIOUS
<1> HIDE DEF T
<1>7. Max(T) \in T /\ \A y \in T : Max(T) >= y
  BY <1>4 DEF Max
<1>8. PICK m \in Nat : m = Max(T)
  BY <1>5, <1>7
<1>9. \A a \in Arcs : ucap[a] <= m
  BY <1>1, <1>6, <1>7, <1>8
<1>10. Max(T) \in Nat /\ \A a \in Arcs : ucap[a] <= Max(T)
  BY <1>8, <1>9
<1> QED
  BY <1>10 DEF T

\* They are the weights of the flows that meet the demands.
LEMMA CostsAreWeights ==
  ASSUME IsTask
  PROVE  \A y : y \in Costs(Problem(task)) <=> y = InfFloat \/ \E f : Feasible(f) /\ y = Weight(f)
<1>1. PICK c : c = Problem(task)
  OBVIOUS
<1>2. c.ucap = ucap /\ c.lcap = lcap /\ c.len = len /\ c.dem = dem
  BY <1>1 DEF Problem, IsTask, len, dem
<1>3. \A f : WeightOf(c, f) = Weight(f)
  BY <1>2 DEF WeightOf, Weight
<1> DEFINE R(b, f) == [ucap |-> b[1], lcap |-> b[2], flow |-> f, div |-> Divergence(f)]
           B == {<<x.ucap, x.lcap>> : x \in Tasks}
<1>4. Candidates = UNION {{R(b, f) : f \in LegalFlows(b[1], b[2])} : b \in B}
  BY DEF Candidates
<1>5. \A b, f : /\ R(b, f).ucap = b[1] /\ R(b, f).lcap = b[2] /\ R(b, f).flow = f
                /\ R(b, f).div = Divergence(f)
  OBVIOUS
<1>6. <<ucap, lcap>> \in B
  BY DEF IsTask
<1> HIDE DEF R, B
<1>7. ASSUME NEW y, y \in Costs(c), y # InfFloat
      PROVE  \E f : Feasible(f) /\ y = Weight(f)
  <2>1. PICK r \in Candidates : /\ r.ucap = c.ucap /\ r.lcap = c.lcap /\ r.div = c.dem
                                /\ y = WeightOf(c, r.flow)
    BY <1>7 DEF Costs
  <2>2. PICK b \in B : \E f \in LegalFlows(b[1], b[2]) : r = R(b, f)
    BY <1>4, <2>1
  <2>6. PICK f \in LegalFlows(b[1], b[2]) : r = R(b, f)
    BY <2>2
  <2>3. /\ b[1] = ucap /\ b[2] = lcap /\ Divergence(f) = dem /\ y = Weight(f)
    BY <1>2, <1>3, <1>5, <2>1, <2>6
  <2>4. f \in [Arcs -> 0 .. Max({ucap[a] : a \in Arcs})] /\ \A a \in Arcs : lcap[a] <= f[a] /\ f[a] <= ucap[a]
    BY <2>3, <2>6 DEF LegalFlows
  <2>5. f \in [Arcs -> Int]
    <3>1. CASE Arcs = {}
      BY <2>4, <3>1
    <3>2. CASE Arcs # {}
      <4>1. PICK m \in Nat : m = Max({ucap[a] : a \in Arcs})
        BY <3>2, CapacitiesAreBounded
      <4> QED
        BY <2>4, <4>1
    <3> QED
      BY <3>1, <3>2
  <2> QED
    BY <2>3, <2>4, <2>5 DEF Feasible
<1>8. ASSUME NEW f, Feasible(f)
      PROVE  Weight(f) \in Costs(c)
  <2>1. f \in LegalFlows(ucap, lcap)
    <3>1. CASE Arcs = {}
      BY <1>8, <3>1 DEF Feasible, LegalFlows
    <3>2. CASE Arcs # {}
      <4>1. PICK m \in Nat : m = Max({ucap[a] : a \in Arcs}) /\ \A a \in Arcs : ucap[a] <= m
        BY <3>2, CapacitiesAreBounded
      <4>2. \A a \in Arcs : f[a] \in 0 .. m
        BY <1>8, <4>1, TaskTypes DEF Feasible
      <4>3. f \in [Arcs -> 0 .. m]
        BY <1>8, <4>2 DEF Feasible
      <4> QED
        BY <1>8, <4>1, <4>3 DEF Feasible, LegalFlows
    <3> QED
      BY <3>1, <3>2
  <2>2. PICK r : r = R(<<ucap, lcap>>, f)
    OBVIOUS
  <2>3. r.ucap = ucap /\ r.lcap = lcap /\ r.flow = f /\ r.div = dem
    BY <1>5, <1>8, <2>2 DEF Feasible
  <2>4. r \in Candidates
    BY <1>4, <1>6, <2>1, <2>2
  <2>5. Weight(f) = WeightOf(c, r.flow)
    BY <1>3, <2>3
  <2> QED
    BY <1>2, <2>3, <2>4, <2>5 DEF Costs
<1>9. InfFloat \in Costs(c)
  BY DEF Costs
<1> QED
  BY <1>1, <1>7, <1>8, <1>9

\* A set of integers with a lower bound has a least element.
LEMMA LeastNumber ==
  ASSUME NEW T \in SUBSET Int, T # {}, NEW m \in Int, \A x \in T : m <= x
  PROVE  Min(T) \in T /\ \A y \in T : Min(T) <= y
<1> DEFINE D == {x - m : x \in T}
<1>1. D \in SUBSET Nat /\ D # {}
  <2>1. \A x \in T : x - m \in Nat
    OBVIOUS
  <2> QED
    BY <2>1
<1>2. \A x \in T : x - m \in D
  OBVIOUS
<1>3. \A z \in D : \E x \in T : z = x - m
  OBVIOUS
<1> HIDE DEF D
<1>4. PICK z \in D : \A y \in D : z <= y
  BY <1>1, LeastLabel
<1>5. PICK x \in T : z = x - m
  BY <1>3
<1>6. \A y \in T : x <= y
  <2> SUFFICES ASSUME NEW y \in T PROVE x <= y
    OBVIOUS
  <2>1. y - m \in D /\ z <= y - m
    BY <1>2, <1>4
  <2> QED
    BY <1>5, <2>1
<1> QED
  BY <1>6 DEF Min

\* What the optimum is.
LEMMA OptimumIsLeast ==
  ASSUME IsTask
  PROVE  /\ CostOptimum \in Int /\ CostOptimum <= InfFloat
         /\ \A f : Feasible(f) => CostOptimum <= Weight(f)
         /\ CostOptimum # InfFloat => \E f : Feasible(f) /\ CostOptimum = Weight(f)
<1>1. PICK T : T = Costs(Problem(task))
  OBVIOUS
<1>2. \A y : y \in T <=> y = InfFloat \/ \E f : Feasible(f) /\ y = Weight(f)
  BY <1>1, CostsAreWeights
<1>3. CostOptimum = Min(T)
  BY <1>1, OptimumIsMin DEF IsTask
<1>4. PICK p \in [Nodes -> Int] : p = NoPotentials
  <2>1. NoPotentials \in [Nodes -> Int]
    BY DEF NoPotentials
  <2> QED
    BY <2>1
<1>5. \A f : Feasible(f) => DualObjective(p) \in Int /\ Weight(f) \in Int /\ DualObjective(p) <= Weight(f)
  BY DualIsBound
<1>6. T \in SUBSET Int /\ InfFloat \in T
  BY <1>2, <1>5, InfFloatType
<1>7. \E m \in Int : \A x \in T : m <= x
  <2>1. CASE \A f : ~Feasible(f)
    <3>1. \A x \in T : InfFloat <= x
      BY <1>2, <2>1, InfFloatType
    <3> QED
      BY <3>1, InfFloatType
  <2>2. CASE \E f : Feasible(f)
    <3>1. PICK m \in Int : m = DualObjective(p)
      BY <1>5, <2>2
    <3>2. PICK l \in Int : l <= m /\ l <= InfFloat
      BY <3>1, InfFloatType
    <3>3. \A x \in T : l <= x
      BY <1>2, <1>5, <1>6, <3>1, <3>2
    <3> QED
      BY <3>3
  <2> QED
    BY <2>1, <2>2
<1>8. Min(T) \in T /\ \A y \in T : Min(T) <= y
  BY <1>6, <1>7, LeastNumber
<1> QED
  BY <1>2, <1>3, <1>6, <1>8

\* Potentials never promise more than the optimum, if there is one.
LEMMA DualIsBelow ==
  ASSUME IsTask, CostOptimum # InfFloat, NEW p \in [Nodes -> Int]
  PROVE  DualObjective(p) \in Int /\ DualObjective(p) <= CostOptimum
<1>1. PICK f : Feasible(f) /\ CostOptimum = Weight(f)
  BY OptimumIsLeast
<1> QED
  BY <1>1, DualIsBound

\* A flow with potentials that fit is cheapest.
LEMMA SlackFlowIsCheapest ==
  ASSUME IsTask, Feasible(flow), pi \in [Nodes -> Int], Compatible(pi)
  PROVE  Weight(flow) \in Int /\ DualObjective(pi) = Weight(flow)
         /\ \A f : Feasible(f) => Weight(flow) <= Weight(f)
<1>1. Complementary(flow, pi)
  <2> SUFFICES ASSUME NEW a \in Arcs
               PROVE  /\ flow[a] < ucap[a] => RedLength(pi, <<a, 0>>) >= 0
                      /\ lcap[a] < flow[a] => RedLength(pi, <<a, 0>>) <= 0
    BY DEF Complementary
  <2>1. PICK d \in Darts : d = <<a, 0>>
    BY DEF Darts
  <2>2. Opposite(d) = <<a, 1>> /\ Opposite(d) \in Darts
    BY <2>1 DEF Darts, Opposite
  <2>3. ResCap(d) = ucap[a] - flow[a] /\ ResCap(Opposite(d)) = flow[a] - lcap[a]
    BY <2>1, <2>2 DEF ResCap, Capacity
  <2>4. flow[a] \in Int /\ ucap[a] \in Int /\ lcap[a] \in Int
    BY TaskTypes DEF Feasible
  <2>5. RedLength(pi, d) \in Int /\ RedLength(pi, Opposite(d)) = -RedLength(pi, d)
    BY RedLengthType, TaskTypes
  <2>6. flow[a] < ucap[a] => RedLength(pi, d) >= 0
    BY <2>3, <2>4 DEF Compatible, Residual
  <2>7. lcap[a] < flow[a] => RedLength(pi, Opposite(d)) >= 0
    BY <2>2, <2>3, <2>4 DEF Compatible, Residual
  <2> QED
    BY <2>1, <2>5, <2>6, <2>7
<1>2. DualObjective(pi) = Weight(flow) /\ Weight(flow) \in Int
  BY <1>1, DualIsBound
<1> QED
  BY <1>2, DualIsBound

-----------------------------------------------------------------------------
(* What the nodes lack. *)

\* The deficiencies.
Lacking == [v \in Nodes |-> Deficiency(v)]

\* Numbers that are not positive, but whose sum is not negative.
LEMMA ZeroSum ==
  ASSUME NEW f, NEW S, IsFiniteSet(S), \A a \in S : f[a] \in Int /\ f[a] <= 0, Sum(f, S) >= 0
  PROVE  \A a \in S : f[a] = 0
<1> SUFFICES ASSUME NEW a \in S PROVE f[a] = 0
  OBVIOUS
<1>1. PICK T : T = S \ {a} /\ IsFiniteSet(T)
  BY FS_Subset
<1>2. PICK z : z = [b \in T |-> 0]
  OBVIOUS
<1>3. \A b \in T : f[b] \in Int /\ z[b] \in Int /\ f[b] <= z[b] /\ z[b] = z[b] * 0
  BY <1>1, <1>2
<1>4. PICK y \in Int : y = Sum(z, T)
  BY <1>1, <1>3, SumIsInteger
<1>5. y = y * 0
  <2>1. 0 \in Int /\ \A b \in T : z[b] \in Int /\ z[b] = z[b] * 0
    BY <1>3
  <2> QED
    BY <1>1, <1>4, <2>1, SumOfMultiples
<1>6. Sum(f, T) <= Sum(z, T) /\ Sum(f, T) \in Int
  BY <1>1, <1>3, SumOfLess, SumIsInteger
<1>7. Sum(f, S) = f[a] + Sum(f, T)
  BY <1>1, SumWithout
<1>8. y = 0
  BY <1>5
<1> QED
  BY <1>4, <1>6, <1>7, <1>8

\* Nothing is lost: the divergences of all nodes add up to zero.
LEMMA DivergencesCancel ==
  ASSUME NEW f \in [Arcs -> Int]
  PROVE  Sum(Divergence(f), Nodes) = 0
<1>1. EndingIn(Nodes) = Arcs /\ StartingIn(Nodes) = Arcs
  BY GraphType DEF EndingIn, StartingIn
<1>2. Sum(Divergence(f), Nodes) = Sum(f, EndingIn(Nodes)) - Sum(f, StartingIn(Nodes))
  BY DivergenceOfSet
<1>3. Sum(f, Arcs) \in Int
  BY ArcSetsAreFinite, SumIsInteger
<1> QED
  BY <1>1, <1>2, <1>3

\* What the nodes of a set lack is the difference of its demands and its divergences.
LEMMA LackOfSet ==
  ASSUME NetInv, IsTask, NEW X \in SUBSET Nodes
  PROVE  /\ \A v \in Nodes : Lacking[v] \in Int /\ Lacking[v] = dem[v] - div[v]
         /\ Sum(dem, X) \in Int /\ Sum(div, X) \in Int
         /\ Sum(dem, X) = Sum(Lacking, X) + Sum(div, X) /\ Sum(Lacking, X) \in Int
<1>1. div \in [Nodes -> Int] /\ dem \in [Nodes -> Int]
  BY TaskTypes, DivergenceType DEF NetInv
<1>2. \A v \in Nodes : /\ Lacking[v] \in Int /\ Lacking[v] = dem[v] - div[v]
                       /\ dem[v] = Lacking[v] + div[v] /\ dem[v] \in Int /\ div[v] \in Int
  BY <1>1 DEF Lacking, Deficiency
<1>3. PICK l : l = Lacking
  OBVIOUS
<1>4. \A v \in X : l[v] \in Int /\ div[v] \in Int /\ dem[v] \in Int /\ dem[v] = l[v] + div[v]
  BY <1>2, <1>3
<1>5. IsFiniteSet(X)
  BY NodeSetsAreFinite
<1>6. Sum(dem, X) = Sum(l, X) + Sum(div, X)
  BY <1>4, <1>5, SumOfSums
<1>7. Sum(dem, X) \in Int /\ Sum(div, X) \in Int /\ Sum(l, X) \in Int
  BY <1>4, <1>5, SumIsInteger
<1> QED
  BY <1>2, <1>3, <1>6, <1>7

\* If some flow meets the demands, a set of nodes that no residual arc leaves does not have too much.
LEMMA ClosedSetLacks ==
  ASSUME NetInv, IsTask, NEW f, Feasible(f), NEW X \in SUBSET Nodes,
         \A d \in Residual(0) : StartNode(d) \in X => EndNode(d) \in X
  PROVE  Sum(Lacking, X) >= 0
<1>1. /\ f \in [Arcs -> Int] /\ Divergence(f) = dem /\ div = Divergence(flow)
      /\ ucap \in [Arcs -> Int] /\ lcap \in [Arcs -> Int] /\ flow \in [Arcs -> Int]
      /\ \A a \in Arcs : lcap[a] <= f[a] /\ f[a] <= ucap[a] /\ lcap[a] <= flow[a] /\ flow[a] <= ucap[a]
  BY DEF Feasible, NetInv, Legal
<1>2. /\ Exiting(X) \in SUBSET Arcs /\ Entering(X) \in SUBSET Arcs
      /\ IsFiniteSet(Exiting(X)) /\ IsFiniteSet(Entering(X))
  BY ArcSetsAreFinite DEF Exiting, Entering
<1>3. Sum(dem, X) = Sum(f, Entering(X)) - Sum(f, Exiting(X))
  BY <1>1, FlowIntoSet
<1>4. Sum(div, X) = Sum(flow, Entering(X)) - Sum(flow, Exiting(X))
  BY <1>1, FlowIntoSet
<1>5. /\ Sum(f, Entering(X)) \in Int /\ Sum(f, Exiting(X)) \in Int
      /\ Sum(flow, Entering(X)) \in Int /\ Sum(flow, Exiting(X)) \in Int
  BY <1>1, <1>2, SumIsInteger
<1>6. ASSUME NEW a \in Exiting(X) PROVE f[a] <= flow[a]
  <2>1. /\ a \in Arcs /\ <<a, 0>> \in Darts
        /\ StartNode(<<a, 0>>) = From[a] /\ EndNode(<<a, 0>>) = To[a]
        /\ ResCap(<<a, 0>>) = ucap[a] - flow[a]
    BY DEF Exiting, Darts, StartNode, EndNode, Opposite, ResCap, Capacity
  <2>2. ~(ResCap(<<a, 0>>) > 0)
    BY <2>1 DEF Exiting, Residual
  <2> QED
    BY <1>1, <2>1, <2>2
<1>7. ASSUME NEW a \in Entering(X) PROVE flow[a] <= f[a]
  <2>1. /\ a \in Arcs /\ <<a, 1>> \in Darts
        /\ StartNode(<<a, 1>>) = To[a] /\ EndNode(<<a, 1>>) = From[a]
        /\ ResCap(<<a, 1>>) = flow[a] - lcap[a]
    BY DEF Entering, Darts, StartNode, EndNode, Opposite, ResCap, Capacity
  <2>2. ~(ResCap(<<a, 1>>) > 0)
    BY <2>1 DEF Entering, Residual
  <2> QED
    BY <1>1, <2>1, <2>2
<1>8. Sum(f, Exiting(X)) <= Sum(flow, Exiting(X))
  BY <1>1, <1>2, <1>6, SumOfLess
<1>9. Sum(flow, Entering(X)) <= Sum(f, Entering(X))
  BY <1>1, <1>2, <1>7, SumOfLess
<1>10. /\ Sum(dem, X) \in Int /\ Sum(div, X) \in Int /\ Sum(Lacking, X) \in Int
       /\ Sum(dem, X) = Sum(Lacking, X) + Sum(div, X)
  BY LackOfSet
<1> QED
  BY <1>3, <1>4, <1>5, <1>8, <1>9, <1>10

\* Then nothing is lacking all in all, and nothing at all if no node lacks anything.
LEMMA LacksCancel ==
  ASSUME NetInv, IsTask, NEW f, Feasible(f)
  PROVE  /\ Sum(Lacking, Nodes) = 0
         /\ \/ \A v \in Nodes : Deficiency(v) <= 0
            \/ \A v \in Nodes : Deficiency(v) >= 0
            => \A v \in Nodes : Deficiency(v) = 0
<1>1. Sum(dem, Nodes) = 0 /\ Sum(div, Nodes) = 0
  BY DivergencesCancel DEF Feasible, NetInv
<1>2. \A v \in Nodes : Lacking[v] \in Int /\ Lacking[v] = Deficiency(v)
  BY LackOfSet DEF Lacking
<1>3. Sum(Lacking, Nodes) = 0
  <2>1. Sum(dem, Nodes) = Sum(Lacking, Nodes) + Sum(div, Nodes) /\ Sum(Lacking, Nodes) \in Int
    BY LackOfSet
  <2> QED
    BY <1>1, <2>1
<1>4. PICK l : l = Lacking
  OBVIOUS
<1>5. ASSUME \A v \in Nodes : Deficiency(v) <= 0 PROVE \A v \in Nodes : Deficiency(v) = 0
  <2>1. \A v \in Nodes : l[v] \in Int /\ l[v] <= 0
    BY <1>2, <1>4, <1>5
  <2>2. \A v \in Nodes : l[v] = 0
    BY <1>3, <1>4, <2>1, NodeSetsAreFinite, ZeroSum
  <2> QED
    BY <1>2, <1>4, <2>2
<1>6. ASSUME \A v \in Nodes : Deficiency(v) >= 0 PROVE \A v \in Nodes : Deficiency(v) = 0
  <2>1. PICK h : h = [v \in Nodes |-> l[v] * (-1)]
    OBVIOUS
  <2>2. \A v \in Nodes : l[v] \in Int /\ h[v] = l[v] * (-1) /\ h[v] \in Int /\ h[v] <= 0
    BY <1>2, <1>4, <1>6, <2>1
  <2>3. Sum(h, Nodes) = Sum(l, Nodes) * (-1)
    <3>1. -1 \in Int /\ \A v \in Nodes : l[v] \in Int /\ h[v] = l[v] * (-1)
      BY <2>2
    <3> QED
      BY <3>1, NodeSetsAreFinite, SumOfMultiples
  <2>4. Sum(h, Nodes) >= 0
    BY <1>3, <1>4, <2>3
  <2>5. \A v \in Nodes : h[v] = 0
    BY <2>2, <2>4, NodeSetsAreFinite, ZeroSum
  <2> QED
    BY <1>2, <1>4, <2>2, <2>5
<1> QED
  BY <1>3, <1>5, <1>6

\* Where a search has come to.
Visited(d) == {v \in Nodes : d[v] # InfFloat}

\* No residual arc leaves these nodes.
LEMMA VisitedIsClosed ==
  ASSUME NetInv, CostTyped, Cheap(0), Short(Reduced(pi), Residual(0)), NEW S,
         NEW d, d = Distances(Reduced(pi), Residual(0), S)
  PROVE  /\ \A e \in Residual(0) : StartNode(e) \in Visited(d) => EndNode(e) \in Visited(d)
         /\ Visited(d) \in SUBSET Nodes /\ \A v \in Nodes : v \in S => v \in Visited(d)
<1>1. PICK l : l = Reduced(pi)
  OBVIOUS
<1>2. PICK A : A = Residual(0)
  OBVIOUS
<1>3. A \in SUBSET Darts /\ \A e \in A : l[e] \in Int /\ l[e] >= 0
  BY <1>1, <1>2, CheapSearch
<1>4. d = Distances(l, A, S) /\ Short(l, A)
  BY <1>1, <1>2
<1>5. AreDistances(l, A, S, d) /\ GoesOn(A, d)
  BY <1>3, <1>4, DistancesAreExact, SearchGoesOn
<1>6. \A e \in A : StartNode(e) \in Visited(d) => EndNode(e) \in Visited(d)
  <2> SUFFICES ASSUME NEW e \in A, StartNode(e) \in Visited(d) PROVE EndNode(e) \in Visited(d)
    OBVIOUS
  <2>1. e \in Darts /\ EndNode(e) \in Nodes
    BY <1>3, DartEnds
  <2>2. d[EndNode(e)] # InfFloat
    BY <1>5 DEF GoesOn, Visited
  <2> QED
    BY <2>1, <2>2 DEF Visited
<1>7. \A v \in Nodes : v \in S => v \in Visited(d)
  <2>1. 0 # InfFloat
    BY InfFloatType
  <2> QED
    BY <1>5, <2>1 DEF AreDistances, Visited
<1> QED
  BY <1>2, <1>6, <1>7 DEF Visited

\* When no node that lacks something is reached any more, and some flow meets the demands, so does this one.
LEMMA NothingIsLacking ==
  ASSUME NetInv, CostTyped, IsTask, Cheap(0), Short(Reduced(pi), Residual(0)),
         NEW f, Feasible(f), limit = 0, \A w \in Deficient : PhaseDistances[w] = InfFloat
  PROVE  \A v \in Nodes : Deficiency(v) = 0
<1>1. PICK S : S = Supersaturated
  OBVIOUS
<1>2. PICK d : d = Distances(Reduced(pi), Residual(0), S)
  OBVIOUS
<1>3. \A v \in Nodes : Deficiency(v) \in Int /\ Lacking[v] = Deficiency(v)
  BY DeficiencyType DEF Lacking
<1>4. d = PhaseDistances
  BY <1>1, <1>2 DEF PhaseDistances
<1>5. PICK X : X = Visited(d)
  OBVIOUS
<1>6. /\ \A e \in Residual(0) : StartNode(e) \in X => EndNode(e) \in X
      /\ X \in SUBSET Nodes /\ \A v \in Nodes : v \in S => v \in X
  BY <1>2, <1>5, VisitedIsClosed
<1>7. Sum(Lacking, X) >= 0
  BY <1>6, ClosedSetLacks
<1>8. ASSUME NEW v \in X PROVE Lacking[v] \in Int /\ Lacking[v] <= 0
  <2>1. v \in Nodes /\ d[v] # InfFloat
    BY <1>5, <1>6 DEF Visited
  <2>2. v \notin Deficient
    BY <1>4, <2>1
  <2>3. ~(Deficiency(v) > 0)
    BY <2>1, <2>2 DEF Deficient
  <2> QED
    BY <1>3, <2>1, <2>3
<1>9. \A v \in X : Lacking[v] = 0
  <2>1. IsFiniteSet(X)
    BY <1>6, NodeSetsAreFinite
  <2>2. PICK l : l = Lacking
    OBVIOUS
  <2>3. \A v \in X : l[v] \in Int /\ l[v] <= 0
    BY <1>8, <2>2
  <2>4. \A v \in X : l[v] = 0
    BY <1>7, <2>1, <2>2, <2>3, ZeroSum
  <2> QED
    BY <2>2, <2>4
<1>10. ASSUME NEW v \in Nodes PROVE Deficiency(v) >= 0
  <2>1. CASE v \in S
    <3>1. Deficiency(v) = 0
      BY <1>3, <1>6, <1>9, <2>1
    <3> QED
      BY <3>1
  <2>2. CASE v \notin S
    <3>1. ~(-Deficiency(v) > 0)
      BY <1>1, <2>2 DEF Supersaturated
    <3> QED
      BY <1>3, <3>1
  <2> QED
    BY <2>1, <2>2
<1> QED
  BY <1>10, LacksCancel

\* Between two nodes: there is a path as long as something is to be sent.
LEMMA TargetIsReached ==
  ASSUME NetInv, CostTyped, IsTask, Cheap(0), Short(Reduced(pi), Residual(0)),
         NEW f, Feasible(f), Deficiency(s) < 0, \A v \in Nodes \ {s, t} : Deficiency(v) = 0
  PROVE  Distances(Reduced(pi), Residual(0), {s})[t] # InfFloat
<1> SUFFICES ASSUME Distances(Reduced(pi), Residual(0), {s})[t] = InfFloat PROVE FALSE
  OBVIOUS
<1>1. PICK S : S = {s}
  OBVIOUS
<1>2. PICK d : d = Distances(Reduced(pi), Residual(0), S) /\ d[t] = InfFloat
  BY <1>1
<1>3. \A v \in Nodes : Deficiency(v) \in Int /\ Lacking[v] = Deficiency(v)
  BY DeficiencyType DEF Lacking
<1>4. PICK X : X = Visited(d)
  OBVIOUS
<1>5. /\ \A e \in Residual(0) : StartNode(e) \in X => EndNode(e) \in X
      /\ X \in SUBSET Nodes /\ \A v \in Nodes : v \in S => v \in X
  BY <1>2, <1>4, VisitedIsClosed
<1>6. s \in X /\ t \notin X
  BY <1>1, <1>2, <1>4, <1>5, TerminalsType DEF Visited
<1>7. Sum(Lacking, X) >= 0
  BY <1>5, ClosedSetLacks
<1>8. \A v \in X : Lacking[v] \in Int /\ Lacking[v] <= 0
  <2> SUFFICES ASSUME NEW v \in X PROVE Lacking[v] \in Int /\ Lacking[v] <= 0
    OBVIOUS
  <2>1. v \in Nodes /\ v # t
    BY <1>5, <1>6
  <2>2. Deficiency(v) <= 0
    <3>1. CASE v = s
      BY <1>3, <2>1, <3>1
    <3>2. CASE v # s
      <4>1. Deficiency(v) = 0
        BY <2>1, <3>2
      <4> QED
        BY <4>1
    <3> QED
      BY <3>1, <3>2
  <2> QED
    BY <1>3, <2>1, <2>2
<1>9. IsFiniteSet(X)
  BY <1>5, NodeSetsAreFinite
<1>10. PICK l : l = Lacking
  OBVIOUS
<1>11. \A v \in X : l[v] \in Int /\ l[v] <= 0
  BY <1>8, <1>10
<1>12. \A v \in X : l[v] = 0
  BY <1>7, <1>9, <1>10, <1>11, ZeroSum
<1>13. Deficiency(s) = 0
  BY <1>3, <1>6, <1>10, <1>12, TerminalsType
<1> QED
  BY <1>13

\* Flow is sent along a path: only its ends notice.
LEMMA PushMoves ==
  ASSUME NetInv, NEW r \in Nodes, NEW v \in Nodes, NEW p, IsWalk(p, r, v), NEW x \in Nat, PushOn(p, x)
  PROVE  div' = MovedTo(div, r, v, x)
<1>1. PICK n \in Nat : n = Len(p)
  BY DEF IsWalk, ArcsDiffer
<1>2. flow' = AlongPath(p, x, 1 .. n)
  <2>1. flow \in [Arcs -> Int] /\ x \in Int /\ ArcsDiffer(p)
    BY DEF NetInv, IsWalk
  <2> QED
    BY <1>1, <2>1, AugmentedFlow DEF PushOn
<1>3. Divergence(AlongPath(p, x, 1 .. n)) = MovedTo(Divergence(flow), r, v, x)
  <2>1. flow \in [Arcs -> Int] /\ x \in Int
    BY DEF NetInv
  <2> QED
    BY <1>1, <2>1, AlongWalkDivergence
<1> QED
  BY <1>2, <1>3 DEF PushOn, NetInv

-----------------------------------------------------------------------------
(* What is returned. *)

\* Potentials give an integer.
LEMMA DualIsInteger ==
  ASSUME IsTask, NEW p \in [Nodes -> Int]
  PROVE  DualObjective(p) \in Int
<1>1. PICK g : g = [a \in Arcs |-> Gain(p, a)]
  OBVIOUS
<1>2. PICK y : y = [v \in Nodes |-> dem[v] * p[v]]
  OBVIOUS
<1>3. DualObjective(p) = Sum(y, Nodes) + Sum(g, Arcs)
  BY <1>1, <1>2 DEF DualObjective, Gain
<1>4. ASSUME NEW v \in Nodes PROVE y[v] \in Int
  <2>1. PICK b \in Int : b = dem[v]
    BY TaskTypes
  <2>2. PICK c \in Int : c = p[v]
    OBVIOUS
  <2>3. y[v] = b * c
    BY <1>2, <2>1, <2>2
  <2> QED
    BY <2>3
<1>5. ASSUME NEW a \in Arcs PROVE g[a] \in Int
  <2>1. PICK x \in Int : x = RedLength(p, <<a, 0>>)
    <3>1. <<a, 0>> \in Darts
      BY DEF Darts
    <3> QED
      BY <3>1, RedLengthType, TaskTypes
  <2>2. PICK lo \in Int, hi \in Int : lo = lcap[a] /\ hi = ucap[a]
    BY TaskTypes
  <2>3. g[a] = IF x > 0 THEN lo * x ELSE hi * x
    BY <1>1, <2>1, <2>2 DEF Gain
  <2>4. lo * x \in Int /\ hi * x \in Int
    OBVIOUS
  <2> QED
    BY <2>3, <2>4
<1>6. Sum(y, Nodes) \in Int /\ Sum(g, Arcs) \in Int
  BY <1>4, <1>5, NodeSetsAreFinite, ArcSetsAreFinite, SumIsInteger
<1> QED
  BY <1>3, <1>6

\* InfFloat is more than any weight, than what any potentials promise, and than any way.
NumbersAreShort ==
  /\ \A f : Feasible(f) => -InfFloat <= Weight(f) /\ Weight(f) < InfFloat
  /\ DualObjective(pi) <= InfFloat
  /\ Short(Reduced(pi), Residual(0))

\* Then the optimum is infinite if and only if no flow meets the demands.
LEMMA OptimumIsShort ==
  ASSUME IsTask, CostTyped, NumbersAreShort
  PROVE  /\ CostOptimum \in Int /\ -InfFloat <= CostOptimum /\ CostOptimum <= InfFloat
         /\ (CostOptimum = InfFloat <=> \A f : ~Feasible(f))
         /\ DualObjective(pi) \in Int /\ DualObjective(pi) <= CostOptimum
<1>1. pi \in [Nodes -> Int] /\ InfFloat \in Nat
  BY InfFloatType DEF CostTyped
<1>2. /\ CostOptimum \in Int /\ CostOptimum <= InfFloat
      /\ \A f : Feasible(f) => CostOptimum <= Weight(f)
      /\ CostOptimum # InfFloat => \E f : Feasible(f) /\ CostOptimum = Weight(f)
  BY OptimumIsLeast
<1>3. \A f : Feasible(f) => Weight(f) \in Int /\ -InfFloat <= Weight(f) /\ Weight(f) < InfFloat
  BY <1>1, DualIsBound DEF NumbersAreShort
<1>4. DualObjective(pi) \in Int /\ DualObjective(pi) <= InfFloat
  BY <1>1, DualIsInteger DEF NumbersAreShort
<1>5. CostOptimum = InfFloat <=> \A f : ~Feasible(f)
  BY <1>1, <1>2, <1>3
<1>6. -InfFloat <= CostOptimum
  BY <1>1, <1>2, <1>3
<1>7. DualObjective(pi) <= CostOptimum
  BY <1>1, <1>2, <1>4, DualIsBelow
<1> QED
  BY <1>2, <1>4, <1>5, <1>6, <1>7

\* The bounds that are published are right.
Enclosing == low \in Int /\ high \in Int /\ low <= CostOptimum /\ CostOptimum <= high

\* The end of a call.
Concluded ==
  IF CostOptimum = InfFloat THEN ret = InfFloat /\ low = InfFloat /\ high = InfFloat
  ELSE /\ div = dem /\ Cheap(0) /\ ~failed /\ ret = Weight(flow)
       /\ ret = CostOptimum /\ low = ret /\ high = ret

\* What depends on the task only.
LEMMA TaskIsKept ==
  ASSUME UNCHANGED <<task, ucap, lcap>>
  PROVE  (IsTask => IsTask') /\ CostOptimum' = CostOptimum /\ dem' = dem /\ len' = len
<1>1. task' = task /\ ucap' = ucap /\ lcap' = lcap
  OBVIOUS
<1>2. CostOptimum' = CostOptimum
  BY <1>1 DEF CostOptimum, Problem, LeastWeights, Candidates, LegalFlows, WeightOf, Divergence
<1> QED
  BY <1>1, <1>2 DEF IsTask, dem, len

\* A better lower bound.
LEMMA LowerBoundIsRight ==
  ASSUME IsTask, CostTyped, NumbersAreShort, Enclosing, ~failed,
         SetLowerBound(DualObjective(pi)), UNCHANGED <<task, ucap, lcap>>
  PROVE  Enclosing' /\ ~failed'
<1>1. PICK o \in Int : o = CostOptimum
  BY OptimumIsShort
<1>2. PICK x \in Int : x = DualObjective(pi) /\ x <= o
  BY <1>1, OptimumIsShort
<1>3. /\ low' = Greatest(low, x) /\ high' = Least(high, high)
      /\ failed' = (failed \/ x > high \/ high < low)
  BY <1>2 DEF SetLowerBound, SetBounds
<1>4. low \in Int /\ high \in Int /\ low <= o /\ o <= high
  BY <1>1 DEF Enclosing
<1>5. low' \in Int /\ high' \in Int /\ low' <= o /\ o <= high'
  BY <1>2, <1>3, <1>4 DEF Greatest, Least
<1>6. ~failed'
  <2>1. ~(x > high) /\ ~(high < low)
    BY <1>2, <1>4
  <2> QED
    BY <1>3, <2>1, Zenon
<1>7. CostOptimum' = o
  BY <1>1, TaskIsKept
<1> QED
  BY <1>5, <1>6, <1>7 DEF Enclosing

\* A flow that meets the demands, with potentials that fit, is cheapest.
LEMMA FlowMeetsDemands ==
  ASSUME NetInv, IsTask, CostTyped, NumbersAreShort, div = dem, Cheap(0)
  PROVE  /\ CostOptimum # InfFloat /\ CostOptimum \in Int
         /\ Weight(flow) = CostOptimum /\ DualObjective(pi) = CostOptimum
<1>1. Feasible(flow)
  BY DEF NetInv, Legal, Feasible
<1>2. Compatible(pi)
  BY DEF Cheap, Compatible
<1>3. /\ Weight(flow) \in Int /\ DualObjective(pi) = Weight(flow)
      /\ \A f : Feasible(f) => Weight(flow) <= Weight(f)
  BY <1>1, <1>2, SlackFlowIsCheapest DEF CostTyped
<1>4. CostOptimum # InfFloat /\ CostOptimum \in Int
  BY <1>1, OptimumIsShort
<1>5. PICK f : Feasible(f) /\ CostOptimum = Weight(f)
  BY <1>4, OptimumIsLeast
<1>6. CostOptimum <= Weight(flow) /\ Weight(flow) <= CostOptimum
  BY <1>1, <1>3, <1>5, OptimumIsLeast
<1> QED
  BY <1>3, <1>4, <1>6

\* The call ends with such a flow.
LEMMA FlowConcludes ==
  ASSUME NetInv, IsTask, CostTyped, NumbersAreShort, Enclosing, ~failed, div = dem, Cheap(0),
         SetBounds(DualObjective(pi), Weight(flow)), ret' = Weight(flow),
         UNCHANGED <<task, ucap, lcap, flow, div, pi>>
  PROVE  Concluded' /\ Enclosing'
<1>1. PICK o \in Int : o = CostOptimum /\ o # InfFloat
  BY FlowMeetsDemands
<1>2. Weight(flow) = o /\ DualObjective(pi) = o
  BY <1>1, FlowMeetsDemands
<1>3. low' = Greatest(low, o) /\ high' = Least(high, o) /\ failed' = (failed \/ o > high \/ o < low)
  BY <1>2 DEF SetBounds
<1>4. low \in Int /\ high \in Int /\ low <= o /\ o <= high
  BY <1>1 DEF Enclosing
<1>5. low' = o /\ high' = o
  BY <1>3, <1>4 DEF Greatest, Least
<1>6. ~failed'
  <2>1. ~(o > high) /\ ~(o < low)
    BY <1>4
  <2> QED
    BY <1>3, <2>1, Zenon
<1>7. CostOptimum' = o /\ dem' = dem /\ len' = len
  BY <1>1, TaskIsKept
<1>8. Weight(flow)' = o
  BY <1>2, <1>7 DEF Weight
<1>9. Cheap(0)'
  BY <1>7 DEF Cheap, Residual, ResCap, Capacity, RedLength
<1>10. Enclosing'
  BY <1>5, <1>7 DEF Enclosing
<1>11. Concluded'
  BY <1>1, <1>2, <1>5, <1>6, <1>7, <1>8, <1>9 DEF Concluded
<1> QED
  BY <1>10, <1>11

\* The call ends without any.
LEMMA NoFlowConcludes ==
  ASSUME Enclosing, CostOptimum = InfFloat, Infeasible, UNCHANGED <<task, ucap, lcap>>
  PROVE  Concluded' /\ Enclosing'
<1>1. InfFloat \in Int
  BY InfFloatType
<1>2. low' = Greatest(low, InfFloat) /\ high' = Least(high, InfFloat) /\ ret' = InfFloat
  BY DEF Infeasible, SetBounds
<1>3. low \in Int /\ high \in Int /\ low <= InfFloat /\ InfFloat <= high
  BY DEF Enclosing
<1>4. low' = InfFloat /\ high' = InfFloat
  BY <1>1, <1>2, <1>3 DEF Greatest, Least
<1>5. CostOptimum' = InfFloat
  BY TaskIsKept
<1> QED
  BY <1>1, <1>2, <1>4, <1>5 DEF Concluded, Enclosing

\* If some flow meets the demands, and no node lacks anything, so does this one.
LEMMA NothingLacksMeetsDemands ==
  ASSUME NetInv, CostTyped, \A v \in Nodes : Deficiency(v) = 0
  PROVE  div = dem
<1>1. div \in [Nodes -> Int] /\ dem \in [Nodes -> Int]
  BY DivergenceType DEF NetInv, CostTyped
<1>2. \A v \in Nodes : div[v] = dem[v]
  BY <1>1 DEF Deficiency
<1> QED
  BY <1>1, <1>2

-----------------------------------------------------------------------------
(* The methods that augment along cheapest paths end with a cheapest flow. *)

\* Their calls.  A flow between two nodes has more units to be sent from the one to the other;
\* without scaling, the potentials of the call fit.
CheapCall ==
  /\ CheapMethod
  /\ task.method = "SAP" => StartsCheap
  /\ task.method = "EDMONDS_KARP" =>
       \E x \in Nat : task.dem = MovedTo(Divergence(task.flow), s, t, x)

\* What remains to be sent between the two nodes.
SendsRest == \E x \in Nat : dem = MovedTo(div, s, t, x) /\ (stage = "path" => x = rest)

\* What the nodes lack that lack something.
Surplus == [v \in Nodes |-> Greatest(Deficiency(v), 0)]

\* All of that.
Remaining == Sum(Surplus, Nodes)

\* The inductive invariant: bounds that are right; what remains to be sent; and, at the end,
\* a flow which the potentials prove to be cheapest.
CostInv ==
  CheapCall =>
    /\ IsTask /\ Enclosing /\ stage # "rejected"
    /\ stage \in {"verify", "done"} => Concluded
    /\ stage \in {"start", "saturate", "path", "balance"} => ~failed
    /\ task.method = "EDMONDS_KARP" /\ stage \in {"start", "path"} => SendsRest
    /\ task.method = "SAP" =>
         /\ limit = 0
         /\ stage \in {"start", "saturate"} => Cheap(0)
         /\ stage \in {"saturate", "path"} => rest = Remaining
    /\ stage = "balance" =>
         Cheap(0) /\ (CostOptimum # InfFloat => \A v \in Nodes : Deficiency(v) = 0)

\* It holds at first.
LEMMA InitCost ==
  ASSUME FlowInit, NumbersAreShort
  PROVE  CostInv
<1> SUFFICES ASSUME CheapCall PROVE CostInv
  BY DEF CostInv
<1>1. CostInit
  <2>1. ~MaxFlowInit
    BY DEF MaxFlowInit, NoTask, CheapCall, CheapMethod, Scaled
  <2> QED
    BY <2>1 DEF FlowInit
<1>2. CheapInv
  BY InitCheap
<1>3. NetInv /\ CostTyped
  BY <1>2 DEF CheapInv, CheapCall
<1>4. IsTask
  BY <1>1 DEF CostInit, IsTask
<1>5. stage = "start"
  <2>1. task.method \in Between \cup Scaled /\ task.method # "BFLOW"
    BY DEF CheapCall, CheapMethod, Between, Scaled
  <2>2. stage = CASE task.method = "BFLOW" -> "maxflow"
                  [] task.method \in Between \cup Scaled -> "start"
                  [] OTHER -> "phase1"
    BY <1>1 DEF CostInit
  <2> QED
    BY <2>1, <2>2, Zenon
<1>6. Enclosing /\ ~failed /\ limit = 0
  <2>1. low = -InfFloat /\ high = InfFloat /\ limit = 0 /\ ~failed
    BY <1>1 DEF FlowInit, CostInit
  <2> QED
    BY <1>3, <1>4, <2>1, OptimumIsShort, InfFloatType DEF Enclosing
<1>7. task.method = "SAP" => Cheap(0)
  <2>1. flow = task.flow /\ pi = task.pi
    BY <1>1 DEF CostInit
  <2> QED
    BY <1>3, <1>4, <2>1, StartIsCheap DEF CheapCall
<1>8. task.method = "EDMONDS_KARP" => SendsRest
  <2>1. flow = task.flow /\ div = Divergence(flow)
    BY <1>1 DEF CostInit
  <2> QED
    BY <1>5, <2>1 DEF CheapCall, SendsRest, dem
<1> QED
  BY <1>4, <1>5, <1>6, <1>7, <1>8 DEF CostInv

\* The call does not become another one.
LEMMA CallStays ==
  ASSUME CheapInv, [FlowNext]_flowVars
  PROVE  CheapCall' => CheapCall /\ task' = task
<1>1. CASE FlowNext
  <2>1. CheapMethod' => CheapMethod /\ task' = task
    BY <1>1, TaskStays
  <2> QED
    BY <2>1 DEF CheapCall, StartsCheap, Divergence, MovedTo
<1>2. CASE UNCHANGED flowVars
  <2>1. task' = task
    BY <1>2 DEF flowVars, cost
  <2> QED
    BY <2>1 DEF CheapCall, CheapMethod, StartsCheap, Divergence, MovedTo
<1> QED
  BY <1>1, <1>2

\* What depends on flow and potentials.
FlowParts == <<task, ucap, lcap, flow, div, pi>>

\* It stays, if these do.
LEMMA PartsStay ==
  ASSUME UNCHANGED FlowParts
  PROVE  /\ UNCHANGED <<task, ucap, lcap>> /\ Cheap(0)' = Cheap(0) /\ Surplus' = Surplus
         /\ \A v : Deficiency(v)' = Deficiency(v)
         /\ Weight(flow)' = Weight(flow)
         /\ \A x : (dem = MovedTo(div, s, t, x)) => (dem' = MovedTo(div', s, t, x))
<1>1. task' = task /\ ucap' = ucap /\ lcap' = lcap /\ flow' = flow /\ div' = div /\ pi' = pi
  BY DEF FlowParts
<1>2. len' = len /\ dem' = dem
  BY <1>1 DEF len, dem
<1>3. Cheap(0)' = Cheap(0)
  BY <1>1, <1>2 DEF Cheap, Residual, ResCap, Capacity, RedLength
<1>4. \A v : Deficiency(v)' = Deficiency(v)
  BY <1>1, <1>2 DEF Deficiency
<1>5. Surplus' = Surplus
  BY <1>4 DEF Surplus
<1>6. Weight(flow)' = Weight(flow)
  BY <1>1, <1>2 DEF Weight
<1> QED
  BY <1>1, <1>2, <1>3, <1>4, <1>5, <1>6

\* Nothing that counts changes.
LEMMA CostUnchanged ==
  ASSUME CostInv, CheapCall, UNCHANGED FlowParts, UNCHANGED <<low, high, failed, ret, rest, limit, stage>>
  PROVE  CostInv'
<1>1. /\ low' = low /\ high' = high /\ failed' = failed /\ ret' = ret /\ rest' = rest
      /\ limit' = limit /\ stage' = stage /\ task' = task /\ div' = div
  BY DEF FlowParts
<1>2. /\ UNCHANGED <<task, ucap, lcap>> /\ Cheap(0)' = Cheap(0) /\ Surplus' = Surplus
      /\ \A v : Deficiency(v)' = Deficiency(v)
      /\ Weight(flow)' = Weight(flow)
      /\ \A x : (dem = MovedTo(div, s, t, x)) => (dem' = MovedTo(div', s, t, x))
  BY PartsStay
<1>3. (IsTask => IsTask') /\ CostOptimum' = CostOptimum /\ dem' = dem
  BY <1>2, TaskIsKept
<1>4. Enclosing => Enclosing'
  BY <1>1, <1>3 DEF Enclosing
<1>5. Concluded => Concluded'
  BY <1>1, <1>2, <1>3 DEF Concluded
<1>6. SendsRest => SendsRest'
  BY <1>1, <1>2 DEF SendsRest
<1>7. Remaining' = Remaining
  BY <1>2 DEF Remaining
<1> QED
  BY <1>1, <1>2, <1>3, <1>4, <1>5, <1>6, <1>7 DEF CostInv

\* What holds before a step of such a call.
LEMMA CallFacts ==
  ASSUME CheapInv, CostInv, CheapCall
  PROVE  /\ NetInv /\ CostTyped /\ IsTask /\ Enclosing /\ running /\ pc = "off" /\ limit \in Nat
         /\ task.method \in {"EDMONDS_KARP", "CAPA", "SAP"}
         /\ task.method = "EDMONDS_KARP" => limit = 0 /\ rest \in Int
         /\ task.method = "EDMONDS_KARP" /\ stage \in {"start", "path"} => Cheap(0)
         /\ task.method \in Scaled /\ stage = "path" => Cheap(limit)
         /\ stage \in {"start", "saturate", "path", "balance"} => ~failed
<1>1. CheapMethod
  BY DEF CheapCall
<1> QED
  BY <1>1 DEF CheapInv, CostInv, CheapMethod, Scaled

\* Edmonds and Karp's method starts.
LEMMA StartBetweenCost ==
  ASSUME CheapInv, CostInv, CheapCall, StartBetween
  PROVE  CostInv'
<1>1. /\ task.method = "EDMONDS_KARP" /\ stage = "start" /\ Cheap(0) /\ IsTask /\ Enclosing
      /\ SendsRest /\ ~failed /\ NetInv /\ CostTyped
  <2>1. task.method = "EDMONDS_KARP" /\ stage = "start"
    BY CallFacts DEF StartBetween, Between
  <2> QED
    BY <2>1, CallFacts DEF CostInv
<1>2. Compatible(pi)
  BY <1>1 DEF Cheap, Compatible
<1>3. /\ stage' = "path" /\ pi' = pi /\ rest' = Deficiency(t) /\ task' = task
      /\ ucap' = ucap /\ lcap' = lcap /\ flow' = flow /\ div' = div
      /\ low' = low /\ high' = high /\ failed' = failed
  BY <1>1, <1>2 DEF StartBetween, network
<1>4. UNCHANGED <<task, ucap, lcap>>
  BY <1>3
<1>5. CostOptimum' = CostOptimum /\ dem' = dem /\ IsTask'
  BY <1>1, <1>4, TaskIsKept
<1>6. Enclosing'
  BY <1>1, <1>3, <1>5 DEF Enclosing
<1>7. PICK x \in Nat : dem = MovedTo(div, s, t, x)
  BY <1>1 DEF SendsRest
<1>8. div[t] \in Int
  BY <1>1, TerminalsType, DivergenceType DEF NetInv
<1>9. dem[t] = div[t] + x
  BY <1>7, <1>8, TerminalsType DEF MovedTo
<1>10. Deficiency(t) = x
  BY <1>8, <1>9 DEF Deficiency
<1>11. SendsRest'
  BY <1>3, <1>5, <1>7, <1>10 DEF SendsRest
<1> QED
  BY <1>1, <1>3, <1>5, <1>6, <1>11 DEF CostInv

\* To move flow once, and once more.
LEMMA MovedTwice ==
  ASSUME NEW D \in [Nodes -> Int], NEW r \in Nodes, NEW v \in Nodes, NEW x \in Int, NEW y \in Int
  PROVE  /\ MovedTo(MovedTo(D, r, v, x), r, v, y - x) = MovedTo(D, r, v, y)
         /\ MovedTo(D, r, v, 0) = D
<1>1. PICK g \in [Nodes -> Int] : g = MovedTo(D, r, v, x)
  <2>1. MovedTo(D, r, v, x) \in [Nodes -> Int]
    BY DEF MovedTo
  <2> QED
    BY <2>1
<1>2. ASSUME NEW w \in Nodes
      PROVE  g[w] + (IF w = v THEN y - x ELSE 0) - (IF w = r THEN y - x ELSE 0)
               = D[w] + (IF w = v THEN y ELSE 0) - (IF w = r THEN y ELSE 0)
  <2>1. g[w] = D[w] + (IF w = v THEN x ELSE 0) - (IF w = r THEN x ELSE 0)
    BY <1>1 DEF MovedTo
  <2> QED
    BY <2>1
<1>3. MovedTo(g, r, v, y - x) = MovedTo(D, r, v, y)
  BY <1>2 DEF MovedTo
<1>4. MovedTo(D, r, v, 0) = D
  BY DEF MovedTo
<1> QED
  BY <1>1, <1>3, <1>4

\* What remains between the two nodes.
LEMMA RestIsLacking ==
  ASSUME NetInv, IsTask, NEW x \in Nat, dem = MovedTo(div, s, t, x)
  PROVE  /\ Deficiency(s) = -x /\ Deficiency(t) = x
         /\ \A v \in Nodes \ {s, t} : Deficiency(v) = 0
<1>1. div \in [Nodes -> Int] /\ s \in Nodes /\ t \in Nodes /\ s # t
  BY TerminalsType, DivergenceType DEF NetInv
<1>2. ASSUME NEW v \in Nodes
      PROVE  Deficiency(v) = (IF v = t THEN x ELSE 0) - (IF v = s THEN x ELSE 0)
  <2>1. PICK b \in Int : b = div[v]
    BY <1>1
  <2>2. dem[v] = b + (IF v = t THEN x ELSE 0) - (IF v = s THEN x ELSE 0)
    BY <2>1 DEF MovedTo
  <2> QED
    BY <2>1, <2>2 DEF Deficiency
<1> QED
  BY <1>1, <1>2

\* Edmonds and Karp's method augments.
LEMMA AugmentBetweenCost ==
  ASSUME CheapInv, CostInv, CheapCall, NumbersAreShort, AugmentBetween
  PROVE  CostInv'
<1>1. stage = "path" /\ task.method = "EDMONDS_KARP"
  BY CallFacts DEF AugmentBetween, Between
<1>2. NetInv /\ CostTyped /\ IsTask /\ Enclosing /\ ~failed /\ SendsRest /\ CheapMethod
  BY <1>1, CallFacts DEF CostInv, CheapCall
<1>3. SetLowerBound(DualObjective(pi)) /\ UNCHANGED <<task, ucap, lcap, stage>>
  BY <1>1 DEF AugmentBetween
<1>4. Enclosing' /\ ~failed'
  BY <1>2, <1>3, LowerBoundIsRight
<1>5. CostOptimum' = CostOptimum /\ dem' = dem /\ IsTask'
  BY <1>2, <1>3, TaskIsKept
<1>6. PICK d, p, x : IsSending(0, {s}, d, t, p, p, x, s) /\ x <= rest /\ rest' = rest - x
  BY <1>2, BetweenSends
<1>7. rest \in Nat /\ x \in Nat /\ dem = MovedTo(div, s, t, rest)
  BY <1>1, <1>2, <1>6 DEF SendsRest, IsSending
<1>8. div' = MovedTo(div, s, t, x)
  BY <1>2, <1>6, PushMoves DEF IsSending
<1>9. dem' = MovedTo(div', s, t, rest') /\ rest' \in Nat
  <2>1. div \in [Nodes -> Int] /\ s \in Nodes /\ t \in Nodes
    BY <1>2, TerminalsType, DivergenceType DEF NetInv
  <2>2. MovedTo(MovedTo(div, s, t, x), s, t, rest - x) = MovedTo(div, s, t, rest)
    BY <1>7, <2>1, MovedTwice
  <2> QED
    BY <1>5, <1>6, <1>7, <1>8, <2>2
<1>10. SendsRest'
  BY <1>9 DEF SendsRest
<1> QED
  BY <1>1, <1>3, <1>4, <1>5, <1>10 DEF CostInv

\* It finds no path: no flow meets the demands.
LEMMA NoPathBetweenCost ==
  ASSUME CheapInv, CostInv, CheapCall, NumbersAreShort, NoPathBetween
  PROVE  CostInv'
<1>1. stage = "path" /\ task.method = "EDMONDS_KARP" /\ rest > 0
  BY CallFacts DEF NoPathBetween, Between
<1>2. NetInv /\ CostTyped /\ IsTask /\ Enclosing /\ SendsRest /\ Cheap(0)
  BY <1>1, CallFacts DEF CostInv
<1>3. Infeasible /\ UNCHANGED <<task, ucap, lcap>> /\ stage' = "verify"
  BY DEF NoPathBetween, Infeasible
<1>4. rest \in Nat /\ dem = MovedTo(div, s, t, rest)
  BY <1>1, <1>2 DEF SendsRest
<1>5. Deficiency(s) < 0 /\ \A v \in Nodes \ {s, t} : Deficiency(v) = 0
  <2>1. Deficiency(s) = -rest /\ \A v \in Nodes \ {s, t} : Deficiency(v) = 0
    BY <1>2, <1>4, RestIsLacking
  <2> QED
    BY <1>1, <1>4, <2>1
<1>6. \A f : ~Feasible(f)
  <2> SUFFICES ASSUME NEW f, Feasible(f) PROVE FALSE
    OBVIOUS
  <2>1. Distances(Reduced(pi), Residual(0), {s})[t] # InfFloat
    BY <1>2, <1>5, TargetIsReached DEF NumbersAreShort
  <2> QED
    BY <2>1 DEF NoPathBetween
<1>7. CostOptimum = InfFloat
  BY <1>2, <1>6, OptimumIsShort
<1>8. Concluded' /\ Enclosing'
  BY <1>2, <1>3, <1>7, NoFlowConcludes
<1>9. IsTask' /\ task' = task
  BY <1>2, <1>3, TaskIsKept
<1> QED
  BY <1>1, <1>3, <1>8, <1>9 DEF CostInv

\* It is ready.
LEMMA FinishBetweenCost ==
  ASSUME CheapInv, CostInv, CheapCall, NumbersAreShort, FinishBetween
  PROVE  CostInv'
<1>1. stage = "path" /\ task.method = "EDMONDS_KARP" /\ rest <= 0
  BY CallFacts DEF FinishBetween, Between
<1>2. NetInv /\ CostTyped /\ IsTask /\ Enclosing /\ ~failed /\ SendsRest /\ Cheap(0)
  BY <1>1, CallFacts DEF CostInv
<1>3. /\ pi' = pi /\ SetBounds(DualObjective(pi), Weight(flow)) /\ ret' = Weight(flow)
      /\ stage' = "verify" /\ UNCHANGED <<task, ucap, lcap, flow, div>>
  BY <1>1 DEF FinishBetween
<1>4. rest = 0 /\ dem = MovedTo(div, s, t, rest)
  BY <1>1, <1>2 DEF SendsRest
<1>5. div = dem
  <2>1. div \in [Nodes -> Int] /\ s \in Nodes /\ t \in Nodes
    BY <1>2, TerminalsType, DivergenceType DEF NetInv
  <2>2. MovedTo(div, s, t, 0) = div
    BY <2>1, MovedTwice
  <2> QED
    BY <1>4, <2>2
<1>6. Concluded' /\ Enclosing'
  BY <1>2, <1>3, <1>5, FlowConcludes
<1>7. IsTask' /\ task' = task
  BY <1>2, <1>3, TaskIsKept
<1> QED
  BY <1>1, <1>3, <1>6, <1>7 DEF CostInv

\* Capacity scaling, and the same without scaling, start.
LEMMA StartScaledCost ==
  ASSUME CheapInv, CostInv, CheapCall, StartScaled
  PROVE  CostInv'
<1>1. stage = "start" /\ task.method \in Scaled /\ task.method # "EDMONDS_KARP"
  BY DEF StartScaled, Scaled
<1>2. IsTask /\ Enclosing /\ ~failed /\ (task.method = "SAP" => limit = 0 /\ Cheap(0))
  BY <1>1, CallFacts DEF CostInv
<1>3. /\ stage' = "saturate" /\ UNCHANGED FlowParts /\ rest' = Remaining
      /\ task.method = "SAP" => limit' = 0
  BY DEF StartScaled, network, FlowParts, Remaining, Surplus
<1>4. low' = low /\ high' = high /\ failed' = failed /\ task' = task
  BY DEF StartScaled, network
<1>5. UNCHANGED <<task, ucap, lcap>> /\ Cheap(0)' = Cheap(0) /\ Surplus' = Surplus
  BY <1>3, PartsStay
<1>6. CostOptimum' = CostOptimum /\ IsTask'
  BY <1>2, <1>5, TaskIsKept
<1>7. Enclosing'
  BY <1>2, <1>4, <1>6 DEF Enclosing
<1>8. Remaining' = Remaining
  BY <1>5 DEF Remaining
<1> QED
  BY <1>1, <1>2, <1>3, <1>4, <1>5, <1>6, <1>7, <1>8 DEF CostInv

\* Without scaling, no arc needs to be saturated.
LEMMA SaturateCost ==
  ASSUME CheapInv, CostInv, CheapCall, SaturatePhase
  PROVE  CostInv'
<1>1. stage = "saturate" /\ NetInv /\ CostTyped /\ IsTask /\ Enclosing /\ ~failed
  <2>1. stage = "saturate"
    BY DEF SaturatePhase
  <2> QED
    BY <2>1, CallFacts
<1>2. /\ stage' = "path" /\ low' = low /\ high' = high /\ failed' = failed /\ task' = task
      /\ pi' = pi /\ ucap' = ucap /\ lcap' = lcap /\ rest' = rest /\ limit' = limit
  BY DEF SaturatePhase, sending
<1>3. UNCHANGED <<task, ucap, lcap>>
  BY <1>2
<1>4. CostOptimum' = CostOptimum /\ IsTask'
  BY <1>1, <1>3, TaskIsKept
<1>5. Enclosing'
  BY <1>1, <1>2, <1>4 DEF Enclosing
<1>6. task.method # "EDMONDS_KARP"
  <2>1. CheapMethod
    BY DEF CheapCall
  <2> QED
    BY <1>1, <2>1 DEF CheapInv
<1>7. ASSUME task.method = "SAP" PROVE limit' = 0 /\ rest' = Remaining'
  <2>1. limit = 0 /\ Cheap(0) /\ rest = Remaining
    BY <1>1, <1>7 DEF CostInv
  <2>2. PICK full : full = {d \in Saturable : RedLength(pi, d) < 0}
    OBVIOUS
  <2>3. full = {}
    <3>1. \A d \in Residual(0) : RedLength(pi, d) >= 0 /\ RedLength(pi, d) \in Int
      BY <1>1, <2>1, RedLengthType DEF Cheap, Residual, CostTyped
    <3>2. Saturable = Residual(0)
      BY <2>1 DEF Saturable
    <3> QED
      BY <2>2, <3>1, <3>2
  <2>4. flow' = [a \in Arcs |-> IF <<a, 0>> \in full THEN ucap[a]
                                ELSE IF <<a, 1>> \in full THEN lcap[a] ELSE flow[a]]
    BY <2>2 DEF SaturatePhase
  <2>5. flow' = flow /\ div' = div
    <3>1. flow' = flow
      BY <1>1, <2>3, <2>4 DEF NetInv
    <3> QED
      BY <1>1, <3>1 DEF SaturatePhase, NetInv
  <2>6. UNCHANGED FlowParts
    BY <1>2, <2>5 DEF FlowParts
  <2>7. Remaining' = Remaining
    BY <2>6, PartsStay DEF Remaining
  <2> QED
    BY <1>2, <2>1, <2>7
<1> QED
  BY <1>1, <1>2, <1>4, <1>5, <1>6, <1>7 DEF CostInv

\* What one node lacks gets less, and no node gets to lack anything.
LEMMA SurplusSinks ==
  ASSUME NetInv, CostTyped, NEW r \in Nodes, NEW w \in Nodes, NEW x \in Nat,
         Deficiency(w) > 0, x <= Deficiency(w), Deficiency(r) < 0, x <= -Deficiency(r),
         div' = MovedTo(div, r, w, x), dem' = dem
  PROVE  Remaining' = Remaining - x
<1>1. PICK g : g = Surplus
  OBVIOUS
<1>2. PICK h : h = Surplus'
  OBVIOUS
<1>3. \A v \in Nodes : Deficiency(v) \in Int
  BY DeficiencyType
<1>4. div \in [Nodes -> Int] /\ dem \in [Nodes -> Int]
  BY DivergenceType DEF NetInv, CostTyped
<1>5. r # w
  BY <1>3
<1>6. ASSUME NEW v \in Nodes
      PROVE  g[v] \in Int /\ h[v] \in Int /\ h[v] = IF v = w THEN g[v] - x ELSE g[v]
  <2>1. PICK b \in Int : b = Deficiency(v)
    BY <1>3
  <2>2. Deficiency(v)' = b - (IF v = w THEN x ELSE 0) + (IF v = r THEN x ELSE 0)
    <3>1. div'[v] = div[v] + (IF v = w THEN x ELSE 0) - (IF v = r THEN x ELSE 0)
      BY DEF MovedTo
    <3>2. div[v] \in Int /\ dem[v] \in Int
      BY <1>4
    <3> QED
      BY <2>1, <3>1, <3>2 DEF Deficiency
  <2>3. PICK c \in Int : c = Deficiency(v)'
    BY <2>2
  <2>4. g[v] = (IF b > 0 THEN b ELSE 0) /\ h[v] = (IF c > 0 THEN c ELSE 0)
    BY <1>1, <1>2, <2>1, <2>3 DEF Surplus, Greatest
  <2>5. CASE v = w
    <3>1. c = b - x /\ b > 0 /\ x <= b
      BY <1>5, <2>1, <2>2, <2>3, <2>5
    <3> QED
      BY <2>4, <2>5, <3>1
  <2>6. CASE v = r
    <3>1. c = b + x /\ b < 0 /\ x <= -b
      BY <1>5, <2>1, <2>2, <2>3, <2>6
    <3> QED
      BY <1>5, <2>4, <2>6, <3>1
  <2>7. CASE v # w /\ v # r
    <3>1. c = b
      BY <2>2, <2>3, <2>7
    <3> QED
      BY <2>4, <2>7, <3>1
  <2> QED
    BY <2>5, <2>6, <2>7
<1>7. Sum(h, Nodes) = Sum(g, Nodes) + (-x)
  <2>1. /\ -x \in Int /\ \A v \in Nodes : g[v] \in Int
        /\ h[w] = g[w] + (-x) /\ \A v \in Nodes \ {w} : h[v] = g[v]
    BY <1>6
  <2> QED
    BY <2>1, NodeSetsAreFinite, SumOfChanged
<1>8. Sum(g, Nodes) \in Int
  BY <1>6, NodeSetsAreFinite, SumIsInteger
<1>9. Sum(h, Nodes) = Sum(g, Nodes) - x
  BY <1>7, <1>8
<1> QED
  BY <1>1, <1>2, <1>9 DEF Remaining

\* If nothing remains, no node lacks anything.
LEMMA NothingRemains ==
  ASSUME NetInv, CostTyped, Remaining <= 0
  PROVE  \A v \in Nodes : Deficiency(v) <= 0
<1>1. PICK g : g = Surplus
  OBVIOUS
<1>2. \A v \in Nodes : Deficiency(v) \in Int
  BY DeficiencyType
<1>3. PICK h : h = [v \in Nodes |-> g[v] * (-1)]
  OBVIOUS
<1>4. \A v \in Nodes : /\ g[v] = IF Deficiency(v) > 0 THEN Deficiency(v) ELSE 0
                       /\ g[v] \in Int /\ h[v] = g[v] * (-1) /\ h[v] \in Int /\ h[v] <= 0
  BY <1>1, <1>2, <1>3 DEF Surplus, Greatest
<1>5. Sum(h, Nodes) = Sum(g, Nodes) * (-1)
  <2>1. -1 \in Int /\ \A v \in Nodes : g[v] \in Int /\ h[v] = g[v] * (-1)
    BY <1>4
  <2> QED
    BY <2>1, NodeSetsAreFinite, SumOfMultiples
<1>6. Sum(g, Nodes) \in Int /\ Sum(g, Nodes) <= 0
  BY <1>1, <1>4, NodeSetsAreFinite, SumIsInteger DEF Remaining
<1>7. Sum(h, Nodes) >= 0
  BY <1>5, <1>6
<1>8. \A v \in Nodes : h[v] = 0
  BY <1>4, <1>7, NodeSetsAreFinite, ZeroSum
<1> QED
  BY <1>2, <1>4, <1>8

\* Capacity scaling augments.
LEMMA AugmentPhaseCost ==
  ASSUME CheapInv, CostInv, CheapCall, NumbersAreShort, AugmentPhase
  PROVE  CostInv'
<1>1. stage = "path" /\ task.method \in Scaled /\ task.method # "EDMONDS_KARP"
  BY DEF AugmentPhase, Scaled
<1>2. NetInv /\ CostTyped /\ IsTask /\ Enclosing /\ ~failed /\ CheapMethod
  BY <1>1, CallFacts DEF CheapCall
<1>3. SetLowerBound(DualObjective(pi)) /\ UNCHANGED <<task, ucap, lcap, stage, limit>>
  BY DEF AugmentPhase
<1>4. Enclosing' /\ ~failed'
  BY <1>2, <1>3, LowerBoundIsRight
<1>5. CostOptimum' = CostOptimum /\ dem' = dem /\ IsTask'
  BY <1>2, <1>3, TaskIsKept
<1>6. PICK S : S = Supersaturated
  OBVIOUS
<1>7. PICK d, w, q, p, x, r :
        /\ IsSending(limit, S, d, w, q, p, x, r)
        /\ Deficiency(w) > 0 /\ x <= Deficiency(w) /\ Deficiency(r) < 0 /\ x <= -Deficiency(r)
        /\ rest' = IF task.method = "SAP" THEN rest - x ELSE rest
  BY <1>2, <1>6, PhaseSends
<1>8. div' = MovedTo(div, r, w, x)
  BY <1>2, <1>7, PushMoves DEF IsSending
<1>9. Remaining' = Remaining - x
  BY <1>2, <1>5, <1>7, <1>8, SurplusSinks DEF IsSending
<1>10. task.method = "SAP" => limit' = 0 /\ rest' = Remaining'
  BY <1>1, <1>3, <1>7, <1>9 DEF CostInv
<1> QED
  BY <1>1, <1>3, <1>4, <1>5, <1>10 DEF CostInv

\* The last phase ends only when no node lacks anything, if some flow meets the demands.
LEMMA EndPathPhaseCost ==
  ASSUME CheapInv, CostInv, CheapCall, NumbersAreShort, EndPathPhase
  PROVE  CostInv'
<1>1. stage = "path" /\ task.method \in Scaled /\ task.method # "EDMONDS_KARP"
  BY DEF EndPathPhase, Scaled
<1>2. /\ NetInv /\ CostTyped /\ IsTask /\ Enclosing /\ ~failed /\ running /\ limit \in Nat
      /\ Cheap(limit)
  BY <1>1, CallFacts
<1>3. UNCHANGED FlowParts /\ task' = task
  BY DEF EndPathPhase, FlowParts
<1>4. UNCHANGED <<task, ucap, lcap>> /\ Cheap(0)' = Cheap(0) /\ \A v : Deficiency(v)' = Deficiency(v)
  BY <1>3, PartsStay
<1>5. CostOptimum' = CostOptimum /\ IsTask'
  BY <1>2, <1>4, TaskIsKept
<1>6. Enclosing' /\ ~failed'
  <2>1. CASE Searching
    <3>1. SetLowerBound(DualObjective(pi))
      BY <1>2, <2>1 DEF EndPathPhase
    <3> QED
      BY <1>2, <1>4, <3>1, LowerBoundIsRight
  <2>2. CASE ~Searching
    <3>1. low' = low /\ high' = high /\ failed' = failed
      BY <2>2 DEF EndPathPhase
    <3> QED
      BY <1>2, <1>5, <3>1 DEF Enclosing
  <2> QED
    BY <2>1, <2>2
<1>7. stage' = IF limit = 0 THEN "balance" ELSE "saturate"
  BY DEF EndPathPhase
<1>8. task.method = "SAP" => limit = 0 /\ limit' = 0 /\ rest = Remaining
  <2>1. limit' = limit \div 2
    BY DEF EndPathPhase, Halved
  <2> QED
    BY <1>1, <2>1 DEF CostInv
<1>9. ASSUME limit = 0, CostOptimum # InfFloat PROVE \A v \in Nodes : Deficiency(v) = 0
  <2>1. PICK f : Feasible(f)
    BY <1>2, <1>9, OptimumIsLeast
  <2>2. CASE Searching
    <3>1. \A w \in Deficient : PhaseDistances[w] = InfFloat
      BY <1>2, <2>2 DEF EndPathPhase
    <3>2. Cheap(0)
      BY <1>2, <1>9
    <3> QED
      BY <1>2, <1>9, <2>1, <3>1, <3>2, NothingIsLacking DEF NumbersAreShort
  <2>3. CASE ~Searching
    <3>1. task.method = "SAP" /\ ~(rest > 0)
      BY <1>1, <2>3 DEF Searching, Scaled
    <3>2. Remaining \in Int
      <4>1. PICK g : g = Surplus
        OBVIOUS
      <4>2. \A v \in Nodes : g[v] \in Int
        BY <1>2, <4>1, DeficiencyType DEF Surplus, Greatest
      <4>3. Sum(g, Nodes) \in Int
        BY <4>2, NodeSetsAreFinite, SumIsInteger
      <4> QED
        BY <4>1, <4>3 DEF Remaining
    <3>3. Remaining <= 0
      BY <1>8, <3>1, <3>2
    <3>4. \A v \in Nodes : Deficiency(v) <= 0
      BY <1>2, <3>3, NothingRemains
    <3> QED
      BY <1>2, <2>1, <3>4, LacksCancel
  <2> QED
    BY <2>2, <2>3
<1>10. stage' = "balance" =>
         Cheap(0)' /\ ((CostOptimum # InfFloat)' => \A v \in Nodes : Deficiency(v)' = 0)
  BY <1>2, <1>4, <1>5, <1>7, <1>9
<1> QED
  BY <1>1, <1>3, <1>5, <1>6, <1>7, <1>8, <1>10 DEF CostInv

\* Then it is ready.
LEMMA EndScaledCost ==
  ASSUME CheapInv, CostInv, CheapCall, NumbersAreShort, EndScaled
  PROVE  CostInv'
<1>1. stage = "balance"
  BY CallFacts DEF EndScaled
<1>2. /\ NetInv /\ CostTyped /\ IsTask /\ Enclosing /\ ~failed /\ Cheap(0)
      /\ CostOptimum # InfFloat => \A v \in Nodes : Deficiency(v) = 0
  BY <1>1, CallFacts DEF CostInv
<1>3. UNCHANGED FlowParts /\ UNCHANGED <<task, ucap, lcap, flow, div, pi>> /\ task' = task
  BY DEF EndScaled, FlowParts
<1>4. IsTask' /\ (task.method = "SAP" => limit' = 0)
  <2>1. limit' = limit /\ (task.method = "SAP" => limit = 0)
    BY DEF EndScaled, sending, CostInv
  <2> QED
    BY <1>2, <1>3, <2>1, TaskIsKept
<1>5. CASE \E v \in Nodes : Deficiency(v) # 0
  <2>1. CostOptimum = InfFloat /\ Infeasible
    BY <1>2, <1>5 DEF EndScaled
  <2>2. Concluded' /\ Enclosing' /\ stage' = "verify"
    BY <1>2, <1>3, <2>1, NoFlowConcludes DEF Infeasible
  <2> QED
    BY <1>3, <1>4, <2>2 DEF CostInv
<1>6. CASE \A v \in Nodes : Deficiency(v) = 0
  <2>1. /\ SetBounds(DualObjective(pi), Weight(flow)) /\ ret' = Weight(flow) /\ stage' = "verify"
    BY <1>6 DEF EndScaled
  <2>2. div = dem
    BY <1>2, <1>6, NothingLacksMeetsDemands
  <2>3. Concluded' /\ Enclosing'
    BY <1>2, <1>3, <2>1, <2>2, FlowConcludes
  <2> QED
    BY <1>3, <1>4, <2>1, <2>3 DEF CostInv
<1> QED
  BY <1>5, <1>6

\* The check of the result finds nothing.
LEMMA CheckCostKeeps ==
  ASSUME CheapInv, CostInv, CheapCall, CheckCost
  PROVE  CostInv'
<1>1. /\ NetInv /\ CostTyped /\ IsTask /\ Enclosing /\ Concluded
      /\ task.method = "SAP" => limit = 0
  <2>1. stage = "verify"
    BY DEF CheckCost
  <2> QED
    BY <2>1, CallFacts DEF CostInv
<1>2. /\ UNCHANGED FlowParts /\ stage' = "done" /\ task' = task /\ div' = div
      /\ low' = low /\ high' = high /\ ret' = ret /\ limit' = limit
  BY DEF CheckCost, FlowParts, sending
<1>3. /\ UNCHANGED <<task, ucap, lcap>> /\ Cheap(0)' = Cheap(0) /\ Weight(flow)' = Weight(flow)
  BY <1>2, PartsStay
<1>4. CostOptimum' = CostOptimum /\ dem' = dem /\ IsTask'
  BY <1>1, <1>3, TaskIsKept
<1>5. Enclosing'
  BY <1>1, <1>2, <1>4 DEF Enclosing
<1>6. ASSUME CostOptimum # InfFloat PROVE ~failed'
  <2>1. div = dem /\ Cheap(0) /\ ~failed
    BY <1>1, <1>6 DEF Concluded
  <2>2. Compatible(pi)
    BY <2>1 DEF Cheap, Compatible
  <2>3. \A v \in Nodes : Deficiency(v) = 0
    <3>1. div \in [Nodes -> Int]
      BY <1>1, DivergenceType DEF NetInv
    <3> QED
      BY <2>1, <3>1 DEF Deficiency
  <2> QED
    BY <2>1, <2>2, <2>3, Zenon DEF CheckCost
<1>7. Concluded'
  <2>1. CASE CostOptimum = InfFloat
    BY <1>1, <1>2, <1>4, <2>1 DEF Concluded
  <2>2. CASE CostOptimum # InfFloat
    <3>1. div = dem /\ Cheap(0) /\ ret = Weight(flow) /\ ret = CostOptimum /\ low = ret /\ high = ret
      BY <1>1, <2>2 DEF Concluded
    <3>2. ~failed'
      BY <1>6, <2>2
    <3> QED
      BY <1>2, <1>3, <1>4, <2>2, <3>1, <3>2 DEF Concluded
  <2> QED
    BY <2>1, <2>2
<1> QED
  BY <1>1, <1>2, <1>4, <1>5, <1>7 DEF CostInv

\* Each step keeps the invariant.
LEMMA NextCost ==
  ASSUME CheapInv, CostInv, CheapCall => NumbersAreShort, [FlowNext]_flowVars
  PROVE  CostInv'
<1> SUFFICES ASSUME CheapCall' PROVE CostInv'
  BY DEF CostInv
<1>1. CheapCall /\ task' = task
  BY CallStays
<1>2. CheapMethod
  BY <1>1 DEF CheapCall
<1>3. CASE UNCHANGED flowVars
  <2>1. UNCHANGED FlowParts /\ UNCHANGED <<low, high, failed, ret, rest, limit, stage>>
    BY <1>3 DEF flowVars, vars, network, cost, sending, FlowParts
  <2> QED
    BY <1>1, <2>1, CostUnchanged
<1>4. CASE FlowNext
  <2>1. \/ StartBetween \/ AugmentBetween \/ NoPathBetween \/ FinishBetween \/ StartScaled
        \/ SaturatePhase \/ AugmentPhase \/ EndPathPhase \/ EndScaled \/ CheckCost
        \/ UNCHANGED flowVars
    BY <1>2, <1>4, CheapSteps
  <2> QED
    BY <1>1, <1>3, <2>1, StartBetweenCost, AugmentBetweenCost, NoPathBetweenCost,
       FinishBetweenCost, StartScaledCost, SaturateCost, AugmentPhaseCost, EndPathPhaseCost,
       EndScaledCost, CheckCostKeeps
<1> QED
  BY <1>3, <1>4

\* What the invariant says of the result.
LEMMA CostIsShown ==
  ASSUME CheapInv, CostInv, CheapCall
  PROVE  FlowIsCheapest /\ ValuesAreEnclosed
<1>1. /\ NetInv /\ Enclosing /\ stage # "rejected"
      /\ stage \in {"start", "saturate", "path", "balance", "verify", "done", "rejected"}
      /\ stage = "done" => Concluded
  <2>1. CheapMethod
    BY DEF CheapCall
  <2> QED
    BY <2>1, CallFacts DEF CheapInv, CostInv
<1>2. ValuesAreEnclosed
  BY <1>1 DEF ValuesAreEnclosed, Enclosing
<1>3. FlowIsCheapest
  BY <1>1 DEF FlowIsCheapest, Concluded, NetInv, Cheap, Compatible
<1> QED
  BY <1>2, <1>3

\* As long as the numbers are short, the invariant holds.
LEMMA CostStays == FlowSpec /\ [](CheapCall => NumbersAreShort) => [](CheapInv /\ CostInv)
<1>1. FlowInit /\ (CheapCall => NumbersAreShort) => CostInv
  BY InitCost DEF CostInv
<1>2. CheapInv /\ CostInv /\ (CheapCall => NumbersAreShort) /\ [FlowNext]_flowVars => CostInv'
  BY NextCost
<1>3. FlowInit => CheapInv
  BY InitCheap
<1>4. CheapInv /\ [FlowNext]_flowVars => CheapInv'
  BY NextCheap
<1> QED
  BY <1>1, <1>2, <1>3, <1>4, PTL DEF FlowSpec

\* The methods that augment along cheapest paths end with a cheapest flow that meets the
\* demands, or with none if there is none.
THEOREM CheapPathsFindCheapestFlows ==
  FlowSpec /\ [](CheapCall => NumbersAreShort) => [](CheapCall => FlowIsCheapest)
<1>1. CheapInv /\ CostInv => (CheapCall => FlowIsCheapest)
  BY CostIsShown
<1> QED
  BY <1>1, CostStays, PTL

\* The bounds that these methods publish are on both sides of the optimum at any time.
THEOREM CheapPathsEncloseOptimum ==
  FlowSpec /\ [](CheapCall => NumbersAreShort) => [](CheapCall => ValuesAreEnclosed)
<1>1. CheapInv /\ CostInv => (CheapCall => ValuesAreEnclosed)
  BY CostIsShown
<1> QED
  BY <1>1, CostStays, PTL
==============================================================================
