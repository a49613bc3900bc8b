------------------------------- MODULE MCFlows -------------------------------
(* A network with four nodes, which holds a directed cycle between its inner nodes. *)
EXTENDS MinCostFlow

MCArcs == {"sa", "sb", "ab", "ba", "at", "bt"}

MCFrom == [a \in MCArcs |-> CASE a \in {"sa", "sb"} -> 0
                              [] a \in {"ab", "at"} -> 1
                              [] OTHER -> 2]

MCTo == [a \in MCArcs |-> CASE a \in {"sa", "ba"} -> 1
                              [] a \in {"sb", "ab"} -> 2
                              [] OTHER -> 3]

MCCaps == [a \in MCArcs |-> CASE a = "sa" -> {1, 2} [] a = "at" -> {2} [] OTHER -> {0, 2}]

(* Two nodes, one of which is given much more flow than the other. *)
MCUneven == [a \in MCArcs |-> CASE a = "sa" -> {1} [] a = "sb" -> {5} [] OTHER -> {0, 5}]

(* Five nodes with parallel arcs, on which excess scaling enters a node twice. *)
MCParallel == {"su", "sw", "wu", "uv", "uv2", "vt"}

MCParallelFrom == [a \in MCParallel |-> CASE a \in {"su", "sw"} -> 0 [] a = "wu" -> 1
                                          [] a \in {"uv", "uv2"} -> 2 [] OTHER -> 3]

MCParallelTo == [a \in MCParallel |-> CASE a = "sw" -> 1 [] a \in {"su", "wu"} -> 2
                                        [] a \in {"uv", "uv2"} -> 3 [] OTHER -> 4]

MCParallelCaps == [a \in MCParallel |-> CASE a = "su" -> {4} [] a \in {"sw", "wu"} -> {5}
                                          [] a = "uv" -> {2} [] a = "uv2" -> {6} [] OTHER -> {0}]

Each(sa, sb, ab, ba, at_, bt) ==
  [a \in MCArcs |-> CASE a = "sa" -> sa [] a = "sb" -> sb [] a = "ab" -> ab
                      [] a = "ba" -> ba [] a = "at" -> at_ [] OTHER -> bt]

(* Halves and quarters of epsilon, and means over one to four arcs, are whole numbers. *)
Unit == 48

MCTolerance == Unit

MCInf == 100000

MCZero == Each(0, 0, 0, 0, 0, 0)

(* Capacities with lower bounds, from which the flow starts. *)
MCCostCaps == {<<Each(2, 2, 2, 2, 2, 2), MCZero>>, <<Each(1, 2, 2, 0, 2, 2), MCZero>>,
               <<Each(2, 0, 0, 0, 2, 0), MCZero>>, <<Each(2, 2, 2, 1, 2, 2), Each(0, 0, 1, 1, 0, 0)>>}

MCLengths == {Each(1, 4, 1, 1, 5, 1), Each(1, 0, -2, 1, 0, 1), Each(-1, -1, 0, 0, -3, 2)}

MCDemands == {<<-2, 0, 0, 2>>, <<0, 0, 0, 0>>, <<-1, -1, 1, 1>>, <<-5, 0, 0, 5>>}

MCCalls(m) ==
  {[method |-> m, ucap |-> c[1], lcap |-> c[2], len |-> [a \in MCArcs |-> Unit * l[a]],
    dem |-> [v \in 0 .. 3 |-> q[v + 1]], flow |-> c[2], pi |-> [v \in 0 .. 3 |-> 0],
    label |-> [v \in 0 .. 3 |-> 0]] : c \in MCCostCaps, l \in MCLengths, q \in MCDemands}

(* Flows between two nodes, which are the only ones that have a demand. *)
MCBetween(m) == {c \in MCCalls(m) : c.dem[1] = 0}

(* Reduced lengths that are not negative, and no cycle of negative length. *)
MCSlack(C) == {c \in C : \A a \in MCArcs : c.len[a] >= 0}

MCExtreme(C) == {c \in C : c.len["ab"] + c.len["ba"] >= 0 \/ c.ucap["ba"] = c.lcap["ba"]}

MCTasks == UNION {MCCalls(m) : m \in {"CYCLE", "MEAN", "COST", "SIMPLEX", "PHASE1", "CAPA"}}
             \cup {c \in MCCalls("TIGHT") : c.len["ab"] < 0}
             \cup MCSlack(MCCalls("SAP"))
             \cup MCBetween("EDMONDS_KARP") \cup MCExtreme(MCBetween("BUSACKER_GOWEN"))
             \cup {c \in MCBetween("BFLOW") : c.len["sa"] < 0 /\ c.lcap = MCZero}

(* The darts in the order of two numberings of the arcs. *)
ByIndex(arcs) == [i \in 1 .. 2 * Len(arcs) |-> <<arcs[(i + 1) \div 2], (i + 1) % 2>>]

MCOrders == {ByIndex(<<"sa", "sb", "ab", "ba", "at", "bt">>),
             ByIndex(<<"bt", "ab", "at", "sb", "ba", "sa">>)}
=============================================================================
