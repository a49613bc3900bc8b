------------------------------ MODULE MCMinTree ------------------------------
(* Four nodes with nested cycles that do not pass the root. *)
EXTENDS MinTree

MCArcs == {"01", "02", "12", "21", "23", "31", "30"}

MCFrom == [a \in MCArcs |-> CASE a \in {"01", "02"} -> 0
                              [] a = "12" -> 1
                              [] a \in {"21", "23"} -> 2
                              [] OTHER -> 3]

MCTo == [a \in MCArcs |-> CASE a = "30" -> 0
                            [] a \in {"01", "21", "31"} -> 1
                            [] a \in {"02", "12"} -> 2
                            [] OTHER -> 3]

MCLengths == [a \in MCArcs |-> CASE a \in {"21", "23"} -> {1} [] a \in {"30", "31"} -> {2} [] OTHER -> {1, 2}]

(* The graph as it is, with a single arc at the root, with the root as a cut node. *)
MCMissing == {{}, {"02", "30"}, {"23", "31"}}

MCMandatory == {{}, {"12"}, {"23", "30"}, {"01", "31"}, {"12", "21"}}

(* Every method, with and without a cycle, some of them to maximize; Edmonds' method on
   directed graphs, too. *)
MCCalls ==
  ({"PRIM", "PRIM2", "KRUSKAL"} \X BOOLEAN \X {1} \X {FALSE})
    \cup {<<"PRIM", FALSE, -1, FALSE>>, <<"PRIM2", TRUE, -1, FALSE>>,
          <<"KRUSKAL", TRUE, -1, FALSE>>, <<"EDMONDS", FALSE, 1, FALSE>>}
    \cup ({"EDMONDS"} \X BOOLEAN \X {1} \X {TRUE})

(* Edmonds' method, to maximize. *)
MCMaxCalls == {<<"EDMONDS", FALSE, -1, TRUE>>}
=============================================================================
