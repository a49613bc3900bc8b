--------------------------- MODULE DisjointFamily ---------------------------
(***************************************************************************)
(* The disjoint set forest of lib_src/disjointFamily.cpp: parent pointers  *)
(* B with path compression, linked by rank.  Kruskal's method, the         *)
(* component labelling and the minimum cut solver run on it through        *)
(* abstractMixedGraph::Bud, Merge and Find.                                *)
(*                                                                         *)
(* The object is used by one thread, so an operation is one action.  Its   *)
(* recursion is replaced by what it computes: the tree path of an item and *)
(* the root where it ends.                                                 *)
(***************************************************************************)
EXTENDS Naturals, FiniteSets

CONSTANTS N,                \* constructor argument nn
          MethDSU,          \* context parameter methDSU: 1 = compress paths
          LogWarn           \* context parameter logWarn: range checks in Find

ASSUME ItemCount   == N \in Nat \ {0}
ASSUME MethDSUType == MethDSU \in {0, 1}
ASSUME LogWarnType == LogWarn \in BOOLEAN

Items     == 0 .. (N - 1)
UNDEFINED == N

\* Outcomes of an operation that returns no item, as numbers that are none.
Void        == N + 1        \* returned normally
ERRange     == N + 2        \* threw this exception
OutOfBounds == N + 3        \* read past the end of an array

VARIABLES B,                \* parent of an item; UNDEFINED: in no set
          rank,             \* rank of a root
          ret               \* what the last operation returned or threw

vars == <<B, rank, ret>>

Returned == Items \cup {Void, ERRange, OutOfBounds}

\* Type invariant: a parent is an item or UNDEFINED, and Find returns an item or
\* fails as the code does.
TypeOK == /\ B \in [Items -> Items \cup {UNDEFINED}]
          /\ rank \in [Items -> Nat]
          /\ ret \in Returned

-----------------------------------------------------------------------------
Live == {v \in Items : B[v] # UNDEFINED}

\* A set of live items that is closed under the parent pointers.
Closed(S) == \A w \in S : B[w] \in S

\* The items Find(v) visits: the smallest closed set that contains v.
Path(v) ==
  LET closed == {S \in SUBSET Live : v \in S /\ Closed(S)}
  IN  {w \in Live : \A S \in closed : w \in S}

Roots == {v \in Live : B[v] = v}

Root(v) == CHOOSE r \in Roots : r \in Path(v)

SetOf(r) == {v \in Live : Root(v) = r}

\* The parent pointers after Find(v): with methDSU, every item of the path
\* is hung below the root.
Compress(v) ==
  IF MethDSU = 1
  THEN LET path == Path(v)
           root == Root(v)
       IN  [w \in Items |-> IF w \in path THEN root ELSE B[w]]
  ELSE B

-----------------------------------------------------------------------------
\* rank is allocated but not initialised; Bud writes it before it is read.
Init == /\ B = [v \in Items |-> UNDEFINED]
        /\ rank = [v \in Items |-> 0]
        /\ ret = Void

Clear == /\ B' = [v \in Items |-> UNDEFINED]
         /\ ret' = Void
         /\ UNCHANGED rank

\* Every client buds an item once after Init().
Bud(v) == /\ v \notin Live
          /\ B' = [B EXCEPT ![v] = v]
          /\ rank' = [rank EXCEPT ![v] = 1]
          /\ ret' = Void

\* Variant: the rank of the surviving root is not raised on a tie.
LinkWithoutRank(C, r, s) ==
  /\ B' = IF rank[r] < rank[s] THEN [C EXCEPT ![r] = s] ELSE [C EXCEPT ![s] = r]
  /\ UNCHANGED rank

\* Link the roots r and s of two trees, the parent pointers being C.
Link(C, r, s) ==
  \/ /\ rank[r] < rank[s]
     /\ B' = [C EXCEPT ![r] = s]
     /\ UNCHANGED rank
  \/ /\ rank[r] >= rank[s]
     /\ B' = [C EXCEPT ![s] = r]
     /\ rank' = IF rank[r] = rank[s] /\ r # s
                THEN [rank EXCEPT ![r] = @ + 1] ELSE rank

\* Variant: the items are linked instead of the roots of their trees.
MergeItems(u, v) ==
  /\ {u, v} \subseteq Live
  /\ Link(B, u, v)
  /\ ret' = Void

\* Both paths are compressed before the roots are linked.
Merge(u, v) ==
  /\ {u, v} \subseteq Live
  /\ LET first  == Compress(u)
         second == Compress(v)
     IN  Link([w \in Items |-> IF first[w] # B[w] THEN first[w] ELSE second[w]],
              Root(u), Root(v))
  /\ ret' = Void

\* The check of Merge does not depend on logWarn.
MergeReject(u, v) ==
  /\ ~ ({u, v} \subseteq Live)
  /\ ret' = ERRange
  /\ UNCHANGED <<B, rank>>

Find(v) == /\ v \in Live
           /\ B' = Compress(v)
           /\ ret' = Root(v)
           /\ UNCHANGED rank

\* On an item in no set, Find throws if logWarn is set; otherwise it goes on
\* with B[UNDEFINED], one past the end of the array.
FindUndefined(v) ==
  /\ v \notin Live
  /\ ret' = IF LogWarn THEN ERRange ELSE OutOfBounds
  /\ UNCHANGED <<B, rank>>

Next == \/ Clear
        \/ \E v \in Items : Bud(v) \/ Find(v) \/ FindUndefined(v)
        \/ \E u, v \in Items : Merge(u, v) \/ MergeReject(u, v)

Spec == Init /\ [][Next]_vars

-----------------------------------------------------------------------------
\* Ranks increase strictly from an item to its parent: the recursion of Find
\* ends, whatever the order of merges and compressions was.
RanksIncrease ==
  \A v \in Live : /\ B[v] \in Live
                  /\ B[v] # v => rank[v] < rank[B[v]]

\* The forest implements the partition of the header's comments: merges
\* unite exactly two sets, and no Find changes a canonical element although
\* it moves items in the forest.
Sets == INSTANCE Partition
          WITH canon <- [v \in Items |-> IF v \in Live THEN Root(v) ELSE UNDEFINED]

ImplementsPartition == Sets!Spec

\* include/disjointFamily.h:37 promises of Init(): "After this operation, it
\* is Find(v)==UNDEFINED for every element v".
FindOfFreshItem ==
  [][\A v \in Items : FindUndefined(v) /\ ret' # ret => ret' = UNDEFINED]_vars

=============================================================================
