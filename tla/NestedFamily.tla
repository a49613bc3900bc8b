---------------------------- MODULE NestedFamily ----------------------------
(***************************************************************************)
(* The shrinking family of lib_src/nestedFamily.cpp: blossoms of the       *)
(* balanced flow solvers (lib_src/surfaceGraph.cpp) and cycles of Edmonds' *)
(* arborescence method (lib_src/solveMinTree.cpp).  It keeps one laminar   *)
(* family of sets twice: as linked lists of members, and as a forest of    *)
(* parent pointers B whose roots name the outermost set.                   *)
(*                                                                         *)
(* The object is used by one thread, so an operation is one action.        *)
(* `blocked` is not data of the object: it is the recursion of the client  *)
(* (RModLength, Traverse), which unblocks the set it has blocked last.     *)
(***************************************************************************)
EXTENDS Naturals, Sequences, SequencesExt

CONSTANTS N, M              \* constructor arguments nn and mm

Reals     == 0 .. (N - 1)
Sets      == N .. (N + M - 1)
Items     == Reals \cup Sets
UNDEFINED == N + M

\* Outcomes of an operation that returns no item, as numbers that are none.
Void       == N + M + 1     \* returned normally
ERRejected == N + M + 2     \* threw this exception

VARIABLES compress,         \* copy of methDSU made by the constructor
          B,                \* parent in the forest; UNDEFINED: set not in use
          depth,            \* rank of a root
          set,              \* the outermost set of the tree with this root
          canonical,        \* root of a set when it was fixed
          first, next,      \* member lists; the last member points to itself
          blocked,
          ret               \* what the last operation returned or threw

forest == <<B, depth, set, canonical>>
lists  == <<first, next>>
vars   == <<compress, forest, lists, blocked, ret>>

\* Type invariant.
TypeOK ==
  /\ compress \in BOOLEAN
  /\ B \in [Items -> Items \cup {UNDEFINED}]
  /\ depth \in [Items -> 1 .. N + M]
  /\ set \in [Items -> Items]
  /\ canonical \in [Sets -> Items \cup {UNDEFINED}]
  /\ first \in [Sets -> Items \cup {UNDEFINED}]
  /\ next \in [Items -> Items \cup {UNDEFINED}]
  /\ blocked \in Seq(Sets)
  /\ ret \in Items \cup {UNDEFINED, Void, ERRejected}

Present == {v \in Items : B[v] # UNDEFINED}
Fixed   == {s \in Sets \cap Present : canonical[s] # UNDEFINED}
Top(v)  == next[v] = UNDEFINED

-----------------------------------------------------------------------------
\* The items that Find(v) visits in the forest b, and the root where it ends.
Path(b, v) ==
  LET up[w \in Items] == {w} \cup IF b[w] = w THEN {} ELSE up[b[w]] IN up[v]

Root(b, v) == CHOOSE w \in Path(b, v) : b[w] = w

\* The parent pointers b after Find(v).
Compressed(b, v) ==
  IF compress
  THEN LET path == Path(b, v)
           root == Root(b, v)
       IN  [w \in Items |-> IF w \in path THEN root ELSE b[w]]
  ELSE b

SetOf(v) == set[Root(B, v)]

Members(s) ==
  LET list[v \in Items] == {v} \cup IF next[v] \in {v, UNDEFINED} THEN {} ELSE list[next[v]]
  IN  IF first[s] = UNDEFINED THEN {} ELSE list[first[s]]

\* The members of s, their members, and so on.
Below(s) ==
  LET below[t \in Items] ==
        IF t \in Reals THEN {t} ELSE {t} \cup UNION {below[u] : u \in Members(t)}
  IN  below[s]

\* The parent pointers once every member of s is the root of its own tree again.
\* Adjust() goes down the member lists, in case paths were compressed.
Released(s) ==
  LET tree(t) == {canonical[t]} \cup IF compress THEN Below(t) ELSE {t}
  IN  [v \in Items |->
         LET roots == {canonical[t] : t \in {u \in Members(s) \cap Sets : v \in tree(u)}}
         IN  IF v \in Members(s) \cap Reals THEN v
             ELSE IF roots # {} THEN CHOOSE x \in roots : TRUE ELSE B[v]]

\* The names of the trees of Released(s); a real item has kept its own.
Renamed(s) ==
  [v \in Items |-> IF \E t \in Members(s) \cap Sets : v = canonical[t]
                   THEN CHOOSE t \in Members(s) \cap Sets : v = canonical[t]
                   ELSE IF compress /\ v \in Members(s) \cap Reals THEN v
                   ELSE set[v]]

-----------------------------------------------------------------------------
\* The arrays are not initialised but for B and the entries Bud writes; MakeSet
\* writes the others before they are read.  Init() is called by the constructor only.
Init == /\ compress \in BOOLEAN
        /\ B = [v \in Items |-> IF v \in Reals THEN v ELSE UNDEFINED]
        /\ depth = [v \in Items |-> 1]
        /\ set = [v \in Items |-> v]
        /\ canonical = [s \in Sets |-> UNDEFINED]
        /\ first = [s \in Sets |-> UNDEFINED]
        /\ next = [v \in Items |-> UNDEFINED]
        /\ blocked = <<>>
        /\ ret = Void

Free == {s \in Sets : B[s] = UNDEFINED}

MakeSet(s) ==
  /\ s \in Free
  /\ \A t \in Free : s <= t
  /\ B' = [B EXCEPT ![s] = s]
  /\ depth' = [depth EXCEPT ![s] = 1]
  /\ set' = [set EXCEPT ![s] = s]
  /\ canonical' = [canonical EXCEPT ![s] = UNDEFINED]
  /\ first' = [first EXCEPT ![s] = UNDEFINED]
  /\ next' = [next EXCEPT ![s] = UNDEFINED]
  /\ ret' = s
  /\ UNCHANGED <<compress, blocked>>

MakeSetReject ==
  /\ Free = {}
  /\ ret' = ERRejected
  /\ UNCHANGED <<compress, forest, lists, blocked>>

\* Link the roots w of the item and u of the set s in the forest b.
Link(b, w, u, s) ==
  \/ /\ depth[u] < depth[w]
     /\ B' = [b EXCEPT ![u] = w]
     /\ set' = [set EXCEPT ![w] = s]
     /\ UNCHANGED depth
  \/ /\ depth[u] >= depth[w]
     /\ B' = [b EXCEPT ![w] = u]
     /\ set' = [set EXCEPT ![u] = s]
     /\ depth' = IF depth[w] = depth[u] THEN [depth EXCEPT ![u] = @ + 1] ELSE depth

MayMerge(s, v) == s \notin Fixed /\ v \in Reals \cup Fixed /\ Top(v)

\* v becomes the first member of s.
Merge(s, v) ==
  /\ {s, v} \subseteq Present
  /\ MayMerge(s, v)
  /\ LET b == Compressed(Compressed(B, v), s)
     IN  Link(b, Root(B, v), Root(B, s), s)
  /\ next' = [next EXCEPT ![v] = IF first[s] # UNDEFINED THEN first[s] ELSE v]
  /\ first' = [first EXCEPT ![s] = v]
  /\ ret' = Void
  /\ UNCHANGED <<compress, canonical, blocked>>

MergeReject(s, v) ==
  /\ {s, v} \subseteq Present
  /\ ~ MayMerge(s, v)
  /\ ret' = ERRejected
  /\ UNCHANGED <<compress, forest, lists, blocked>>

\* The set becomes an item that can be merged; its root is remembered.
FixSet(s) ==
  /\ s \in Present \ Fixed
  /\ first[s] # UNDEFINED
  /\ B' = Compressed(B, s)
  /\ canonical' = [canonical EXCEPT ![s] = Root(B, s)]
  /\ ret' = Void
  /\ UNCHANGED <<compress, depth, set, lists, blocked>>

FixReject(s) ==
  /\ s \in Present
  /\ s \in Fixed \/ first[s] = UNDEFINED
  /\ ret' = ERRejected
  /\ UNCHANGED <<compress, forest, lists, blocked>>

\* Set(v): a look-up that compresses the path of v.  A client that has blocked a
\* set asks for real items only (surfaceGraph::StartNode and EndNode).
Set(v) ==
  /\ v \in Present
  /\ v \in Reals \/ blocked = <<>>
  /\ B' = Compressed(B, v)
  /\ ret' = SetOf(v)
  /\ UNCHANGED <<compress, depth, set, canonical, lists, blocked>>

\* Variant: the trees of the members keep the name of the set.
SplitKeepsNames(s) ==
  /\ s \in Fixed
  /\ SetOf(s) = s
  /\ LET b == Released(s) IN B' = [b EXCEPT ![s] = UNDEFINED]
  /\ next' = [v \in Items |-> IF v \in Members(s) THEN UNDEFINED ELSE next[v]]
  /\ ret' = Void
  /\ UNCHANGED <<compress, depth, set, canonical, first, blocked>>

\* A set that is not in use has no set around it (surfaceGraph::HiddenNode).
SetUndefined(v) ==
  /\ v \notin Present
  /\ ret' = UNDEFINED
  /\ UNCHANGED <<compress, forest, lists, blocked>>

\* The set is dissolved into its members, and its index is free again.
Split(s) ==
  /\ s \in Fixed
  /\ SetOf(s) = s
  /\ LET b == Released(s) IN B' = [b EXCEPT ![s] = UNDEFINED]
  /\ set' = Renamed(s)
  /\ next' = [v \in Items |-> IF v \in Members(s) THEN UNDEFINED ELSE next[v]]
  /\ ret' = Void
  /\ UNCHANGED <<compress, depth, canonical, first, blocked>>

\* The check whether s is outermost has compressed the path of s.
SplitReject(s) ==
  /\ s \in Present
  /\ first[s] = UNDEFINED \/ SetOf(s) # s \/ s \notin Fixed
  /\ B' = IF first[s] = UNDEFINED THEN B ELSE Compressed(B, s)
  /\ ret' = ERRejected
  /\ UNCHANGED <<compress, depth, set, canonical, lists, blocked>>

\* Like Split, but the member list stays; clients block what Set has returned.
Block(s) ==
  /\ s \in Fixed
  /\ \E v \in Reals : SetOf(v) = s
  /\ B' = Released(s)
  /\ set' = Renamed(s)
  /\ blocked' = Append(blocked, s)
  /\ ret' = Void
  /\ UNCHANGED <<compress, depth, canonical, lists>>

\* Variant: the root keeps the name it had while the set was blocked.
UnBlockKeepsName ==
  /\ blocked # <<>>
  /\ LET s == Last(blocked)
     IN  B' = [v \in Items |-> IF v \in {IF u \in Reals THEN u ELSE canonical[u] : u \in Members(s)}
                               THEN canonical[s] ELSE B[v]]
  /\ blocked' = Front(blocked)
  /\ ret' = Void
  /\ UNCHANGED <<compress, depth, set, canonical, lists>>

\* The members of the set blocked last are hung below its root again.
UnBlock ==
  /\ blocked # <<>>
  /\ LET s == Last(blocked)
         x == canonical[s]
         hung == {IF v \in Reals THEN v ELSE canonical[v] : v \in Members(s)}
     IN  /\ B' = [v \in Items |-> IF v \in hung THEN x ELSE B[v]]
         /\ set' = [set EXCEPT ![x] = s]
  /\ blocked' = Front(blocked)
  /\ ret' = Void
  /\ UNCHANGED <<compress, depth, canonical, lists>>

Restructure ==
  \/ \E s \in Sets : MakeSet(s) \/ FixSet(s) \/ FixReject(s) \/ Split(s) \/ SplitReject(s)
  \/ \E s \in Sets, v \in Items : Merge(s, v) \/ MergeReject(s, v)
  \/ MakeSetReject

\* Nothing but look-ups happens while a client has sets blocked.
Next == \/ blocked = <<>> /\ Restructure
        \/ \E v \in Items : Set(v) \/ SetUndefined(v)
        \/ \E s \in Sets : Block(s)
        \/ UnBlock

Spec == Init /\ [][Next]_vars

-----------------------------------------------------------------------------
\* The holder of an item as the member lists have it.
Holder(v) ==
  IF \E s \in Sets \cap Present : v \in Members(s)
  THEN CHOOSE s \in Sets \cap Present : v \in Members(s) ELSE UNDEFINED

\* What the forest of the parent pointers is compared with.
Family == INSTANCE NestedSets
            WITH present <- Sets \cap Present,
                 holder  <- [v \in Items |-> Holder(v)],
                 fixed   <- Fixed

\* Ranks increase strictly along the parent pointers, so that the recursion of Find
\* ends, and the two representations agree: the forest, whatever was merged,
\* compressed, split, blocked and unblocked, names the set the member lists say.
ForestMatchesLists ==
  /\ \A v \in Present : B[v] \in Present /\ (B[v] # v => depth[v] < depth[B[v]])
  /\ \A v \in Present \ ToSet(blocked) : SetOf(v) = Family!Outermost(v)

\* The family promises what the header says of Set, Split, Block and UnBlock.
ImplementsNestedSets == Family!Spec
=============================================================================
