----------------------------- MODULE NestedSets -----------------------------
(***************************************************************************)
(* What a nestedFamily object promises to its clients (the comments of     *)
(* include/nestedFamily.h): a laminar family of sets over the items        *)
(* 0 .. N-1, in which a set is an item of the sets above it.  Set(v) is    *)
(* the outermost set that holds v.  Blocking a set hides it until it is    *)
(* unblocked: its members are outermost meanwhile.                         *)
(***************************************************************************)
EXTENDS Naturals, Sequences, SequencesExt

CONSTANTS N, M              \* real items, sets

Reals     == 0 .. (N - 1)
Sets      == N .. (N + M - 1)
Items     == Reals \cup Sets
UNDEFINED == N + M

\* Outcomes of an operation that returns no item, as numbers that are none.
Void       == N + M + 1     \* returned normally
ERRejected == N + M + 2     \* threw this exception

VARIABLES present,          \* the sets in use
          holder,           \* the set an item was merged into, UNDEFINED: none
          fixed,            \* the sets that take no more items
          blocked,          \* the sets blocked, the one blocked last at the end
          ret               \* what the last operation returned or threw

vars == <<present, holder, fixed, blocked, ret>>

Members(s) == {v \in Items : holder[v] = s}

\* The set around v that no set holds but blocked ones.
Outermost(v) ==
  LET up[w \in Items] ==
        IF holder[w] \in ToSet(blocked) \cup {UNDEFINED} THEN w ELSE up[holder[w]]
  IN  up[v]

Init == /\ present = {}
        /\ holder = [v \in Items |-> UNDEFINED]
        /\ fixed = {}
        /\ blocked = <<>>
        /\ ret = Void

MakeSet(s) == /\ s \in Sets \ present
              /\ present' = present \cup {s}
              /\ ret' = s
              /\ UNCHANGED <<holder, fixed, blocked>>

Merge(s, v) == /\ s \in present \ fixed
               /\ v \in Reals \cup fixed
               /\ holder[v] = UNDEFINED
               /\ holder' = [holder EXCEPT ![v] = s]
               /\ ret' = Void
               /\ UNCHANGED <<present, fixed, blocked>>

FixSet(s) == /\ s \in present \ fixed
             /\ Members(s) # {}
             /\ fixed' = fixed \cup {s}
             /\ ret' = Void
             /\ UNCHANGED <<present, holder, blocked>>

Set(v) == /\ ret' = IF v \in Reals \cup present THEN Outermost(v) ELSE UNDEFINED
          /\ UNCHANGED <<present, holder, fixed, blocked>>

Split(s) == /\ s \in fixed
            /\ holder[s] = UNDEFINED
            /\ present' = present \ {s}
            /\ fixed' = fixed \ {s}
            /\ holder' = [v \in Items |-> IF v \in Members(s) THEN UNDEFINED ELSE holder[v]]
            /\ ret' = Void
            /\ UNCHANGED blocked

Block(s) == /\ s \in fixed \ ToSet(blocked)
            /\ Outermost(s) = s
            /\ blocked' = Append(blocked, s)
            /\ ret' = Void
            /\ UNCHANGED <<present, holder, fixed>>

UnBlock == /\ blocked # <<>>
           /\ blocked' = Front(blocked)
           /\ ret' = Void
           /\ UNCHANGED <<present, holder, fixed>>

Reject == /\ ret' = ERRejected
          /\ UNCHANGED <<present, holder, fixed, blocked>>

Next == \/ \E s \in Sets : MakeSet(s) \/ FixSet(s) \/ Split(s) \/ Block(s)
        \/ \E s \in Sets, v \in Items : Merge(s, v)
        \/ \E v \in Items : Set(v)
        \/ UnBlock \/ Reject

Spec == Init /\ [][Next]_vars
=============================================================================
