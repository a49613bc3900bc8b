------------------------------ MODULE KeyTable ------------------------------
(***************************************************************************)
(* What a hash table or a dictionary promises: every item has a key, the   *)
(* default key until ChangeKey() gives it another one.                     *)
(***************************************************************************)
EXTENDS Naturals, FiniteSets

CONSTANTS Items, Keys, defaultKey

VARIABLES key,     \* the key of every item
          nz,      \* what NZ() returns
          call     \* the last call

Counted == nz = Cardinality({w \in Items : key[w] # defaultKey})

Init == key = [w \in Items |-> defaultKey] /\ call = <<>> /\ Counted

ChangeKey(w, alpha) == key' = [key EXCEPT ![w] = alpha] /\ call' = <<w, alpha>>

Clear == key' = [w \in Items |-> defaultKey] /\ call' = <<>>

Next == /\ \/ Clear
           \/ \E w \in Items, alpha \in Keys \cup {defaultKey} : ChangeKey(w, alpha)
        /\ Counted'

Spec == Init /\ [][Next]_<<key, nz, call>>
=============================================================================
