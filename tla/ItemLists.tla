----------------------------- MODULE ItemLists -----------------------------
(***************************************************************************)
(* What a family of static queues or stacks that share their arrays        *)
(* promises: lists without common items, each of them first in first out,  *)
(* or last in first out.                                                   *)
(***************************************************************************)
EXTENDS Naturals, Sequences, SequencesExt

CONSTANTS Items, Lists

VARIABLES lifo,     \* stacks or queues
          list,     \* the items of every list, in the order they leave it
          member,   \* the items for which IsMember() of a list says yes
          number,   \* what Cardinality() of a list returns
          call      \* the last call, and what it has returned

Held == UNION {ToSet(list[l]) : l \in Lists}

AnswersFit == /\ member = [l \in Lists |-> ToSet(list[l])]
              /\ number = [l \in Lists |-> Len(list[l])]

Init == /\ lifo \in BOOLEAN
        /\ list = [l \in Lists |-> <<>>] /\ call = <<>> /\ AnswersFit

Put(l, w) == /\ w \notin Held
             /\ list' = [list EXCEPT ![l] = IF lifo THEN <<w>> \o @ ELSE Append(@, w)]
             /\ call' = <<"put">>

Refuse(w) == w \in Held /\ call' = <<"twice", w>> /\ UNCHANGED list

Take(l) == /\ list[l] # <<>>
           /\ list' = [list EXCEPT ![l] = Tail(@)] /\ call' = <<"item", Head(list[l])>>

Clear(l) == list' = [list EXCEPT ![l] = <<>>] /\ call' = <<"clear">>

Next == /\ UNCHANGED lifo
        /\ \E l \in Lists : \/ Take(l) \/ Clear(l)
                            \/ \E w \in Items : Put(l, w) \/ Refuse(w)
        /\ AnswersFit'

Spec == Init /\ [][Next]_<<lifo, list, member, number, call>>
=============================================================================
