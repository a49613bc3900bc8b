---------------------------- MODULE StaticLists ----------------------------
(***************************************************************************)
(* The classes staticQueue and staticStack: intrusive lists on the items   *)
(* 0..n-1.  A list that is constructed from another one shares its array of *)
(* links (next[], prev[]), and an array set[] says which of them an item is *)
(* in.  The solvers use them for the admissible arcs of all nodes, say.     *)
(***************************************************************************)
EXTENDS Naturals, Sequences, SequencesExt

CONSTANTS n,        \* the number of items, and the end of a list
          Slaves,   \* lists that may be derived
          Cautious  \* callers keep away from what goes wrong

VARIABLES lifo,     \* whether the lists are stacks
          q,        \* link and set; the lists that are open; for each list first
                    \* (top), last (bottom), length (depth)
          call      \* the last call, with what it has returned

vars == <<lifo, q, call>>

Items == 0 .. n - 1

Master == "master"

Lists == {Master} \cup Slaves

NULL == [i \in {} |-> {}]

\* Derived lists are not entered into the object table.
NoHandle == "NoHandle"

Handle(l) == IF l = Master THEN Master ELSE NoHandle

Init == /\ lifo \in BOOLEAN
        /\ q = [link |-> [i \in Items |-> n], set |-> NULL, open |-> {Master},
                first |-> [l \in Lists |-> n], last |-> [l \in Lists |-> n],
                length |-> [l \in Lists |-> 0]]
        /\ call = <<>>

Empty(l) == q.first[l] = n

\* The items of a list in the order in which Delete() finds them.  The last item of a queue
\* links to itself, the bottom of a stack to nothing.
Chain(x, l) ==
  LET from[i \in 0 .. n] ==
        IF i = n THEN <<>>
        ELSE IF x.link[i] = i THEN <<i>> ELSE <<i>> \o from[x.link[i]]
  IN  from[x.first[l]]

OnSomeList(l, w) == q.link[w] # n \/ (lifo /\ w = q.last[l])

-----------------------------------------------------------------------------
\* Variant: set[] is allocated without a look at the items that are listed.
DeriveBlank(l) ==
  /\ l \notin q.open
  /\ q' = [q EXCEPT !.open = @ \cup {l}, !.first[l] = n, !.last[l] = n, !.length[l] = 0,
                    !.set = IF @ # NULL THEN @ ELSE [i \in Items |-> NoHandle]]
  /\ call' = <<"clear">>

\* The copy constructor.  The first one allocates set[].
Derive(l) ==
  /\ l \notin q.open
  /\ q' = [q EXCEPT !.open = @ \cup {l},
                    !.first[l] = n, !.last[l] = n, !.length[l] = 0,
                    !.set = IF @ # NULL THEN @
                            ELSE [i \in Items |-> IF OnSomeList(Master, i) THEN Handle(Master) ELSE NoHandle]]
  /\ call' = <<"clear">>

Enqueued(l, w) ==
  LET linked == IF Empty(l) THEN q.link ELSE [q.link EXCEPT ![q.last[l]] = w]
  IN  [q EXCEPT !.link = [linked EXCEPT ![w] = w],
                !.first[l] = IF Empty(l) THEN w ELSE @, !.last[l] = w, !.length[l] = @ + 1]

Pushed(l, w) == [q EXCEPT !.link[w] = q.first[l], !.first[l] = w,
                          !.last[l] = IF q.length[l] = 0 THEN w ELSE @, !.length[l] = @ + 1]

Marked(x, l, w) == IF x.set = NULL THEN x ELSE [x EXCEPT !.set[w] = Handle(l)]

\* An item that is listed is ignored (INSERT_NO_THROW) or refused; both change nothing.  The
\* bottom of another stack is not noticed.
Insert(l, w) ==
  /\ l \in q.open
  /\ IF OnSomeList(l, w)
     THEN call' = <<"twice", w>> /\ UNCHANGED q
     ELSE /\ Cautious => \A k \in q.open \ {l} : ~lifo \/ q.last[k] # w
          /\ q' = Marked(IF lifo THEN Pushed(l, w) ELSE Enqueued(l, w), l, w)
          /\ call' = <<"put">>

Removed(x, l) ==
  LET w == x.first[l]
      after == IF x.link[w] = w THEN n ELSE x.link[w]
  IN  [x EXCEPT !.first[l] = after, !.link[w] = n, !.length[l] = @ - 1,
                !.last[l] = IF lifo /\ x.length[l] = 1 THEN n ELSE @]

Delete(l) == /\ l \in q.open /\ ~Empty(l)
             /\ q' = Removed(q, l) /\ call' = <<"item", q.first[l]>>

\* while (!Empty()) Delete()
Emptied(x, l) == FoldLeft(LAMBDA y, i : Removed(y, l), x, Chain(x, l))

Clear(l) == l \in q.open /\ q' = Emptied(q, l) /\ call' = <<"clear">>

\* The destructor of a derived list.  The one of the master gives the arrays free, and is
\* the last one to be called.
Destroy(l) == /\ l \in q.open \ {Master}
              /\ q' = [Emptied(q, l) EXCEPT !.open = @ \ {l}]
              /\ call' = <<"clear">>

\* set[] tells the master from the others, but not the others from each other.
IsMember(l, w) == \/ lifo /\ w = q.last[l]
                  \/ q.link[w] # n /\ (q.set # NULL => q.set[w] = Handle(l))

Next == /\ UNCHANGED lifo
        /\ \E l \in Lists : \/ Derive(l) \/ Destroy(l)
                            \/ Delete(l) \/ Clear(l)
                            \/ \E w \in Items : Insert(l, w)

Spec == Init /\ [][Next]_vars

-----------------------------------------------------------------------------
\* The lists that the links describe.
Listed == [l \in Lists |-> IF l \in q.open THEN Chain(q, l) ELSE <<>>]

\* Derived lists are asked for items of their own, of the master, and for others that are
\* on no list.
Asked(l) == IF l = Master THEN Items
            ELSE Items \ UNION {ToSet(Listed[k]) : k \in Lists \ {Master, l}}

Abstract == INSTANCE ItemLists WITH
              list <- Listed,
              member <- [l \in Lists |-> {w \in IF Cautious THEN Asked(l) ELSE Items :
                                            l \in q.open /\ IsMember(l, w)}],
              number <- q.length

\* Lists that share an array of links behave like separate queues (stacks) without common
\* items: to insert, delete, clear or destroy one of them leaves all others as they are.
ImplementsLists == Abstract!Spec
=============================================================================
