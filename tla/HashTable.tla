----------------------------- MODULE HashTable -----------------------------
(***************************************************************************)
(* The classes goblinHashTable and goblinDictionary: slots with a key,     *)
(* linked into a chain for every hash value or into the list of free slots. *)
(* An insertion into a full table makes one of twice the size in the       *)
(* middle of the call, and enters the old entries one by one.              *)
(***************************************************************************)
EXTENDS Integers, FiniteSets, Sequences, SequencesExt

CONSTANTS Items,       \* the items (of a dictionary: its tokens), with their hash values
          Keys,
          defaultKey,
          Sizes,       \* values of nMax at the construction
          MaxSize,     \* bound on nMax
          Unset,       \* what new memory holds
          Cautious     \* callers keep away from what goes wrong

VARIABLES class,       \* "table" or "dictionary"
          T,           \* nMax, nHash, UNDEFINED, first, next, index, key, free, nz
          call         \* the last call

vars == <<class, T, call>>

NoIndex == -1

UNDEFINED(nHash) == IF class = "table" THEN nHash ELSE NoIndex

HashSize(nMax) == IF class = "table" THEN 2 * nMax ELSE 2 * nMax + 1

\* The arrays and Init().
Fresh(nMax) ==
  LET nHash == HashSize(nMax)
      end == UNDEFINED(nHash)
  IN  [nMax |-> nMax, nHash |-> nHash, UNDEFINED |-> end,
       first |-> [v \in 0 .. nHash - 1 |-> end],
       next |-> [v \in 0 .. nMax - 1 |-> IF v = nMax - 1 THEN end ELSE v + 1],
       index |-> [v \in 0 .. nMax - 1 |-> Unset], key |-> [v \in 0 .. nMax - 1 |-> Unset],
       free |-> 0, nz |-> 0]

Slots(x) == 0 .. x.nMax - 1

\* The slots that follow a link, up to the end of the chain.
Chain(x, start) ==
  LET from[v \in Slots(x) \cup {x.UNDEFINED}] ==
        IF v = x.UNDEFINED THEN <<>> ELSE <<v>> \o from[x.next[v]]
  IN  from[start]

Bucket(x, w) == w % x.nHash

\* The first slot with the item w in the chain of its hash value.
Found(x, w) ==
  LET chain == Chain(x, x.first[Bucket(x, w)])
      at == {i \in DOMAIN chain : x.index[chain[i]] = w}
  IN  IF at = {} THEN x.UNDEFINED ELSE chain[CHOOSE i \in at : \A j \in at : i <= j]

KeyOf(x, w) == IF Found(x, w) = x.UNDEFINED THEN defaultKey ELSE x.key[Found(x, w)]

-----------------------------------------------------------------------------
\* The entry of w goes to the list of free slots.  What it leaves in its slot is never read.
Unlinked(x, w) ==
  LET b == Bucket(x, w)
      v == Found(x, w)
      bypassed == IF x.first[b] = v THEN [x EXCEPT !.first[b] = x.next[v]]
                  ELSE LET y == CHOOSE u \in ToSet(Chain(x, x.first[b])) : x.next[u] = v
                       IN  [x EXCEPT !.next[y] = x.next[v]]
  IN  [bypassed EXCEPT !.next[v] = x.free, !.free = v, !.nz = @ - 1,
                       !.index[v] = Unset, !.key[v] = Unset]

Entered(x, w, alpha) ==
  LET v == x.free
  IN  [x EXCEPT !.free = x.next[v], !.index[v] = w, !.key[v] = alpha,
                !.next[v] = x.first[Bucket(x, w)], !.first[Bucket(x, w)] = v, !.nz = @ + 1]

\* The replay calls ChangeKey() for an old entry.  The one of the dictionary passes the key
\* as index and the index, which is absent, as key: that is the default key, and the call
\* returns at once.
Replayed(x, w, alpha) == IF class = "table" THEN Entered(x, w, alpha) ELSE x

\* The old entries with one hash value.
ReplayedChain(x, y, h) ==
  FoldLeft(LAMBDA z, v : Replayed(z, x.index[v], x.key[v]), y, Chain(x, x.first[h]))

\* Variant: the replay stops at the first half of the chains.
RescaledHalf(x) ==
  FoldLeft(LAMBDA y, h : ReplayedChain(x, y, h), Fresh(2 * x.nMax), [i \in 1 .. x.nMax |-> i - 1])

Rescaled(x) ==
  FoldLeft(LAMBDA y, h : ReplayedChain(x, y, h), Fresh(2 * x.nMax), [i \in 1 .. x.nHash |-> i - 1])

Full(x) == x.free = x.UNDEFINED

Stored(x, w, alpha) ==
  IF Found(x, w) # x.UNDEFINED THEN [x EXCEPT !.key[Found(x, w)] = alpha]
  ELSE Entered(IF Full(x) THEN Rescaled(x) ELSE x, w, alpha)

Init == /\ class \in {"table", "dictionary"}
        /\ \E nMax \in Sizes : T = Fresh(nMax)
        /\ call = <<>>

\* A dictionary is as large as there are labels, unless labels are changed later.
ChangeKey(w, alpha) ==
  /\ Full(T) /\ Found(T, w) = T.UNDEFINED /\ alpha # defaultKey =>
       2 * T.nMax <= MaxSize /\ (Cautious => class = "table")
  /\ T' = CASE KeyOf(T, w) = alpha -> T
            [] KeyOf(T, w) # alpha /\ alpha = defaultKey -> Unlinked(T, w)
            [] OTHER -> Stored(T, w, alpha)
  /\ call' = <<w, alpha>>

Clear == T' = Fresh(T.nMax) /\ call' = <<>>

Next == /\ UNCHANGED class
        /\ \/ Clear
           \/ \E w \in Items, alpha \in Keys \cup {defaultKey} : ChangeKey(w, alpha)

Spec == Init /\ [][Next]_vars

-----------------------------------------------------------------------------
\* The chain of a hash value, or the list of free slots.
List(x, h) == Chain(x, IF h = x.nHash THEN x.free ELSE x.first[h])

\* Every slot is in the chain of its item or in the list of free slots, and in one of them
\* once, however often entries are moved between them and into a larger table.
SlotsAreKept ==
  LET Places(v) == {p \in (0 .. T.nHash) \X (1 .. T.nMax) :
                      p[2] \in DOMAIN List(T, p[1]) /\ List(T, p[1])[p[2]] = v}
  IN  /\ \A v \in Slots(T) : \E p \in Places(v) : Places(v) = {p}
      /\ \A h \in 0 .. T.nHash - 1 : \A v \in ToSet(List(T, h)) : Bucket(T, T.index[v]) = h

Abstract == INSTANCE KeyTable WITH key <- [w \in Items |-> KeyOf(T, w)], nz <- T.nz

\* A table answers like a map from items to keys: an insertion that moves all entries to a
\* larger table, or a removal from the middle of a chain, changes one key.
ImplementsTable == Abstract!Spec /\ []SlotsAreKept
=============================================================================
