----------------------------- MODULE Containers -----------------------------
(***************************************************************************)
(* The containers on a fixed range of items that are not queues by         *)
(* priority: set families, static queues and stacks, hash tables and       *)
(* dictionaries.  A behaviour is that of a client with one of them; they   *)
(* do not refer to each other.                                             *)
(***************************************************************************)
EXTENDS DisjointFamily

CONSTANTS n, Slaves,                                               \* of the lists
          Tokens, Keys, defaultKey, Sizes, MaxSize, Unset,         \* of the tables
          Cautious                                                 \* of both

VARIABLES subject,                \* the container in use
          lifo, q, call,          \* the lists
          class, T, request       \* the table

ASSUME ListSize == n \in Nat

\* A table without slots divides by zero.
ASSUME TableSizes == Sizes \subseteq Nat \ {0}

ASSUME TokenValues == Tokens \subseteq Nat

Lists == INSTANCE StaticLists

Table == INSTANCE HashTable WITH Items <- Tokens, call <- request

family == <<B, rank, ret>>

lists == <<lifo, q, call>>

table == <<class, T, request>>

\* Containers that are not in use stay as one of their constructors has left them.
Begin == /\ subject \in {"family", "lists", "table"}
         /\ Init /\ Lists!Init /\ Table!Init
         /\ subject # "lists" => ~lifo
         /\ subject # "table" => class = "table" /\ \A size \in Sizes : T.nMax <= size

Step == /\ UNCHANGED subject
        /\ \/ subject = "family" /\ Next /\ UNCHANGED <<lists, table>>
           \/ subject = "lists" /\ Lists!Next /\ UNCHANGED <<family, table>>
           \/ subject = "table" /\ Table!Next /\ UNCHANGED <<family, lists>>

ContainerSpec == Begin /\ [][Step]_<<subject, family, lists, table>>

-----------------------------------------------------------------------------
\* Lists that share an array of links behave like separate queues (stacks) without common
\* items: to insert, delete, clear or destroy one of them leaves all others as they are.
ImplementsLists == Lists!ImplementsLists

\* A table answers like a map from items to keys: an insertion that moves all entries to a
\* larger table, or a removal from the middle of a chain, changes one key.  Every slot stays
\* in the chain of its item or in the list of free slots.
ImplementsTable == Table!ImplementsTable
=============================================================================
