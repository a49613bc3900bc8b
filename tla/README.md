# A verification project for the GOBLIN graph library

GOBLIN (`src/goblin.2.8b30/`) is a C++ library of graph optimization
algorithms (`lib_src/`, `include/`), a shell `gosh` that gives its objects and
solvers to Tcl scripts and runs solvers in threads (`shell_src/`), the browser
GOBLET, which is written in Tcl/Tk on top of the shell (`tcl/`), and a few
command line tools (`main_src/`).  This directory holds TLA+ models of those
parts of it where an order of steps decides about correctness, TLC
configurations that check them on small instances, and proofs that TLAPS checks
for all instances.

Contents:
1 The system and its components ·
2 What is hard in it ·
3 Modules, and how they correspond to the code ·
4 Runs: what each one checks, its bounds and what it shows ·
5 Fairness ·
6 Proofs ·
7 Findings and further counterexamples ·
8 What is not modelled ·
9 Plan

Paths are relative to `src/goblin.2.8b30/`.

## 1 The system and its components

### Concurrent parts: shell, messenger, browser

| component | state | operations | works with |
|---|---|---|---|
| Working threads (`shell_src/goshMain.cpp`) | the thread table `GoblinThreadData[]` (thread ID, interpreter, return code; entry 0 is the master's), the solver state `signalHalt` (IDLE, PENDING, RUNNING, STOPPED), `interprCounter`, the flag `destroyThread` | `$goblin solver thread script` reserves an entry and creates a thread; `solver return` waits for its end and reads the result; the thread makes an interpreter of its own, evaluates the script, tears the interpreter down | `CallSolver` (`tcl/menuOptimize.tk`) starts jobs and polls for their end; graph objects are shared between interpreters |
| Trace handshake (`shell_src/messenger.cpp`, `goshMain.cpp`) | `traceEvent`, `cTraceFile`, the controller's log level, break level and file counter; in the browser `SingleStep`, `TraceLock`, the last file shown | the solver writes a trace file, signals it and spins until the event is taken back; the browser polls, shows the file, waits for a step button | solver thread, polling loop of `CallSolver`, step buttons (`tcl/mainIconbars.tk`) |
| Message buffer (`shell_src/messenger.cpp`) | parallel arrays of message attributes, linked by `qNext`; first, last, free and current entry | append (with eviction of the oldest), sweep, reset, skip, end-of-buffer test, getters | any thread appends; the browser reads it in a pass (`UploadMessages`, `tcl/mainMessenger.tk`) |
| Controller (`lib_src/goblinController.cpp`) | context parameters, object table, log stream, levels | log filter, configuration, object bookkeeping | everything |

The threads share the messenger, the controller and the graph objects.  Some
methods of the messenger hold a lock for the whole call, some for a part of it;
the thread table, the flag and the counter have none.

### Data structures of the solvers

| component | state | operations | clients |
|---|---|---|---|
| Disjoint set forest (`lib_src/disjointFamily.cpp`) | parent and rank of every item | Init, Bud, Merge, Find | Kruskal, connected components, minimum cuts |
| Nested family (`lib_src/nestedFamily.cpp`) | a forest as above, with the name and the canonical item of every tree; the member list of every set | MakeSet, Merge, FixSet, Split, Block, UnBlock, Find | matching and balanced flow (`surfaceGraph.cpp`), Edmonds' arborescences |
| Priority queues (`basicHeap.cpp`, `binaryHeap.cpp`, `fibonacciHeap.cpp`) | a sorted list; an array heap with an index; a forest of heap-ordered trees | Insert, Delete, Delete(w), ChangeKey, Peek, Key, Init | Dijkstra, Prim, minimum cuts, minimum cost flow |
| Static queues and stacks (`staticQueue.cpp`, `staticStack.cpp`) | links on the items `0..n-1`; a list that is constructed from another one shares its array of links, and an array `set[]` tells which list an item is in | Insert, Delete, Init, IsMember, derive, destroy | push and relabel, layered networks, surface graphs |
| Hash tables, dictionaries (`hashTable.cpp`, `dictionary.cpp`) | slots, chained by hash value or in the list of free slots | Key, ChangeKey (which may enlarge the table), Init | adjacencies, sparse matrices, labels of LP rows and columns |
| Dynamic queues and stacks, index sets, attribute pools | cells, ranges, arrays | container operations | graph objects and all solvers |
| Sparse representation (`sparseRepresentation.cpp`, `include/attribute.h`) | circular incidence lists, the embedding, arc labels and lists of control points, all by index | insert, cancel, delete, contract, identify, swap, flip, reorder, release | graph objects, planarity, drawing, import |
| Other graph objects (`abstractMixedGraph.cpp`, `denseRepresentation.cpp`, ...) | node and arc attributes | accessors, constructors, displays | solvers, import and export |

### Algorithms

| component | state | operations |
|---|---|---|
| Maximum flow (`solveMaxFlow.cpp`, `auxiliaryNetwork.cpp`, `abstractDigraph.cpp`) | flow, divergences, labels, active nodes, admissible arcs, layered network | push and relabel in three variants, augmentation in three variants, check of the result |
| Minimum spanning trees (`solveMinTree.cpp`, `libConvert.cpp`) | predecessor labels, subgraph, keys, partition or nested family | Prim (two variants), Kruskal, Edmonds; spanning and one cycle trees |
| Shortest paths (`solveSPTree.cpp`) | labels, predecessors, queue | Dijkstra, Bellman and Ford, FIFO label correcting, search of acyclic graphs |
| Branch and bound scheme (`branchScheme.cpp`) | list of active nodes, saved objective, best bound, feasibility flag, bounds of the module guard | inspect, queue, select, branch, strip, certify |
| Its clients (MIP, TSP, colouring, max cut, stable set) | a relaxation per branch node | relax, choose a variable, raise, lower, local search |
| Minimum cost flow (`solveMCFlow.cpp`, `networkSimplex.cpp`, `digraphToDigraph.cpp`) | flow, divergences, potentials, labels, bounds; active nodes and admissible arcs; a spanning tree with thread, depths and potentials | ten methods behind two interfaces, search of an admissible flow, check of the result |
| Matchings, cuts, connectivity, planarity, drawing | potentials, predecessors, flow | one solver call |
| Module guards (`moduleGuard.cpp`) | nested modules, lower and upper bound, progress | start, bound, shut down |

### What makes each of them correct

* *Working threads*: scripts exclude each other; every thread has a table entry
  of its own; a caller gets the result of its own job; a graph that an alias
  points to and the messenger survive the tear-down of a thread; every job ends.
* *Trace handshake*: frames are shown in order and before the solver goes on; a
  solver that waits is released; the loop of the browser ends with the job, and
  not before.
* *Message buffer*: it is a queue of the latest messages, whoever writes; a line
  of the browser comes from one message.
* *Set families*: they implement a partition (a laminar family) whose canonical
  elements no look-up changes; look-ups end, after logarithmically many steps.
* *Static lists*: lists that share their links do not disturb each other.  *Tables*: a
  table is a map from items to keys, whatever is inserted, removed and moved.
* *Priority queues*: `Delete` returns an item of smallest key, in every order of
  calls; the representation stays ordered and the trees balanced.
* *Sparse representation*: every incidence list is a ring, no control point has two
  owners, and a call changes what its declaration says and nothing else, although
  the indices of all other items may change.
* *Maximum flow*: the result is a flow and no flow is larger; the published bounds
  enclose the optimum at all times; no active node and no admissible arc is lost.
* *Minimum cost flow*: the result meets the demands and is the cheapest such flow; potentials and
  both bounds prove it; infeasibility is reported if and only if there is no such flow; a
  simplex basis stays strongly feasible, so that pivots without progress do not go round.
* *Spanning trees*: no choice has to be taken back; shrinking a cycle changes
  nothing about the problem; the labels and the subgraph are the same optimal tree.
* *Shortest paths*: a label is never too short, and exact in the end; a settled node
  stays settled; a negative cycle is reported if and only if there is one.
* *Branch and bound*: no optimal solution is lost, the bounds that are certified
  enclose the optimum, also of a search that is interrupted, no node is used
  after it has been deleted, and the search ends.

## 2 What is hard in it

`PROJECT.json` lists the hazards with the lines where they bite.  The kinds are:

* **Interleavings without a lock**: `interprCounter--` and its test,
  `destroyThread`, the entry a thread looks up before its creator has stored it,
  `breakLevel` written by a button and read by the solver.
* **Order of signals**: IDLE is signalled before the interpreter is torn down;
  RUNNING overwrites a stop request; the trace event is raised before the file
  name is stored; an event is raised between a test and `vwait`.
* **Check, unlock, use**: getters of the messenger test the position under the
  lock and read the arrays after it.
* **Partial failure**: a full thread table, `pthread_create` that fails, a script
  that aborts.
* **Resource limits**: the buffer evicts the entry the browser may be at; the node
  limit of branch and bound.
* **Stale representation**: path compression in nested sets that are split later,
  indices and minimum pointers of heaps, nodes deleted by `StripQueue` while they
  are still referenced, the cached best bound.
* **Names that come again**: the counter in the names of trace files starts anew.
* **Indices that move**: every deletion moves the last item into the gap, while a
  loop of the caller holds indices.
* **Long protocols**: activation of nodes, degrees in a layered network, modified
  lengths of nested cycles, labels that change while they are read.
* **Structures that change while they are read**: the thread of a simplex tree is spliced by the
  depths of the old tree; relabelling makes arcs of two nodes admissible.
* **Numeric edges**: `1e50 + epsilon - 1 = 1e50`, signs in front of epsilon,
  rounding of scaling factors, the count of passes, `-w` of an unsigned index.

The graph algorithms themselves are sequential, but the order in which they meet
arcs, nodes of equal key and active nodes is an accident of their data structures.
The modules leave it open, so what they show does not depend on it.

## 3 Modules, and how they correspond to the code

`PROJECT.json` ("map") gives the source lines of every definition.  Definitions
that a comment calls *Variant* are bugs one might make at that place; each
property is shown to notice one of them.

| module | models | form |
|---|---|---|
| `Partition` | what a disjoint set family promises (header comments) | abstract specification |
| `DisjointFamily` | `disjointFamily` | one action per method; implements `Partition` |
| `ItemLists` | what static queues and stacks promise | abstract specification |
| `StaticLists` | `staticQueue`, `staticStack` and the lists derived from them | one action per method; implements `ItemLists` |
| `KeyTable` | what hash tables promise | abstract specification |
| `HashTable` | `goblinHashTable`, `goblinDictionary` | one action per method; implements `KeyTable` |
| `Containers` | a client of a set family, of a list or of a table | composes `DisjointFamily`, `StaticLists` and `HashTable` |
| `Containers_proofs` | | proofs about the set family, the lists and the tables |
| `SolverThread`, `MCSolverThread` | thread table, jobs and solver state | one action per access to shared state |
| `SolverThread_proofs` | | proofs |
| `TraceHandshake` | solver thread, polling loop and user at trace points | one action per locked section, Tcl command or button; with proofs |
| `MessageQueue` | the message queue of the manual | abstract specification |
| `Messenger` | the buffer, and the browser's pass over it | one action per locked section; implements `MessageQueue` |
| `Messenger_proofs` | | proofs |
| `PriorityQueue` | what `goblinQueue` promises | abstract specification |
| `BasicHeap`, `BinaryHeap`, `FibonacciHeap` | the three heaps | one action per method, on one record of state |
| `NodeHeap` | the client's choice among them (`NewNodeHeap`, `methPQ`) and its calls | composes the three by INSTANCE; implements `PriorityQueue` |
| `NestedSets` | a laminar family of sets | abstract specification |
| `NestedFamily` | `nestedFamily` | one action per method; implements `NestedSets` |
| `PlaneMap` | what the methods of a sparse graph promise, without indices | abstract specification, as operators on maps |
| `SparseGraph` | `sparseRepresentation`, the attributes below it, labels and bounding boxes above it | one action per method |
| `MixedGraph` | arcs, reverse arcs and incidences as the solvers see them | constants and operators |
| `Network`, `PushRelabel`, `AugmentingPaths` | flow, capacities, the six methods | one action per push, relabel, augmentation, deletion |
| `MaxFlow` | `MaxFlow()` | composes the methods |
| `MaxFlow_proofs` | | proofs |
| `CostPaths` | lengths, demands, potentials, dual objective, the bounds of the module guard, searches for paths and negative cycles; Edmonds and Karp, Busacker and Gowen, capacity scaling, successive shortest paths, both ways of cancelling cycles | one action per augmentation or phase |
| `CostScaling` | `MCF_CostScaling` | one action per discharged node |
| `NetworkSimplex` | `MCF_NWSimplex`, class `networkSimplex` | one action per arc that is read, cycle that is shrunk or expanded, pivot |
| `MinCostFlow`, `MCFlows` | `MinCostSTFlow()`, `MinCostBFlow()`, `AdmissibleBFlow()` | composes the methods, and `MaxFlow()` |
| `SpanningTree`, `GreedyTree`, `Branching` | the tree problem, the methods of Prim, Kruskal and Edmonds | one action per node, arc or shrunk cycle |
| `MinTree`, `MCMinTree` | `MinTree()` with `ExtractTree()` and `AddToSubgraph()` | composes the methods |
| `MinTree_proofs` | | proofs |
| `ShortestPath`, `MCShortestPath` | `ShortestPath()`, `NegativeCycle()`, `DAGSearch()` | one action per node or arc that is read |
| `ShortestPath_proofs` | | proofs |
| `BranchScheme` | the branch and bound scheme | one action per inspection, branching, end test |
| `BranchScheme_proofs` | | proofs |

Some correspondences that are not obvious:

**DisjointFamily.** An object is used by one thread, so a method is one action.
The recursion of `Find` is replaced by what it computes: `Path(v)` is the
smallest closed set around `v`, `Root(v)` the root in it (non-recursive, so that
it can be proved about).  `Merge` compresses both paths before it links.  The
outcomes of the range checks are values of `ret`.  The refinement hides the
forest behind the canonical element of every item.

**StaticLists.** `link` is `next[]` of a queue (where the last item links to itself) and
`prev[]` of a stack (where the bottom links to nothing, so that it looks like an item that
is on no list).  `call` holds what a call returns; an item that is listed is refused or
ignored, depending on the argument of `Insert()`, and both change nothing.  The refinement
mapping follows the links.  Derived lists have no handle, so `IsMember()` does not tell
them from each other: with `Cautious` it is asked only about items a list may have.

**HashTable.** The two classes differ in the size of the hash array, in the value that ends
a chain, and in `Rescale()`: both replay the old entries by `ChangeKey()`, but that of the
dictionary passes its arguments in another order (section 7), which loses all of them.
With `Cautious` only tables are filled beyond `nMax`.  A token is the hash value of its
characters.  The loop of the replay is a fold over the old chains, each a fold over its slots.
`SlotsAreKept` (each slot is once in the chain of its item or in the free list) is checked
together with the refinement.

**SolverThread.** `pc[j]` follows job `j` from `new` through `asked` (the
entry is reserved), `wait` (the thread looks for its entry), the construction of
its interpreter, the script, and the tear-down, to `gone`.  `starting` is where
the master is within the command that starts a job.  `loops` is the stack of
`CallSolver` frames: a `vwait` of one of them may run another.  A script is one
step.  `objectAlive` and `sharedAlive` say whether a graph with an alias
in the master and the messenger have been deleted.  `interprCounter--` is a read
and a write (`register`), as it compiles.  `setting` holds the session: how many jobs
and table entries, whether the user is *patient* (starts a job only when the last
thread has gone), whether `pthread_create` may fail and scripts may abort.
Assumption: callers ask for an idle solver (`Guarded`), as all menus do.

**TraceHandshake.** A trace file is named by the file counter, which starts anew after
`LastFile` (10000 in the code, `goblinController.h:421`), so names come again and files are
written again; the browser compares names only.  `disk` says which frame each file
holds and `screen` which one is shown; frames are numbered as they are written, which the
program does not do, and only properties compare the numbers.  A file is
written, and read for display, in one step.  When the job begins the file counter need not match
the file that was announced last, since the browser sets it, too (`menuLayout.tk:663`).
`canvas`, the four step buttons and the stop button are the user.  The *careful*
user presses a step button when the browser waits for one; the *free* user at any
time.  Drawing is left out, and the communication level is fixed during a job.

**Messenger.** A call that holds the lock is one step.  The getters that give it
back before they read are two (one stands for the four that are alike).  What a
writer passes is the number of its call, the text of an entry the sequence of the
calls that contributed to it.  `Entries` is the refinement mapping: slots are
taken by increasing index, so the k-th entry has a closed form.

**Heaps.** Each module has its state in one record, so that `NodeHeap` can hold
any of them in one variable.  `Contents` maps each to the set of queued items with
keys.  `NodeHeap` has two clients: one that makes any sequence of calls on four
items, and one that fills the heap with nine items, and decreases keys while it
takes them out, since only large Fibonacci trees can violate the balance, which is a
part of `InOrder`.

**NestedFamily.** The sets are kept as member lists and as a compressed forest.
`blocked` is the recursion of the clients, which unblock what they blocked last.
`ForestMatchesLists` compares the forest with the lists, and says that the ranks
(`depth`) grow along the parent pointers.  `Released` and `Renamed` are `Adjust()`; the object copies `methDSU` when it is
constructed (`compress`).

**SparseGraph.** The state is the object's arrays in one record, a method an operator
from states to states, since methods call each other.  `edge` and `id` say which item
an index stood for before the call: they are what the attributes (coordinates, lengths,
names) do, which move with their items.  `MapOf` forgets the indices, and
`CallsActOnTheMap` compares what each method makes of the arrays with what `PlaneMap`
says it does to the drawn graph, in every reachable state and for all arguments.  It
is the refinement of one call, stated for all calls at once.  `Careful` restricts the
callers where the code has the defects of section 7: they exchange arcs in places
that `SwapArcs` handles, and draw control points only next to arc labels.

**MixedGraph.** The index 2a stands for the arc a, 2a+1 for its reverse arc; here a
dart is a pair.  Arcs are read from an incidence list in any order.

**MaxFlow.** `Push()` keeps `div` up to date.  `Q` is the set of active nodes: the FIFO
variant is any order, the others select by label or by excess scaling.  `admissible`
holds the arcs a node has still to try.  A search of the network is one step that
yields any shortest path.  In the layered network of Dinic's method `into` and `degree`
are the arcs into a node that may still be used (`prop`) and their number
(`currentDegree`), and the path search, the augmentation and
the deletion of dead nodes are actions of their own.  Wherever a method asks
`CT.SolverRunning()` it may be stopped.  `lower` and `upper` are the bounds of the module
guard, which the user sees meanwhile.  Every legal flow may be there before the call.

**Minimum cost flow.** A call is a record (`task`): network, demands, and the flow, potentials and
labels that are there before.  `stage` is the place in the solver, `pc` that of the maximum flow
which comes first when the target has a finite demand and the default method is chosen
(`SwitchToBFlow`).  `AdmissibleBFlow()` is one step to any flow whose nodes lack least, which is
what a maximum flow of the network it builds is.  A search is one step, too: `Distances`
and `ShortestTo` give the labels and any of the paths it may have found.  For negative cycles
and for cycles of least mean it matters which labels a search leaves behind, so
`NegativeCycle` and `MinimumMeanCycle` read the arcs as the code does, in any of the `Orders` of
the incidence lists.  In `CostScaling` the heap has equal keys for ever, so any active node is
next.  In `NetworkSimplex` any eligible arc may be the pivot arc, which covers all pricing
rules; the trees that are shrunk and expanded are followed step by step, and a pivot follows the
code's two walks through tree and thread.  Lengths are multiples of `Unit`, so that halves of
epsilon and mean values are whole numbers.

**MinTree.** A heap is the set of its members and gives any of least key.  In
`Branching` a node and the cycles that were shrunk are numbered together as in the
code; `outer` is the nested family.  `Inf` absorbs what is added to it.  The result is
followed to the end: `AddToSubgraph()`, and `ExtractTree()`, which reads the
predecessor labels back from the subgraph.  The problem itself is stated by
enumeration (`Solutions`, `Optima`).

**ShortestPath.** A label that is infinite is missing from `labelled`.  Lengths belong
to darts, so that residual networks with reduced lengths are instances, too.
`NoSuchItem` is the exception of `ChangeKey` for a node that has left the heap.

**BranchScheme.** A branch node is what the scheme sees of it: the bound of its
relaxation, the number of free variables, and what `Feasible()` says; and one
thing it does not see, the best objective of the solutions below it.  The client
is an oracle that chooses these values within the rules of the manual.  Addresses
are explicit, since the scheme refers to nodes that others might delete.
Objectives are multiplied by the sense of the problem and integral (the tests
with `epsilon - 1` presuppose that).  `Infeasible + epsilon - 1` absorbs for
clients whose infeasibility is 1e50.  The choice of depth first or best first
search is left open at each step, so the properties do not depend on the
depth estimate.  `Spared` is what the loop of `StripQueue` leaves: it never tests the first node,
nor the one behind a node it has deleted, so of several nodes in a row that cannot improve the
solution every other one stays in the list, is counted, and may be branched.

## 4 Runs

Each property of a passing run is violated when the mapped definition named in
`PROJECT.json` ("mutants") is replaced by its variant.

| run | checks | instance | shows |
|---|---|---|---|
| `containers` | `RanksIncrease`, `ImplementsPartition`, `ImplementsLists`, `ImplementsTable` | set families of 4 items, with compression and range checks; a queue or stack of 3 items with two that share its links; tables of size 1 to 4 with 3 items and 2 keys; 28,084 states | ranks grow towards the roots, so look-ups end; merges unite two sets; no look-up moves a canonical element; lists on shared links are separate lists; a table is a map, also when it outgrows its size in the middle of a call |
| `thread_jobs` | `OneScript`, `ThreadsHaveEntries`, `PatientGetsResult`, `PatientKeepsObjects`, `PatientJobsEnd` | three sessions (3 patient jobs, 2 hasty jobs with failures, 3 jobs for one free entry); 335,499 states | one script at a time and an entry for each thread, whatever fails; the results, objects and ends of jobs for a patient user |
| `trace` | `LockedMeansBlocked`, `FramesInOrder`, `UnblockedWhenShown`, `BlockedIsReleased`, `PollingLoopEnds` | levels 1 to 3, both users, 5 log entries or trace points, 2 file names, nesting 2; 461,292 states | the handshake with a careful user; order of frames with any user, also when names come again |
| `msg_buffer` | `ListLinked`, `ImplementsQueue`, `UndisturbedPass` | 3 slots, 6 calls, sweeps at any time; 119,726 states | the ring is the queue of the latest messages; an undisturbed pass shows all of it |
| `heaps` | `InOrder`, `ImplementsQueue` | 3 heaps, 3 keys, 4 items (any calls) and 9 items; 216,813 states | each heap is in order and balanced, and a priority queue |
| `nested` | `ForestMatchesLists`, `ImplementsNestedSets` | 2 real items, 3 sets, with and without compression; 111,360 states | forest and member lists describe the same laminar family after any split and block |
| `branch` | `NodesAreReferenced`, `NothingIsLost`, `BoundsEnclose`, `SearchEnds` | 3 variables, objectives 0, 1 and infeasible, 5 addresses, 3 kinds of clients; 423,924 states | no node and no solution is lost, certified bounds are right, the search ends |
| `graph` | `ListsAreSound`, `CallsActOnTheMap` | up to 2 nodes, 2 edges, 3 control points; 22,909 states | after any sequence of calls the lists are rings, no point has two owners, and each call, with all its arguments, does to the drawn graph what is declared |
| `flow` | `SourceIsCutOff`, `NothingIsForgotten`, `FlowIsMaximum`, `ValuesAreEnclosed`, `FlowIsCheapest`, `SlacknessIsKept`, `SolversEnd` | 4 nodes, 6 arcs with an inner directed cycle; six methods for maximum flows with capacities 0 to 2, any legal flow before the call; eleven calls for minimum cost flows with 4 sets of capacities, 3 of lengths, 4 of demands, 2 orders of arcs; 74,895 states | the result is a flow that meets the demands, maximum or cheapest unless the solver was stopped, with the published bounds on both sides; slackness and the simplex basis are kept; the solver ends |
| `trees` | `TreeIsOptimal`, `NoOptimumIsLost` | 4 nodes, 7 arcs, lengths 1 and 2, arcs that are missing or mandatory, four methods; 47,773 states | greedy choices and shrinking lose no optimum; labels and subgraph hold the same optimal tree |
| `paths` | `ResultIsExact`, `NoLabelIsTooShort`, `SettledIsFinal`, `SearchEnds` | 4 nodes, 6 arcs, positive and negative lengths, one or more sources, four methods; 97,265 states | labels are never too short and exact in the end, settled nodes stay, negative cycles are found, the search ends |
| `heap_minimum` | `NextIsMinimal`, violated | 2 items, Fibonacci heap | finding 1 of section 7 |

Why the bounds suffice for the interesting cases:

* *containers*: four items give trees of rank 2, ties, and paths of length two that
  a merge compresses before it links.  Three items fill three lists, and a list has a first,
  a middle and a last one.  Of the items 0, 4 and 7 some share a chain in a table of one
  size and not in the next one; a table of size one grows twice (`MaxSize`).
* *threads*: two overlapping jobs are enough for every race found; the third one
  uses an entry that was given back, or finds the table full.
* *trace*: five trace points or log entries cover two frames with a change of
  level between them, a repeated poll of the same frame, and the end of the job.  With two file
  names every other frame takes the file of the last but one, so a file is written again between the
  reading of its name and its showing, and a frame that is not announced makes the next name the
  one on the screen.  Names are compared for equality only and follow each other in a cycle, so one value of `Counters` is enough.
* *messenger*: three slots wrap around; six calls fill the buffer, evict three
  entries and continue one, within one pass of the browser.
* *heaps*: nine items make Fibonacci trees of rank three with cascading cuts;
  four items cover two levels of the binary heap.  `MaxLow` bounds the number
  of decreased items that have not been taken out.
* *nested*: three sets nest twice over two real items, and are split in both
  orders.  N=3, M=2 has also been checked.
* *branch*: three variables give a list of several nodes of different depth, so that
  stripping spares, deletes and keeps nodes.  Five addresses are enough for most searches;
  some reach this limit on their number of nodes and are cut short by it.  MaxObj=2 has been checked per
  client (up to 1.1 million states).
* *graph*: two edges make loops, parallel and antiparallel edges and rings of one to four
  entries; three points make a thread of two besides a label, or bends of both edges.
  `MaxItems` bounds the numbers given to new items.
* *flow*: the inner cycle makes preflows return to the source and augmentations cancel flow;
  two units at one arc and one at another make three phases of scaling, and layered
  networks with dead ends.  The lengths make the inner cycle negative, the direct paths dear, or
  the arcs into the target rewarding; one set of capacities has lower bounds, one no inner arcs,
  and one demand is beyond all of them.  Starts with negative arcs (where the
  method accepts them), free cycles, several trees and degenerate pivots all occur.
* *trees*: the arcs form two nested cycles off the root, which Edmonds' method shrinks one
  into the other; equal lengths make ties.
* *paths*: a cycle of three arcs and one of two share a node, so that paths, passes and
  negative cycles compete; `Epsilon` is a length that is a little below zero.

`CHECK_DEADLOCK FALSE` is set where the system may stop: for the trace runs (at
communication level 1 the browser may wait for an event for ever, see section 7),
for the solvers that end in a last state (`trees`, `paths`), and for `graph`, which may have no room for another item.  All other
systems cycle or end in an explicit final step.

## 5 Fairness

* `SolverThread!FairSpec`: weak fairness of every thread and of the master, one
  by one: the operating system schedules them, and none holds a lock for ever.
  Starting a job and pressing stop are not fair: nobody has to.
* `TraceHandshake!FairSpec`: weak fairness of the solver thread, of the Tcl loop
  (its timers fire), and of the user's step *while the browser asks for one*
  ("Waiting at trace point").  A user who never steps leaves the solver waiting, by
  design.
* `BranchScheme!FairSpec`, `MaxFlow!Spec`, `ShortestPath!Spec`: weak fairness of the next
  step of a sequential program.  Which step it is is not fair: the order of arcs and of
  active nodes may be the worst one for ever, and the search ends all the same.
* `MinCostFlow!FlowFairness`: weak fairness of the maximum flow, and of `CostNext` written as
  "infinitely often at an end, or infinitely often a step", since TLC would have to compute every
  next state to see that a step is enabled.  It is: no run deadlocks, and every step of these
  methods changes something.

The other modules have safety properties and refinements only.

## 6 Proofs

TLAPS checks all theorems for every value of the constants, from the named
assumptions of the module that declares them.

**`Containers_proofs`** (for every N, `MethDSU`, `LogWarn`; for every number of items and set of
derived lists; for every set of items, of keys and of sizes)

* `RanksAlwaysIncrease == Spec => [](TypeOK /\ RanksIncrease)`.  Type
  correctness is not inductive alone, since what `Find` returns is an item only if
  the parent pointers lead to a root.  `Forest` (types and increasing ranks) is.
  The lemmas say that a closed set has a root (`ClosedSetHasRoot`, from the
  well-foundedness of strict inclusion on finite sets), that the ranks on a path are below
  that of the root (`RanksOnPath`), and that compression and linking keep this
  (`CompressFits`, `LinkKeepsForest`).
* `ForestIsPartition == LogWarn => (Spec => ImplementsPartition)`.  The canonical
  elements after a step are found by a uniqueness argument: a *labelling* that is
  constant along parent pointers and maps roots to themselves is the map of
  canonical elements (`LabelIsRoot`), so for each operation it is enough to give one
  (`FindKeepsCanon`, `MergeUnites`, `BudAddsSet`).  Without range checks the theorem
  is false: `Find` of an item in no set then reads past the array (section 7).
* `ClientsKeepPartition` carries both over to the clients of the run, who may use any of the
  containers.
* `ListsAreSeparate == Cautious => (ContainerSpec => ImplementsLists)`.  The inductive invariant says that
  there are lists the record *represents* (`Represents`): no item is twice on them
  (`Apart`), each item links to the one behind it, the last of a queue to itself, the
  bottom of a stack and the items off the lists to nothing (`LinksFit`), ends and sizes are noted
  (`EndsFit`), and `set[]`, once it is there, marks the items of the master (`MarksFit`).  Nothing less is
  inductive: a deletion takes the new first item from the links.  The recursion that follows the links
  has a value because there are such lists, and finds them (`WalkExists`, `ChainIs`); the loop of the
  clearing is the fold of a deletion over positions (`EmptiedIs`); an insertion keeps the lists
  apart since its test, on the link and on the end of one list, finds every listed item
  but the bottom of another stack (`ListedItems`).  That one is what `Cautious` excludes, together
  with asking a derived list for items of another one; without it the theorem is false (section 7).
* `TablesAreMaps == Cautious => (ContainerSpec => ImplementsTable)`.  The inductive invariant `HoldsEntries`
  says that there are lists of slots, a chain for every hash value and the list of free slots, which
  heads and links follow (`RowsFit`) and which have every slot once (`RowsApart`), that a slot in a chain
  has an item of its hash value with a key that is not the default one, no two have the same item, and `nz`
  is their number (`Filled`).  Both an insertion and a removal move one slot to the front of another
  list; one lemma (`MovedHasRows`) says that this keeps the lists.  `Pairs` is what the table holds,
  and `Changed` what a call makes of it (`EnteredHolds`, `RewrittenHolds`, `UnlinkedHolds`).  The replay keeps
  that the new table has the entries of the slots it has seen, by induction over the
  slots of a chain (`ChainCopied`) and over the chains (`RescaledHolds`); it never runs out of slots, since there are
  twice as many as entries (`SlotIsFree`).  Sizes are assumed positive (`TableSizes`), and hash values numbers
  (`TokenValues`).  A dictionary that is filled beyond its size loses its entries (section 7).

**`SolverThread_proofs`** (for every set of jobs, entries and sessions)

* `EntriesAreKept == Spec => [](TypeOK /\ ThreadsHaveEntries)`.
  `ThreadsHaveEntries` is not inductive: a reserved entry is not marked until the
  thread ID is stored, so `TableInv` adds where the master is within a start
  (`Reserved`) and that the stages without a thread have no entry.
* `GuardedStartsOneScript`: with callers that ask for an idle solver
  (`Guarded`), `OneScript` always holds.  The argument is about the solver state:
  IDLE excludes a working thread and a start that is under way.
* `PatientIsAnswered == Spec => []PatientGetsResult` and
  `PatientLosesNothing == Spec => []PatientKeepsObjects`: neither follows from the other
  invariants.  `PatientInv` says that one job is under way at a time and the return code is its
  own from the end of its script on (`OneAtATime`); that whenever a job has run the table has room, since
  the answer to a refused one would be the code of its predecessor (`RoomIsLeft`); and what the
  counter of interpreters, the flag `destroyThread` and the register of a thread between reading
  and writing the counter are at each stage (`TearDown`).

**`TraceHandshake`** (for any number of trace points, log entries and file names, which may come
again at any time; the proofs are at the end of the module)

* `WaitingIsTrue == Spec => []LockedMeansBlocked`, `FramesAreInOrder == Spec => FramesInOrder` and
  `UnblockingFollowsShowing == Spec => UnblockedWhenShown` have one inductive invariant in
  common.  For a careful user it is a chain: a file that has not been shown is the one just
  announced, with its event still set (`Unshown`); so a fresh one belongs to a waiting solver
  (`FreshIsCurrent`), and the browser locks itself only while the event is set (`Locked`).
* The order of frames needs no careful user and no bound on the file names.  Between the reading of a
  name and the showing of the file the solver can announce one file at most, since only the browser takes
  events back then (`OrderInv`).  If it has announced one, that is the latest frame of all, and what is shown is
  not newer; if not, the file shown is still the one announced last, whatever it holds by
  now.  In both cases the next one is not older than the one shown (`FileInv` bounds all files by
  the number of frames written).

**`Messenger_proofs`** (for every buffer size and number of messages)

* `ListStaysLinked == Spec => []ListLinked`.  The inductive invariant adds
  `SlotsInOrder`: slots are taken by increasing index, and only a full buffer wraps.
* `BufferIsQueue == Spec => ImplementsQueue`: every append, eviction, continuation
  and sweep is a step of `MessageQueue` (`AppendStep`, `EvictStep`,
  `ContinueStep`), and the browser's steps are stutters (`ReaderInv`).

**`BranchScheme_proofs`** (for every number of variables, all objectives, addresses and clients)

* `NodesStayReferenced`, `SearchLosesNothing`: `NodesAreReferenced` and `NothingIsLost` are
  always true.  They are inductive only together, and with `HandInv` (which of the two children are still to
  be inspected, and which are doomed), `FirstChildLeads` (the first child leads the list when the second one
  is inspected, which is why `StripQueue`, which spares the first node, does not delete it under the
  caller) and `NothingIsBetter`.  What `StripQueue` deletes cannot improve the saved solution, and the proof
  does not need that it deletes all such nodes, which it does not (`StripKeeps`).
* `BoundsEncloseTheOptimum == Spec /\ []NotCutShort => []BoundsEnclose`: `BestBoundIsBound`
  makes the certified bound right as long as no maximization is cut short.  The hypothesis
  is needed: the last test of the constructor has the wrong sign for maximizations
  (section 7).  `MinimizationsAreEnclosed` is the theorem without it, for clients that minimize.

**`MaxFlow_proofs`** (for every network without loops, all capacities, lengths and demands)

* `PreflowInvariant == Spec => []PreflowInv`: during a preflow method the flow stays within
  its capacities, no residual arc goes down more than one label, and the source keeps the label
  N and the target 0.  While the source is saturated, its arcs are either done or still to do, and all other
  labels are 0 (`Saturating`).  A push creates only the opposite residual arc, which goes up
  (`PushPreserves`); a relabelling goes to one above the least label across a residual arc, and
  so no arc goes down further (`RelabelPreserves`).
* `LabelsStayValid`, `SourceStaysCutOff`: N labels cannot be spread over N - 1 nodes, so one
  is missing (`SomeLabelIsMissing`), and the nodes above it are the set out of which no
  residual arc leads.
* `WorkStaysKnown == Spec => []WorkIsKnown`.  The inductive invariant `WorkInv` adds to it
  that an arc in a queue can carry flow and does not go down more than one step: so none of
  the arcs that a lift enters has been in a queue before, and nothing is entered twice.  It also
  adds that the divergences are those of the flow, that no inner node lacks flow, and that
  the lower bounds of the arcs into a node do not exceed the capacities out of it
  (`ExcessIsReal`): so there is always a residual arc to lift a node to (`TargetsExist`).
* `PlainFlowIsMaximum == Spec => [](method \in {"FIFO", "HIGH"} => FlowIsMaximum)`: the two
  methods that push all they can end with a maximum flow, and the check of the result never fails.  At
  the end no node is active, so the preflow is an st-flow, with a saturated cut.  `CutProvesOptimum` says that an st-flow
  that saturates a cut is maximum: by `ValueIsBounded` (weak duality), which rests on `FlowAcrossCut` and
  `DivergenceOfSet`.  `DepthIsCut` shows that the search before the check stops (`SearchStops`) and labels such a cut.
  Excess scaling is left out since it is not true of it (section 7).
* `AugmentedFlowIsMaximum == Spec => [](method \in Augmentations => FlowIsMaximum)`: so do the
  method of Edmonds and Karp, capacity scaling and Dinic's method, and the flow is an st-flow
  between two searches, also when the user stops the solver.  `AugmentInv` says so, and that along
  the part of Dinic's path that is still to be augmented every arc can carry the amount that its end
  node lacks.  An augmentation is a fold along the path; the arcs of a path by layers are distinct, and
  so it changes each of them once.  The search that does not reach the target has labelled
  a saturated cut.
* `NothingIsEverForgotten == Spec => []NothingIsForgotten`, for all methods: `WorkIsKnown` and, for
  Dinic's method, `BlockingIsExact`.  `LayersOpen` says that, also within an augmentation, the degree of every node is the
  number of arcs into it that are not dead, and that the rest of the path consists of such arcs.
  At first this holds since the search finds each node from the layer before (`DepthReaches`).  When an
  arc is saturated, `TopErasure` goes on until no node is left that has lost all its arcs
  (`ErasureEnds`: a chain of sets of nodes without the source stops to grow within N rounds), then the degrees count
  what is left (`ErasureIsExact`), and the erased nodes are not before the end of the arc, where the rest of
  the path is.  The nodes that are not blocked then satisfy the recursion for the nodes that
  the source leads to, and by induction on the layers nothing else does (`OpenIsBehind`).
* `CheapPathsKeepSlackness == FlowSpec => [](CheapMethod => SlacknessIsKept)`, for minimum cost
  flows: Edmonds and Karp's method, if the potentials of the call fit its flow (`StartsCheap`; otherwise
  the method replaces them, or rejects the flow), capacity scaling and successive
  shortest paths never have an arc of negative reduced length among those that count in the phase.  `CheapInv` says so
  for each stage, and that the flow is legal and the divergences are its own.  The labels of the
  search are distances (`DistancesAreExact`: in each round one more node has its final label, `OneMoreSettled`);
  the paths along the predecessor arcs exist, are simple, and do not come back to an arc in either direction
  (`TrailsAreSound`, `TrailArcsDiffer`); to add the labels up to that of the end keeps the lengths from
  getting negative and makes those of the path zero (`UpdateKeeps`), so that the opposite arcs, which the augmentation opens,
  do no harm (`AugmentKeepsCheap`).  Capacity scaling follows a path back only to the last node with an
  excess (`ExcessTail`).
* `CheapPathsFindCheapestFlows == FlowSpec /\ [](CheapCall => NumbersAreShort) =>
  [](CheapCall => FlowIsCheapest)` and `CheapPathsEncloseOptimum`, the same with `ValuesAreEnclosed`:
  these methods end with a cheapest flow that meets the demands, return its weight and the potentials that prove
  it, or say that there is none, when there is none; and the bounds that they publish are on both sides of the
  optimum at any time.  That no potentials promise more than any flow costs is weak duality (`DualIsBound`, a sum
  over arcs which is turned into a sum over nodes), with equality for a flow without residual arcs of
  negative reduced length (`SlackFlowIsCheapest`).  `CostInv` adds to `CheapInv` that the bounds are right
  (`Enclosing`), what remains to be sent (`SendsRest`: as many units from the source to the target; `Remaining`: what
  all nodes lack), and that the end is as promised (`Concluded`).  A search that fails leaves a set of nodes
  that lacks more than can still be sent to it (`ClosedSetLacks`), so that there is no flow to be found; and
  capacity scaling, whose last phase counts all residual arcs, ends with no deficiency if no search of that phase fails
  (`NothingIsLacking`, since the deficiencies of all nodes cancel, `LacksCancel`).
* The hypotheses of both are those of the code.  `CheapCall`: the method of Edmonds and Karp, with potentials that
  fit and demands that are the divergences and some more units from the source to the target, as `MinCostSTFlow` calls it;
  capacity scaling, in every call; successive shortest paths with potentials that fit, without
  which the sum of the deficiencies is wrong (section 7).  `NumbersAreShort`: `InfFloat` is more than
  any weight, than what the present potentials promise, and than any way along residual arcs.  It is
  asked of every state since potentials move; every state of the run satisfies it in these calls.  The calls run
  to their end: that capacity scaling is stopped is not part of the model (section 7).
* Sums over arcs and nodes are folds.  `SumChosen` and `SumIsUnique` find the function that the
  library's fold chooses, by induction over finite sets in the form "no smallest
  counterexample" (`AllNumbers`, `AllSubsets`); the rules for sums follow (`SumWithout`, `SumOfUnion`,
  `SumOfLess`, ...).

**`ShortestPath_proofs`** (for every graph, all lengths, all four methods)

* `LabelsAreUpperBounds == Spec => []NoLabelIsTooShort`.  Below the distance means below
  what some potential allows; the inductive invariant adds that what waits to be read is
  labelled (`ScansLabelled`), so that a label is always one arc longer than another label.
* `SettledStaysFinal == Spec => []SettledIsFinal`.  The invariant `Frontier` compares three
  groups of nodes: the settled ones have no label above that of the node that is
  scanned, the queued ones none below it, and arcs out of settled nodes are relaxed.  Then a
  settled node is never improved again, and `ChangeKey` never meets a node that has left
  the heap (`NothingFails`).
* `DijkstraIsExact == Spec => [](Searching => ResultIsExact)`: with lengths that are not negative,
  the labels at the end are the lengths of shortest walks, which are defined by recursion on
  the number of arcs, and the predecessor arcs lead back along such walks to a source.  `TreeInv` adds
  to `Frontier` that the predecessor arcs form trees: there is a depth for every settled node, which
  is one more than that of its predecessor and less than the number of settled nodes.
* `BellmanFordIsExact == Spec => [](method = "BELLMAN" /\ NoShortTurn /\ N > 1 => ResultIsExact)` and
  `LabelCorrectingIsExact == Spec => [](method = "FIFO" /\ NoShortTurn => ResultIsExact)`: these
  methods end with the distances, or else fail, and they fail if and only if there is a
  cycle of negative length.  `CorrectInv` says that after k passes no label is above the
  length of a walk with k arcs (`Passes`), that what has been read offers nothing better
  (`Triangles`), and that if there are feasible potentials then the predecessor arcs contain no cycle
  (`Forest`).  A set of labels at which no arc offers anything better and whose predecessor
  arcs form a forest is the set of distances (`FinalIsExact`, which goes back along the predecessor
  arcs, and finds that n - 1 of them lead to a source, `LevelsExist`).  `LoopInv` is about the node
  that is reported: wherever the predecessor arcs lead round, going round saves something
  (`Saving`), and a label that is set in pass 2n depends on such a cycle, since otherwise its walk
  would have too many arcs.
* The hypotheses are those of the code.  `NoShortTurn`: an arc is not used against the predecessor arc of
  its start node, so that an undirected edge of negative length is a cycle which the methods do not
  see.  `N > 1`: with one node Bellman and Ford's last pass is the first, and it fails always (section 7).
* `DAGSearchIsExact == Spec => [](method = "DAG" => ResultIsExact)`, without any hypothesis: the search
  in topological order fails if and only if there is a cycle, and ends with the distances otherwise,
  also with negative lengths.  `SortInv` says that the degrees count the arcs that have not been read
  (`Unread`) and that every set of taken nodes has one that no arc enters from the set
  (`Acyclic`).  At the end, either all nodes are taken, or each of those that are not is entered by
  another one of them, so that one can go on for ever.

**`MinTree_proofs`** (for every graph, all capacities, mandatory arcs and lengths below `InfFloat`)

* `GreedyLosesNoOptimum == LengthsAreShort => (Spec => [](method # "EDMONDS" => NoOptimumIsLost))`:
  as long as the methods of Prim and Kruskal choose, there is an optimum with all the arcs that
  have been chosen, for spanning and one cycle trees, minimum and maximum, with mandatory arcs, and in
  whatever order arcs are read.  The two facts about trees that this needs are the exchange of arcs across a cut
  (`TreeExchange`, from `TreesConnect`: the trees are the sets with an arc fewer than nodes that
  cross every cut, which is what the search in their definition finds) and that sums over sets of arcs
  follow the exchange (`SwapLength`; the sum is a recursion over an arbitrary order, and independent
  of it by `TotalIsUnique` and `TotalWithout`).  `CutExchange` puts them together for solutions.
  The inductive invariant `GreedyInv` has, for Kruskal's method, that the classes of the
  partition are what the chosen arcs join, that every mandatory arc is among them
  once they are merged, and that whatever arc is not in the queue any more lies within a class; for Prim's
  method, that the queue and the labels are those of the cheapest arcs out of the tree, that the
  predecessor arcs of the tree lead to its start, and that the two arcs at the root of a cycle are the best ones
  (`PairExtends`), mandatory arcs first.
* `GreedyTreesAreOptimal == LengthsAreShort => (Spec => [](PrimOrKruskal => TreeIsOptimal))`: Prim's
  methods, for spanning and one cycle trees, and Kruskal's method for spanning trees return the
  predecessor arcs of an optimum if there is a tree at all, and fail otherwise.  `FoundInv` adds
  to `GreedyInv` how the tree grows.  For Prim's methods, `GrowInv` gives each node of the
  tree the way back to the start and a depth, and says how many arcs there are and how long they are
  together; a part that does not grow any more is a cut without arcs (`CutOff`), and otherwise
  the nodes are joined by as many arcs as a tree has, which are one (`WholeTree`, `GrownTree`).
  For Kruskal's method, `Counted` says that there are as many sets as nodes
  minus chosen arcs, so that one set is a tree (`OneSetIsTree`); `SearchInv` follows the search that directs the
  tree (`ExtractTree`), which meets no node twice since the way back is the only one (`NewNode`).
  That the mandatory arcs are part of some tree (`PartsMakeSolution`) makes the optimum of
  what extends them the optimum of all.
* `LengthsAreShort`: InfFloat is larger than any length.  The labels of nodes that are not reached
  and of nodes in the tree are `InfFloat` and its negative.

Only model-checked, and why:

* liveness (`PatientJobsEnd`, `BlockedIsReleased`, `PollingLoopEnds`,
  `SearchEnds`, `SolversEnd`): the prover has no rules for fairness and ENABLED;
* the maximum flow of excess scaling (`FlowIsMaximum`, which is not true of it in general, section
  7), and what the minimum cost flows promise (`ValuesAreEnclosed`, `FlowIsCheapest` and `SlacknessIsKept`)
  for the methods that do not augment along shortest paths with potentials, which are cancelling of
  cycles, cost scaling, network simplex and Busacker and Gowen's method, and for calls outside the hypotheses above;
* `ResultIsExact` of calls outside the hypotheses above (Dijkstra's method with some lengths below
  zero);
* `TreeIsOptimal` of Kruskal's method for one cycle trees, where it holds only if at most one arc at the
  root is mandatory, and of Edmonds' method; `NoOptimumIsLost` for Edmonds' method, of which it
  says that to shrink a cycle changes nothing about the problem;
* the binary and the Fibonacci heap and the nested family, whose paths and trees are
  computed by recursion;
* the sparse representation, whose rings and threads are paths of any length.

## 7 Findings and further counterexamples

Checked as a violation run:

1. `heap_minimum`: `ChangeKey` of a root of the Fibonacci heap does not update
   the minimum, so `Peek` and `Delete` return another item
   (`lib_src/fibonacciHeap.cpp:628`).  The run `heaps` therefore restricts
   `ChangeKey` to what leaves the minimum where it is (`KeepsMinimum`), and so shows
   that nothing else is wrong.

With other constants (and, where they are named, one property in place of the others) the
runs show more; each of these is violated:

| run, changed constants | property | what it shows |
|---|---|---|
| `thread_jobs`, `Settings <- Hasty` | `ObjectSurvives` | `destroyThread` is one flag for all threads: the one that ends first clears it while another still deletes its commands, and the delete procedures then delete a graph the master has an alias of (`goshMain.cpp:316`) |
| `trace`, `CommLevels = {1}`, `Users = {"careful"}` | `LoopEnds` | at communication level 1 the last event may be raised between the browser's test for an idle solver and its `vwait` (`menuOptimize.tk:292`) |
| `trace` | `EveryBlockedIsReleased` | names of trace files come again: after 10001 frames (`goblinController.h:421`), or in the next job after the browser has set the counter back (`menuLayout.tk:663`); a file with the name of the one on the screen passes for shown, and the solver waits at its trace point while the browser neither shows the frame nor asks for a step (`menuOptimize.tk:260`) |
| `branch` | `StrippedQueueImproves` | the loop of `StripQueue` goes on from the successor of a deleted node without testing it, so nodes that cannot improve the new solution stay in the list (`branchScheme.cpp:629`), though the manual says that irrelevant nodes are deleted (`manual.tex:5253`); they cost time, but no solution is lost |
| `msg_buffer`, `MaxPieces = 5`, `SweepAnyTime = FALSE` | `LinesAreMessages` | text and class of a line are read by separate calls; when the buffer is full the slot may be reused between them (`messenger.cpp:279`) |
| `paths`, `Epsilon = 1`, `Calls <- MCTiny` | `ToleranceHolds` | a length just below zero passes the test of Dijkstra's method, and `ChangeKey` is called for a node that has left the heap (`solveSPTree.cpp:316`) |
| `branch`, `Clients <- Maximizing` | `BoundsEnclose` | the last test of the constructor has the sign in front of epsilon: a maximization that is stopped with a gap of one is certified as optimal (`branchScheme.cpp:153`) |
| `flow`, `Caps <- MCUneven`, `Methods = {"SCALE"}` | `FlowIsMaximum` | excess scaling ends while a node has excess one (`solveMaxFlow.cpp:719`) |
| `flow`, `N = 5`, `t = 4`, the arcs `MCParallel` with their `From`, `To` and `Caps`, `Methods = {"SCALE"}`, `Tasks = {}` | `NothingIsEnteredTwice`, also `FlowIsMaximum` | excess scaling skips one of two parallel arcs whose head is full, and lifts the node to the label it has; the arcs from above are then entered into queues where they already are, and `staticQueue::Insert` throws (`solveMaxFlow.cpp:689`, `staticQueue.cpp:150`) |
| `trees`, `Missing = {{}}`, `Mandatory = {{}}`, `MaxFixed = 0`, `Calls <- MCMaxCalls` | `TreeIsOptimal` | Edmonds' method with maximization: infinite lengths are compared without the sign (`solveMinTree.cpp:831`) |
| `graph`, `Careful = {"points"}` | `ListsAreSound` | `FlipArc` of an arc that is alone in a list, by way of `SwapArcs` |
| `containers`, `Cautious = FALSE` | `ImplementsTable` | `Rescale()` of a dictionary passes the key in place of the index (`dictionary.cpp:273`), so all entries are lost when one is added to a full dictionary; `ChangeRowLabel` and its like do that (`lpRepresentation.cpp:1169`, 1243) |
| `containers`, `Cautious = FALSE` | `ImplementsLists` | derived lists cannot be told from each other by `IsMember()`; a stack takes the bottom item of another stack |

For `SolverThread`, in the session `Hasty`:
`IdleMeansNoThread` (IDLE is signalled while the thread still tears its interpreter down),
`StopSticks` (a stop request before the thread's first instruction is overwritten),
`PendingHasThread` (after a failed `pthread_create` the solver stays PENDING), `OwnResult`
(a nested `CallSolver` takes the result of the outer job; after an aborted script the
code is stale), `MessengerSurvives` (the interpreter counter is decremented without a
lock); with `Guarded = FALSE`, `EveryJobEnds`.  For `DisjointFamily` with
`LogWarn = FALSE`, `FindOfFreshItem` (`Find` of an item in no set does not return UNDEFINED
as the header says).  For `Messenger`, `EofMeansRead` (the end is reported AT the newest
entry, before it is shown).  For `BranchScheme`, `OpenNodesAreFeasible` (infeasible nodes
are queued and branched while no solution is known).

Reading the algorithms for the models turned up more places where the code does not do
what it says.  The models follow the code; where that would hide everything else, the
instance leaves the case out and says so.

*Sparse representation*
(`lib_src/sparseRepresentation.cpp`): the keys for a deletion in decreasing order are `-w`
of an unsigned index and lose their order in a 64 bit build (812, 861, 943, 1055);
`SwapArcs` relinks the rings of arcs that are alone in theirs wrongly, which reaches the
callers of `FlipArc` in `sparseBigraph.cpp:56` and `seriesParallel.cpp:396`; `SwapNodes`
renames the entries of threads only if there are arc labels; `DeleteNode` of a control
point that is the first of its thread depends on the label (1183); releasing
the control points of an edge without a thread leaves its label behind; the
exterior arc is not adapted when arcs are deleted; `IdentifyNodes(u, u)` is not excluded;
an attribute of size 0 is not filled with its default when it grows
(`include/attribute.h:361`).

*Containers*: the dictionary looks a label up without its second index before it changes it
(`dictionary.cpp:198`); a table of size 0 divides by 0 (`mixedGraph.cpp:271` makes one for a
graph without arcs); the loop that enters the labels of all
rows runs to the number of columns (`lpRepresentation.cpp:1269`); a list must outlive those derived from it, whose
links it frees.

*Maximum flow* (`lib_src/solveMaxFlow.cpp`): loops make push and relabel throw; its methods
return another quantity than the augmenting ones (774); augmentation starts counting from
the outgoing flow only; the check of the result is also made after an interruption;
`CutCapacity` tests `a&1==0`, which is `a&(1==0)` (`abstractMixedGraph.cpp:3606`); the keys
of the highest label selection are negated unsigned numbers.

*Minimum cost flow* (`lib_src/solveMCFlow.cpp`): successive shortest paths sum up what is to be sent
before the first phase saturates arcs of negative reduced length, and so may stop too early and
report a feasible problem as infeasible (944; the instance has no negative lengths for it); a stop
within capacity scaling, successive shortest paths or the search of an admissible flow is
reported as infeasibility, with bounds (1087, 397); Edmonds and Karp's start replaces the
potentials by reduced distances instead of adding them (280); cancelling cycles that is stopped
before a search has left labels calls `UpdatePotentials`, which throws where nothing may be thrown
(578, 647); the node colours of cost scaling, which should be a topological order, are zero for
ever (805, 897); the tight variant passes the mean value with the wrong sign, so that its search
meets a negative cycle and stops with the labels of that moment (739); pricing divides by the
number of arcs, which may be 0 (`networkSimplex.cpp:174`); with `methFailSave` an infeasible
result of the scaling methods is an internal error (497).

*Trees and paths*: Kruskal's one cycle variant counts only the mandatory arcs at the root
that are not among the two shortest ones, so it can drop one (`solveMinTree.cpp:527`); Prim's method does not notice mandatory arcs that form a
cycle; Bellman and Ford on a single node (`solveSPTree.cpp:408`).

A free user, who presses a step button before the browser waits for it or closes
the canvas, releases the solver before its frame is shown, and can leave the
browser waiting for another step; therefore `UnblockedWhenShown`,
`BlockedIsReleased`, `LockedMeansBlocked` and `PollingLoopEnds` are stated for the
careful user.

## 8 What is not modelled, and why

* Of minimum cost flow: the method that calls a linear programming solver; undirected graphs, for
  which a copy with both directions of each edge is made; infinite capacities, and with them
  unbounded problems; a stop within the search of an admissible flow.
* Balanced flow and matching, minimum cuts, connectivity: sequential and long.  Their containers, set families, heaps, path searches and maximum flows are
  modelled.
* Relaxations of the branch and bound clients, linear programming: floating point
  numerics.
* Planarity, drawing, layout: sequential geometry.
* File import and export, canvas, command line tools: input and output.
* Of the sparse representation: reading and writing, geometry other than who owns which
  control point.
* Of the shortest path solvers: the admissibility of single arcs is an argument of the
  call; loops, and lengths by a functional that changes during the call, are left out.
* `LocalSearch` results better than the optimum of the search tree (the asymmetric
  TSP with candidate graph can find them): excluded from the model, where a
  branching covers all solutions.
* Restart of the shell and the log stream; the exhaustive mode of `UploadMessages`.
* Memory accounting, displays and logging text, everywhere.

## 9 Plan

In order of importance; all steps are done but for the theorems named as next.

| step | modules | runs and bounds | theorems |
|---|---|---|---|
| A threads, traces, messages | `SolverThread`, `TraceHandshake`, `Messenger` → `MessageQueue` | done | `EntriesAreKept`, `GuardedStartsOneScript`, `PatientIsAnswered`, `PatientLosesNothing`, `WaitingIsTrue`, `FramesAreInOrder`, `UnblockingFollowsShowing`, `ListStaysLinked`, `BufferIsQueue` |
| B set families | `DisjointFamily` → `Partition`, `NestedFamily` → `NestedSets` | done | `RanksAlwaysIncrease`, `ForestIsPartition`, `ClientsKeepPartition` |
| L lists and tables | `StaticLists` → `ItemLists`, `HashTable` → `KeyTable` | done | `ListsAreSeparate`, `TablesAreMaps` |
| C priority queues | three heaps, `NodeHeap` → `PriorityQueue` | done | next: `BasicHeap` is a priority queue |
| D branch and bound | `BranchScheme` | done | `NodesStayReferenced`, `SearchLosesNothing`, `BoundsEncloseTheOptimum` |
| F algorithms over them | `MaxFlow`, `MinTree`, `ShortestPath`, `MinCostFlow` | done | `PreflowInvariant`, `LabelsStayValid`, `SourceStaysCutOff`, `LabelsAreUpperBounds`, `SettledStaysFinal`, `WorkStaysKnown`, `PlainFlowIsMaximum`, `AugmentedFlowIsMaximum`, `NothingIsEverForgotten`, `DijkstraIsExact`, `BellmanFordIsExact`, `LabelCorrectingIsExact`, `DAGSearchIsExact`, `GreedyLosesNoOptimum`, `GreedyTreesAreOptimal`, `CheapPathsKeepSlackness`, `CheapPathsFindCheapestFlows`, `CheapPathsEncloseOptimum` |
| S sparse representation | `SparseGraph` against `PlaneMap` | done | next: `ListsAreRings` for insertion and swaps |
