# GraphBrew: a verification project

GraphBrew is a set of OpenMP graph kernels (derived from the GAP benchmark
suite) with a builder that turns an edge list into a CSR graph, reorders its
vertices with one or more of some fifteen orders, and hands the result to the
kernels. This directory holds TLA+ modules translated from that code, the TLC
runs that check them on small instances, and TLAPS proofs, for graphs of any
size and any number of threads, about the component kernels, breadth-first
search, delta-stepping, the construction of the CSR graph and its relabellings, the
hub mappings, the random and loaded mappings, Rabbit Order and Leiden.

`PROJECT.json` maps every definition to the lines it models, and lists the runs,
the mutants that show each property can fail, the findings and the hazards.

## 1. Inventory

Paths are below `bench/`; `B` is `include/gapbs/builder.h`.

| part | state | operations | what is hard | what makes it correct |
|---|---|---|---|---|
| Afforest (`src/cc.cc`) | `comp`, one parent pointer per vertex, written by every thread | Link, Compress, SampleFrequentElement, the two skipping loops | racing reads, one CAS, stale stores, a skip decided on a moving value | labels are the components, the lowest id wins, parents only descend, skipped edges are covered from the other end |
| Shiloach-Vishkin (`src/cc_sv.cc`) | `comp`, `change` | hooking loop, shortcutting loop | hooks overwritten by plain stores; an unsynchronised flag decides when to stop | as above; a lost hook never ends the loop, roots do not return, at most N iterations |
| BFS (`src/bfs.cc`, `include/gapbs/bitmap.h`) | `parent`, a SlidingQueue, two bitmaps, counters | TDStep, BUStep, QueueToBitmap, BitmapToQueue, the direction heuristic | CAS races for a vertex, plain read-modify-write of bitmap words, a bitmap that is never cleared | a shortest-path tree, each vertex queued once, frontiers are levels |
| Delta-stepping (`src/sssp.cc`) | `dist`, `frontier`, `shared_indexes`, `frontier_tails`, bins per thread | relax, fuse, vote, copy, reset | one region of barriers with double-buffered counters | exact distances, no improvement lost, bins in order, cells not shared |
| Betweenness (`src/bc.cc`) | depths, path counts, successor bitmap, queue, `depth_index`, scores | PBFS, back-propagation, one source after the other | a test of a depth others just set, structures reused without being made anew | path counts and scores are Brandes' |
| SlidingQueue, QueueBuffer (`include/gapbs/sliding_queue.h`) | cells, window, claim counter | push_back, slide_window, flush, reset | flushes overlap, wrap around | no element lost or overwritten |
| CSR construction (B 134-323, 458-560) | degrees, offsets, neighbours | count, prefix sum, fill, squish, transpose | cells claimed by fetch-and-add | the rows are those of the list |
| In-place construction (B 325-456) | the edge list's own memory | fill, count inverses, spread, insert | memory read and overwritten by one loop; searches in half-built rows | nothing lost, each inverse once |
| Relabelling (B 1322-1720, `graph.h` 511-550) | `new_ids`, the new CSR, `org_ids` | RelabelByDegree, RelabelByMapping and its second version, composing `org_ids` | ids by fetch-and-add, wrap-around from -1, repeated reorderings | a permutation; the same graph; the same sources |
| Hub sort, hub cluster (B 2320-2842) | `new_ids`, a SlidingQueue | rank hubs, easy ids, queued ids, rest | threads write into each other's part of `new_ids` | a permutation with the hubs first, others kept in place |
| Random, Sort, DBG, COrder and variants (B 2103-3120) | buckets, segments, `new_ids` | bucket, prefix sums, number | per-thread offsets, claims tested before they are made | the order promised, a permutation |
| GOrder and RCM (`include/gorder/`) | unit heap, header, window | insert, deferred updates, extract, breadth-first numbering | linked list and header under bulk updates | the heap is one, its keys are the scores, a permutation |
| Rabbit Order (`include/rabbit/rabbit_order.hpp`) | atoms, communities, dendrogram | merge, unite, trace, rollback | two-word CAS without locks, edges united late | strengths and edges add up, merged vertices frozen, every vertex ordered once |
| its mappings (B 3890-4290) | sorted edges, adjacency, modularity | read, divide among threads, relabel | parts that begin in the middle of a vertex | lists whole, isolated vertices numbered, modularity exact |
| Leiden (`include/leiden/`) | membership, community weights, affected flags; a graph of lazy bitsets | build, move, refine, renumber, aggregate | races on weights, wake-ups and joins; in-place merges over a small buffer | weights balance, passes nest, the graph is the one given |
| its mappings (B 4300-4732, 5200-5467) | rows of communities per pass | sort by pass, group by degree | repeated stable sorts, `num_nodes_` of another graph | communities together on every level |
| GraphBrew order (B 4733-5180) | communities, edge lists, mappings | cluster, merge small ones, split edges, reorder lists, lay out | unordered containers, early return, options read by position | the vertices ordered have the first ids, list by list |
| Dispatch and mapping files (B 1747-2085) | `new_ids` | GenerateMapping, VerifyMapping, LoadMappingFromFile | missing ids | what passes is a permutation |
| Partitioning (B 586-1320, 3120-3300; `src/tc_p.cc`) | partitions, flat arrays, slices | Cagra, TRUST | threads numbering parts, local graphs | every edge in one partition, in the range of its slice |
| Tiles (B 3300-3880) | offsets per tile, reference matrix in bytes | quantize, makeOffsetMatrix | distances in seven bits | references exact, tiles fit |
| Triangles (`src/tc.cc`, `src/tc_p.cc`, `include/gapbs/intersections.h`) | counts | ordered count, relabelling by degree, five intersections | iterators without an end test | each triangle once |
| Readers, writers, generators (`reader.h`, `writer.h`, `generator.h`, `src/converter.cc`) | files, `org_ids` | convert, generate by blocks | ids through several files; blocks and schedules | the same graph, whoever drew it |
| Command line, benchmark loop (`command_line.h`, `benchmark.h`) | options, two pickers, scores | getopt, trials, top scores | an option that swallows the next; pickers in lockstep | options mean what the help says, trials are verified from their sources |
| PageRank (`src/pr.cc`, `src/pr_spmv.cc`) | scores | sweeps | floating point to a tolerance | not modelled |

The command line decides what the builder does: it reads or generates an edge
list, calls one of the constructions, then the dispatch once per requested
order and `RelabelByMapping` after each; the kernels only read the CSR graph.
GraphBrew calls Leiden and, for each community, an order of its own. `SourcePicker`
reads `org_ids` so that trials on reordered graphs start at the same vertices.
Everything concurrent is OpenMP: parallel loops that end in a barrier, or one
region with explicit barriers (delta-stepping, Rabbit Order). There are no
messages, no crashes to recover from, and files only pass a graph from one run
to the next; the hazards are races, stale reads, retries, capacities, numeric
edges and sequences of legal calls.

## 2. How the code is modelled

* A parallel loop is a set `todo` of iterations. Any thread may take any of them,
  which covers every schedule clause and chunk size. Exceptions: the bottom-up
  step (chunks matter for the bitmap words) and HubCluster's ranking (static
  parts).
* Each read and write of memory that another thread may write meanwhile is a step
  of its own. A read of memory only the thread itself, or nobody, writes in that
  loop is merged with its neighbour step. `compare_and_swap`, `fetch_and_add` and
  `omp critical` are one step.
* The end of a loop is one action that fires when every thread is idle and no
  iteration is left: the implicit barrier. Where the code says `nowait`, threads
  go on by themselves.
* Data races on ordinary ints are interleavings of single accesses.
* Locals that are out of scope are reset to 0, so that states are not told apart
  by them.
* A definition whose comment begins with "Variant" is not part of the
  specification: it is what a plausible bug would make of the definition that
  follows it. The mutants of `PROJECT.json` put it in that definition's place, and
  the run named there must reject it.
* A property that a run checks may be the conjunction of several that are stated,
  and commented, one by one before it.

### Modules

| module | models | extends / instantiates |
|---|---|---|
| `GraphView` | the read-only CSR view of the kernels; connectivity, parent-pointer trees (`SameTree`) and `CCVerifier` without recursion; the bound N of the vertex ids | |
| `Containers` | CSR rows (prefix sums, sorting, squishing) and the sliding queue with its buffers, as operators on records | |
| `Afforest` | `cc.cc` | GraphView; refines ComponentMerging |
| `ComponentMerging` | abstract: classes united by edges, then answered with lowest members | GraphView |
| `ShiloachVishkin` | `cc_sv.cc` | GraphView |
| `DOBFS` | `bfs.cc` with its verifier, `bitmap.h` | GraphView, Containers; refines LevelBFS |
| `LevelBFS` | abstract: level by level, each vertex adopted once from the level before | GraphView |
| `DeltaStep` | `sssp.cc` with its verifier | |
| `Brandes` | `bc.cc` with its verifier | Containers |
| `CSRBuild` | `MakeCSR`, `SquishCSR`, `MakeGraphFromEL`, `SquishGraph`, `MakeLocalGraphFromEL` | GraphView, Containers |
| `InPlaceCSR` | `MakeCSRInPlace` | Containers |
| `Reordering` | `RelabelByMapping`, `MakeGraph`'s loop, `org_ids` | Containers |
| `Relabelled` | `RelabelByMapping_v2`, random and degree orders of a new graph | Containers |
| `HubMapping` | the two hub mappings | GraphView, Containers |
| `RandomOrder` | original, random and loaded mappings, `VerifyMapping` | GraphView |
| `DegreeOrders` | Sort, DBG, HubClusterDBG, HubSortDBG, COrder | |
| `COrderSegments` | `GenerateCOrderMapping_v2` | |
| `GOrder` | `GoUnitHeap.h`, as operators on records; `GoGraph.h` and `GenerateGOrderMapping` | |
| `Rabbit` | `rabbit_order.hpp` | |
| `RabbitMapping` | the graph Rabbit Order is given, from a CSR graph or an edge list, its mapping, the modularity | Containers |
| `DiGraph` | `Graph.hxx`, `_bitset.hxx`, `symmetricize.hxx`: the graph Leiden is given | |
| `Leiden` | `leiden.hxx` | |
| `LeidenMapping` | ids from the communities of all passes | |
| `GraphBrew` | `GenerateGraphBrewMapping` | GraphView |
| `Partitions` | `MakePartitionedGraph`; TRUST's orientation in both its forms | |
| `Slicer`, `Tiles` | slices; tiles and references | Containers |
| `Triangles`, `Intersections` | `tc.cc` with its verifier; `intersections.h` | |
| `Conversion` | `reader.h`, `writer.h`, `converter.cc` run after run | Containers |
| `Generator` | `generator.h` | |
| `CommandLine`, `Trials` | `command_line.h` with the order an option asks for; `benchmark.h` | |
| `CommonFacts` | lemmas: induction, sums, sorting, rows of arrays, lists under new names, the sliding queue, trees and components | GraphView, Containers, TLAPS |
| `Afforest_proofs`, `ShiloachVishkin_proofs`, `DOBFS_proofs`, `DeltaStep_proofs`, `RandomOrder_proofs` | theorems | the module they are named after, CommonFacts |
| `Builders_proofs` | theorems about CSRBuild, and about Reordering and Relabelled with the variables of all | MCBuilders, CommonFacts |
| `ParallelOrders_proofs` | theorems about HubMapping, Rabbit and Leiden, with the variables of all | MCParallelOrders, CommonFacts |
| `MCAfforest` | inputs of TLC; those of `ShiloachVishkin` and `DeltaStep` are at their ends | the module it is named after |
| `MCTraversals` | bfs, sssp, bc: one kernel per behaviour | DOBFS; instantiates DeltaStep, Brandes |
| `MCBuilders` | everything between a command line and a kernel, and the trials | CSRBuild; instantiates twelve others |
| `MCMappings` | every order computed without racing stores, and the mappings of the communities | RandomOrder; instantiates seven others |
| `MCParallelOrders` | the orders whose threads write to each other's vertices | HubMapping; instantiates Rabbit, Leiden |

The last four compose components that do not run at the same time: a process
runs one kernel, or one order. A variable `which` picks it when the behaviour
begins; the initial states are those of that component, a step is a step of
it, the variables of the module extended stay as they are while another one
runs, and the variables a component does not use are not set. So the steps of
a component in such a run are exactly those of its own specification.

### Correspondence, module by module

**Afforest.** `phase` walks through link and compress (once per round `r`), final,
finalCompress, done. A thread in Link has the source's locals `p1`, `p2`, and
`tmp` for a value read and not yet used; the locations are the reads at cc.cc
42, 43, 47, 50, 52 (two reads) and 53. Compress reads `comp[n]` and
`comp[comp[n]]` twice, once for the test and once for the store, and so does
`Crawl`, `Reread`, `Store`. `c`, the sampled component, is *any* label: which one the
sampling returns must not matter. `SameTree(comp, x, y)` says that no set of
vertices closed under parents separates x and y.

**ShiloachVishkin.** `ReadHigh`, `SetChange`, `Hook` are the test, the flag and the
plain store; other threads may come between them. `before` is a history variable,
`comp` when the iteration began.

**DOBFS.** `phase` "test" is the condition of the outer loop; `GoBottomUp` and
`GoTopDown` are its two branches, `EndBottomUp` the condition of the do-while.
The bitmaps are sets of vertices; `set_bit` reads a word (the vertices n with
equal `n \div WordBits`) and writes it back in a later step. `front` is not
cleared when it is filled from the queue, as in the code. `parent` holds the
negated out-degree of unvisited vertices, which top-down CASes compare with.

**DeltaStep.** Every thread has its own `iter`; the counters are indexed with its
parity. `Barrier1` and `Barrier2` are the explicit barriers; the `single nowait`
is taken by whichever thread comes first, concurrently with the copies. Bucket
fusion, the staleness test and the retry of `RelaxEdges` are steps of their own.

**HubMapping.** The ranking of the hubs is one step, or one per thread; in the
loop over the non-hubs every access to `new_ids` is a step, and so are the claim
and the copy of a flush.

**Brandes.** `PBFS` is by thread and by edge: the test and CAS of a depth, the test
that the edge leads to the next level, the successor bit and the addition of
the path count. Scores are exact fractions over a common denominator, so that the
sum does not depend on the order of the threads.

**CSRBuild, InPlaceCSR, Reordering, Relabelled, GraphBrew.** The order of the source's
loops. Threads are interleaved where they share cells: the claims and stores of
`MakeCSR`, the ids fetched or claimed in the relabellings. Loops that fill
disjoint cells are one step. `Reordering` is given any injective partial mapping
onto the first ids, which is what the mappings promise. `GraphBrew` is given any
Leiden result, any order of an unordered map and any order of the nested
reorderings; what a vertex left out reads at index -1 is chosen from `Garbage`.

**RandomOrder, DegreeOrders, COrderSegments.** A thread's bucket or segment pass is
one step, the serial prefix sums between the regions another; the counters of
COrder's tail and the claims of `Random_v2` are single accesses. A library sort is
an order in which ties may fall as the comparison allows.

**GOrder.** The heap is a record of the linked list, the keys, the
deferred updates and the header; each method is an operator. `Place` is one
round of `GorderGreedy`: the vertex leaving the window, the one entering it, the
next one extracted, which need not have the greatest key, as in the code.
Writes past the end of the header set `overrun`.

**Rabbit.** `merge` from lock to CAS, rollback and community is a step per shared
access; `unite` is a step per list and per traced edge. The gain of a merge is a
float read from values that change: `FindBest` may choose any neighbour, or none.

**Leiden, DiGraph.** A thread takes chunks of vertices and looks at one neighbour's
community per step; the addition to the weight of a community, its capture in
the refinement and its undoing are steps; which community it prefers among those
seen is left open. The unions of lazy bitsets follow the code element by element,
in place, with the buffer it uses.

**RabbitMapping, LeidenMapping.** One action per loop or per thread of a region.
`th` holds the iterators each thread advances to a boundary of a vertex.

**Partitions, Slicer, Tiles.** Flat arrays and slices as the source lays
them out. `trust_endofprocess` is read and swapped in separate steps. Graphs carry
`directed`, because the arrays made for `num_edges_directed()` edges have an even number
of cells for a graph with one index: those arrays are modelled cell by cell, and what
lies past their end is lost. `EdgesAreSplit` is about the partitions, and about their
flat forms where those have the cells; `TrianglesKept` about graphs whose edge lists
fit, `TrustCounts` about all.

**Triangles, Intersections.** Iterators are positions; reading one past the end of a
row is a state the invariant excludes.

**Conversion, Generator.** A file is what its format keeps: lines, or words. A run
reads, reorders and writes; `Runs` of them follow each other. A random engine is
a table from seed and index to a number.

**CommandLine, Trials.** Command lines are sequences of options with or without an
argument; `getopt` and the handlers are translated, with each class's own string.
What the converter writes (`FilesWritten`, from `converter.cc`) is compared with what the
options ask for, a file for each (`FilesAsked`, from the help and README.md).
`Trials` has the kernel's and the verifier's picker and their streams.

## 3. Runs

| run | bounds | what it shows |
|---|---|---|
| afforest | 16 graphs of 4 vertices, directed and not, 2 threads, 2 sampling rounds | `Correct`: the labels are the components; `Inv`: the inductive invariant of the proofs; `SkipIsSafe`; `RefinesMerging`: ComponentMerging is implemented; `Termination`: every retry loop ends |
| shiloach_vishkin | 32 graphs of 4 vertices, 2 threads | `Correct`, `Inv`; `HooksCount`: a lost hook splits nothing and at most N iterations are made; `Termination` |
| deltastep | paths of two lengths to one vertex and longer ones, delta 2, a threshold of 2, 2 threads | `Distances`, `NoLostWork` (types, the order of the bins, no edge forgotten, the cells of the frontier), `VoteIsFinal` |
| traversals | bfs: graphs of 6 vertices over 3 bitmap words, all sources, several alpha and beta, buffers of 1 cell; sssp: a longer path; bc: graphs of several shortest paths, two iterations; 2 threads each | `TypeOK`, `TreeVerified`, `LevelsAreExact`, `RefinesLevels`; `ScoresExact`; `Terminates`, of all three |
| builders | every list of 3 edges over 5 for MakeCSR; every unweighted list of 4 vertices in place; graphs of 3 to 5 vertices for the rest; up to 3 files in a row; all command lines of 3 options; partitions of directed graphs of 5 vertices and undirected ones with self loops; 2 threads | `CellsClaimedOnce`, `BuiltGraph`, `InPlaceGraph`, `SameGraph`, `PartsHoldTheGraph`, `TrianglesCounted`, `FilesAgree`, `SameInputEverywhere`, `OptionsMeanWhatHelpSays`, `TrialsAreVerified` |
| mappings | 4 to 9 vertices, 2 or 3 threads; all partial mappings from a file; every clustering of GraphBrew; every directed graph of 3 vertices for Rabbit Order | `OnlyPermutationsPass`, `OrderedByDegree`, `HeapKept`, `CommunitiesStayTogether`, `GraphHandedOver`; `NumberedOnce`: no thread of a degree order gives a vertex a second id |
| parallel_orders | hubs: 7 vertices with 4 hubs, and undirected graphs of 4 edges, 3 threads, buffers of 1 cell; Rabbit Order: 2 graphs of 4 vertices, all orders of ties, 2 threads; Leiden: 3 graphs of 4 vertices, chunks of 2, two iterations in each of up to three passes, 2 threads | `Permutation`, `HubsFirst`; `CommunitiesAddUp` (Rabbit Order), `CommunitiesAreSound` (Leiden); `MergesStand`: nothing merged is written to or left again; `Terminates`, of all three |

Runs that are expected to find a violation, each a disagreement between the code
and what it or the documentation says (`findings`):

| run | property violated | what the code does |
|---|---|---|
| deltastep_fan | `FrontierFits` | the frontier, allocated with one cell per edge, is written past its end |
| reordering_weights | `WeightsKept` | every edge has weight 1 after a reordering |
| trust_triangles | `TrustCountsEveryTriangle` | the edge list of an oriented graph with an odd number of edges is one edge short: `tc_p` misses triangles |
| graphbrew_leiden | `ClusteredByLeiden` | communities are read by the position in sorted rows and used by vertex |
| gorder_header | `HeaderFits` | the header of the unit heap is written past its end; the check for it is compiled out |

Other places where the code goes wrong on inputs the runs leave out, met while
translating it:

* With fewer hubs than threads a buffer of `GenerateHubSortMapping` has no cell, and
  is written (builder.h 2446); with no vertex above the average degree `flush`
  divides by 0 (sliding_queue.h 102, phase `fault` of `HubMapping`).
* In a weighted graph `MakeCSRInPlace` does not find an inverse that is present with
  another weight, and adds it again (builder.h 391).
* An empty edge list makes `GenerateGraphBrewMapping` return with vertices left
  unordered (builder.h 5134), and options completed for a nested call are appended
  to those given, whatever place they are for (5103).
* `set_union_last_inplace` keeps both an element it saved in its deque and the equal
  one it adds (_algorithm.hxx 203): a vertex of the graph given to Leiden may have
  an edge twice.
* The reader of a full Leiden mapping goes through `num_nodes_`, which is -1 in a
  builder that read a serialized graph (builder.h 5355).
* -m ("reduces memory usage during graph building", README.md 289) is shown without an
  argument and declared with one (command_line.h 37): the option after it is taken for its
  value and lost. `OptionsMeanWhatHelpSays` is about command lines without it.
* -z and -w are shown with arguments in the help text and take none; the converter's
  help has -x and -q the wrong way round.
* `GenerateCOrderMapping_v2` is a permutation only if every cluster has a share of
  hubs left (`EveryClusterHasItsShare`); nothing calls it.
* The random pickers of `benchmark.h` loop for ever on a graph without edges.
* `num_edges_directed()` of a graph with one index is even (graph.h 279, 357-360). Where
  the index has an odd number of entries (a slice of Cagra, a TRUST partition),
  `flattenGraphOut` writes one cell past `neighbors_` and `weights_` (graph.h 579-632); the
  edge vectors the orders make of the local graphs of GraphBrew's communities (builder.h
  1839, then 3989, 4368, 4437, 4642, 4749) are one cell short in the same way. The
  modules of those orders are given graphs that are directed or have an even number of entries.
* A directed graph sliced with `outDegree` false (builder.h 3268-3272), as the comment at 3141
  asks for in pull implementations and `tc_p -z` does, has no out-index, which its
  constructor reads (graph.h 283-291): phase `crashed` of `Slicer`.
* The converter's help and README.md (223-228, 239-245) give each option of a format a file of
  its own, but one `out_filename_` and one label name are kept (command_line.h 422,
  453-482): with different names every format is written under the last one, and the
  others are dropped. README's examples, whose names differ in their extensions only, work. Hence `OneName` in
  `OptionsMeanWhatHelpSays`.
* `DecreaseTop` at the end of the list reads `LinkedList[-1].key` (GoUnitHeap.h 127), memory
  before the vector. It is a parameter of `GOrder` (`Before`) and 0 in the runs, a value
  that ends the search; other values are not tried.

Two things are narrowed. `Relabelled` leaves out `createOnlyDegList` and
`createBothCSRs` both false, which would leave a null index (builder.h 3443-3478, 3613-3648) and
which nothing asks for. And `compare_exchange_weak` in Rabbit Order fails only if the
value has changed, as on x86-64, which the build is for (-mcx16, Makefile 71): "the merge never
fails" (`AssertionsHold`) and `Terminates` are not shown for processors that fail without a reason.

**Why these bounds.** The races of the component kernels involve two threads and
a tree of at most three levels; four vertices give two trees and a third vertex
that moves both, and a vertex with more neighbours than are sampled. A BFS race
needs a vertex with two parents; lost bits need two words; a stale bitmap needs
the direction to change three times. Bins need distances in two bins and a vertex
improved within one. The successor bitmap, queue and depths of bc are used again
by the second source. A hub that takes the id of a hub needs two hubs at or above
`numHubs`, and a buffer that one thread flushes early needs fewer cells than
`numHubs`. A rollback of Rabbit Order needs two threads that merge into a third
vertex, which four vertices give in every order of ties. Leiden's second pass
needs a path whose first pass leaves two communities with an edge between them.
The heap needs several vertices of one key and one that leaves the window while
another enters. Two files in a row show that labels compose, a third that they
compose in the right order. Each of these cases is confirmed by a mutant its run
rejects. What is proved depends on none of these bounds.

**Deadlock** is checked in the runs builders and mappings: their components stop in a step
of their own that changes nothing. The others say `CHECK_DEADLOCK FALSE` because every model
is of a function that returns; that it does return is their Termination property.

**Fairness.** Weak fairness of each thread and of the end of each loop: OpenMP
threads are operating-system threads, each of which is scheduled again and again
until the region ends. No fairness among the choices of a thread is assumed, and
none that makes a CAS succeed.

## 4. Proofs

Seven modules hold theorems about components, an eighth (`CommonFacts`) the lemmas they
share. Everything is proved for every N, every set of inputs the assumptions
allow, every set of threads and every interleaving; the theorems are listed in
`PROJECT.json`, with the property a run checks where there is one.

**Assumptions.** `NAssumption` (a graph has a vertex); `GraphsAssumption` and the
first part of `DOBFSAssumption` (in-lists are the inverse of out-lists, what
`BuiltGraph` shows of the construction); `NeighborRounds`, alpha, beta, words, chunks, buffers
and blocks are positive, and a chunk is a multiple of a word, which the literal 1024
of `bfs.cc` is; `CSRBuildAssumption` (an edge list is a sequence of edges between vertices,
finitely many threads); `HubAssumption` (threads are 0 to t - 1, as the static parts
need); `DeltaStepAssumption` (there is a vertex and a thread, delta is positive, and weights are
natural numbers, which delta-stepping and the verifier's Dijkstra both need); `OfRabbit` (finite graphs with
positive weights, threads 0 to t - 1, the stride of the loop); `OfReorder`
(the lists of a graph are sorted by id and equal on both sides of an undirected graph, which is how the
builder leaves them; there are fewer vertices than `NodeID_` has positive values, and `size_t` wraps around at a
multiple of what `NodeID_` wraps around at); `OfRelabel` (lists of vertices, threads 0 to t - 1); `OfLeiden` (symmetric weights that are
natural numbers, which `symmetricize` gives; the chunk and the bounds on iterations and passes are positive). TLC evaluates each of them in the runs.

**Induction.** The theorems of the library that take the property as an operator
cannot be used with this prover. `CommonFacts` says instead that a set of numbers that
is not empty has a least member (`LeastNumber`), so that what holds at 0 and is
passed on holds up to n (`AllUpTo`), and that the recursive functions of
the models (`SumOf`, `ReachedFrom`, the climb of `TreeOf`) exist and satisfy their equations
(`Iteration`, `RunningSum`). The fold of the community modules over a finite set is a recursive
function over the sets below it: `SetSumFacts` proves, by induction over finite sets
(`SubsetsInduct`), that it exists and that taking one element out takes its value away; from it follow
that sums add up over parts (`SetSumSplit`), over the classes of a function (`SumOfFibers`) and in either order
of two variables (`SwapSums`).

**Connectivity without recursion.** `SameTree` and `SameComponent` quantify over sets closed
under parents, or edges. A step that keeps every closed set closed keeps every
pair connected; `CommonFacts` states this for a hook (`HookRespects`) and for a shortcut
(`ShortcutRespects`), shows that in a flat forest that is sound and has every edge within
a tree the labels are the components (`LabelsAreComponents`), and that the translated
`CCVerifier` accepts exactly those labels (`VerifierExact`).

**Afforest.** `SameTree` never loses a pair (`TreesGrow`). So what a thread has
learned stays true however stale its locals are: the invariant says that `p1` and
`p2` are in the trees of the two ends of the edge being linked (`LinkInv`), that
edges of rounds done and of vertices finished are within trees (`SampledInv`,
`FinalInv`), and that a value about to be stored by Compress is an ancestor that is
not separated by any set respecting the parents below (`CompressInv`). From this:
`Correctness`, `Accepted`, `LowestLabels`, `SkippingIsSafe`, `Descent` and `Flatness`.
`Correct` alone is not inductive: it says nothing before the end. `Refinement` maps the
classes of ComponentMerging to the trees (`TreeOf`): a successful CAS unites two classes
along the edge it was read from, every other step leaves the classes as they are,
and the last one answers with lowest members.

**ShiloachVishkin.** Trees do not only grow here: a lost hook takes an edge away.
What is invariant is conditional on the flag: as long as `change` is FALSE nothing
was written in this iteration, the forest is flat, and every edge already done
has equal labels (`QuietInv`). When the loop ends with `change` FALSE all edges are
done (`EdgesJoinLabels`). A root test that is stale does no harm since labels
descend and stay within the component (`HookInv`, `Descends`, `Sound`). `EveryIterationCounts` needs
a second invariant (`Kept`): only vertices that were roots when the iteration began are
hooked, so that a hook overwrites hooks of its own iteration only; a stale parent is
still joined to its vertex by the parents below (`Joined`); and once the flag is up a
root of the beginning is hooked or about to be, so that each iteration costs one.

**DOBFS.** The depth being searched is not a variable, so the invariant quantifies
it: there is a d such that the window of the queue, or the bitmap of the
bottom-up search, is the level d, and `Reached[d]` is within `Visited`, which is within
`Reached[Deeper(d)]`. The bitmap `front` is filled without being cleared; what is true is that
its bits that lie at d or deeper are the level, the others are of levels searched
before and have no neighbour left to adopt. Completeness of a level is a progress
set: whoever is at d + 1 and not visited is still ahead of a thread (`Pending` in a
top-down level, `Unlooked` in a bottom-up one), and a vertex that has a parent and no
bit yet is in `BitsToCome`. No bit is lost because words are not shared between chunks
(`WordInChunk`), which is where the assumption on `ChunkSize` is used. `QueueInv` says that queue
and buffers hold different vertices: hence N cells are enough (`RoomToFlush`) and
`LevelsAreExact`. At the end every vertex reached has a parent one level up (`TreeInv`), which is
`TreeVerified`. For `Refinement` a step is quiet, adopts one vertex from the level, or
goes one level deeper when nobody is left to adopt.

**DeltaStep.** All threads are in one of two phases, the relaxing or the copying one, and have
one parity p of the iteration (`Working`, `Copying`); the invariant is stated once per phase
(`First(p)`, `Second(p)`), and p is quantified because it is no variable. Work is never
lost (`FirstWork`, `SecondWork`): the source of an edge that could improve a distance is in
the bin of its distance, in the frontier, or held by a thread that has not tried
the edge or is about to write that very improvement. This alone is not inductive. A
stale entry may be skipped only because whatever made it stale put the vertex into a
lower bin which was relaxed already, so one needs that bins below the current one are empty
(`LowerEmpty`), that an entry may be below its bin but never above (`BinsBound`), that in the
current bin it is exactly there (`FirstBins`), and that a vote is for the
lowest bin in use. The cells claimed by copying threads are disjoint and all others
below the tail are written (`Cells`). `oldDist` of a failed CAS is at least the distance now, so
that a retry ends with the value re-read. For `Shortest` the oracle, N rounds from the
source, is shown to be a fixed point (`RoundsSettle`: with weights that are not negative each
round settles one more vertex, so that N rounds are enough); distances never
fall below it (`LongEnough`), and with no work left they are not above it. `DistInf` is a multiple of
delta here; the source's is half the greatest int, and paths as long as it
are not taken in either.

**CSRBuild.** `offsets[v]` and the ends of edges still to be claimed for v add up to
`Index[v + 1]` (`Counts`): a claim never leaves its row, and rows are disjoint because the
prefix sums ascend. A cell held is empty and held once (`Cells`); a cell claimed and not held
holds what the list puts there (`Filled`); what the list puts into a row is there, or in a
thread's hands, or in an edge not taken (`Arriving`). When the loop ends no end is left, so
the rows are full and hold exactly the list (`Complete`), and `SquishedRow` and `KeptIs` turn that into
`BuiltGraph`. `ParallelPrefixSumExact` shows that the block-wise offsets are the prefix sums for every size of
block.

**Relabelling.** `SameGraph` of `MCBuilders` is about two modules, and `RenamingInv` holds an invariant for each.
For `Reordering`, what the run checks at the end of a reordering has to be known at every
moment of the next: `org_ids` names each vertex once, and a vertex has each neighbour under
the names as often as at the start (`NamesInv`). While ids are given to the vertices a mapping leaves
out, the ids so far are 0 to k - 1, each once (`Numbers` in `FillingInv`), where k is no variable but the
number of vertices that have one; `max_id` is k - 1 as a `size_t`, which is its largest value when nobody
has an id yet, and its successor is 0 (`LargestId`). The rows are written in any order to
places which the prefix sums of the new degrees set apart (`LaidOut`, `RowWritten`, `CellsApart`), so that a row
written stays as it is. A row written is the sorted list of the new names of the old row
(`RenamedList`): sorting is defined by positions in the models, with ties broken by place, so that the sorted list is the
old one along a permutation of its places (`SortsPermute`, `SortedFacts`) and has each member as often
(`PermutedCount`). Composing the names of a reordering with those before gives `NamesInv` again.
For `Relabelled` a vertex still without an id is left to one thread, and the ids claimed
are exactly those given (`ClaimsInv`), so that a thread that lost an id to another cannot take it twice; once nobody is
left, as many ids are claimed as there are vertices, so all are (`AllClaimed`). For the order by
degrees `RanksInv` says that the list sorted has each vertex once. The rows of the thread's parts are
laid out as above (`BuildingInv`), and graphs finished are no longer written (`ResultInv`).

**HubMapping.** Ranks are not input: `Rank` counts the hubs before a hub, which the marks
of a thread's part and their prefix sums compute (`Opening`). In the first loop
every vertex from `numHubs` on is in `todo`, in the hands of a thread, at its own id, swapped with
the vertex whose position its hub took, or waiting in a buffer or the queue (`Complete`, `Contents`):
ids move between vertices of different threads, but each has one place. A claim of a
flush is disjoint from the others (`Queue`). In the last loop the cells of the queue not handed
out yet hold exactly the ids nobody has (`Window0`), and counting them shows there is one for
every vertex left. The theorems hold of the model for all degrees; with fewer hubs
than threads, or none, the code also writes past its buffers, or divides by 0
(section 3), which they say nothing about.

**Rabbit.** `Frozen` says that what `unite()` reads of a merged vertex without a lock stays as it
is. Alone it is not inductive: one has to know that nobody else holds that vertex. `RabbitInv`
says that each vertex is at one place of one thread (`Once`, `Apart`): in its queue, pending, or
still to come, the turns of two threads being different residues of the number of
threads. The strengths of all vertices not yet tried are natural numbers (`Open`), and that of
the vertex held is negative exactly while its thread has kept the old one (`Control`). So a
locked vertex is either its own thread's or merged, and a compare-and-swap, which expects
the natural number `FindBest` saw, fails on it. In the beginning strengths are sums of weights,
hence natural (`StrengthsNatural`). Which neighbour is best is left open, so that the theorem does not
depend on the gain in modularity; `MCParallelOrders` is the module proved about, and the
theorems are about its `MCSpec`, of which Rabbit Order is one of three parts.

**Leiden.** What the run checks, `CommunitiesAreSound`, is a conjunction of five statements about different moments of the
algorithm, and none of its parts is inductive. `LeidenInv` adds what they rest on. A vertex is handed to
one thread: the chunks, or what is left of them, are disjoint (`SharesApart`), so that no other thread
writes the community of a vertex under way. The weight of a community
is that of the vertices `Inside` it, each of which is counted once: where it is, or, between the two
additions, where it has been or is going (`Balance`); so a move that another overtook, or that was
taken back, costs nothing. The refinement begins with every vertex alone in a community of its
own id (`Refining`), and one that is about to leave has not moved: whoever else is in its
community has come, with a weight that is not zero, so that the weight captured tells
(`WeightTells`, `Stand`). Between two passes the weight of an edge of the graph in hand is that of
the edges of the first graph between the vertices of its two ends (`Exact`): aggregation sums groups
of groups, which `GroupsOfGroups` shows to be sums over the first graph. Mappings coarsen
because each is the membership before it, followed by one more function (`Nested`).
The last part is a fact about the ids: counting who is before a vertex by the key <last
column, vertex> enumerates the vertices (`RankingEnumerates`). As in Rabbit Order the community a vertex
prefers is left open, and so the theorems say nothing of modularity.

**RandomOrder.** A slot is claimed exactly if some vertex has its id (`ClaimInv`), so that
claims made after a stale test still give each id once. `VerifyMapping` compares a sorted
copy with 0, 1, ...: `SortedCopy` is characterised by how many ids lie below it, and equal
to the identity exactly for permutations, whichever thread compares what (`CompareInv`).

*Only model-checked.* Termination everywhere (liveness and fairness are beyond the prover);
betweenness (`ScoresExact`), the construction in place, partitions
and tiles, triangles, the sums of Rabbit Order (`CommunitiesAddUp` walks the dendrogram, a
recursion over data), the mappings made of Rabbit's and Leiden's communities, GOrder, GraphBrew, the
other degree-based orders, files, generators, options and trials. Several of
these modules use folds or recursive operators of the community modules, which
this prover does not expand; what they compute for every input stays with TLC.

## 5. Plan

Done: the component kernels, BFS, delta-stepping, the CSR construction, relabelling, the hub mappings and
the random and loaded mappings, the locks of Rabbit Order and Leiden with proofs; betweenness; construction in
place, partitions and tiles; triangles; all orders; the graphs Leiden and Rabbit Order
are given; files, generators, options and trials.

Next:

1. Theorems: `Triangles` (each triangle once); `InPlaceCSR` (the rows of the list).
2. The nested call of GraphBrew as a call of the orders themselves, so that
   `GenerateMappingLocalEdgelist` is modelled and not only its result.
3. An abstract stable partition that DBG, HubClusterDBG and HubCluster refine.

## 6. Not modelled

The parts with status `not_modelled` in `PROJECT.json`, each with its reason:
PageRank, whose convergence in floating point is no finite-state question;
vendored code no benchmark calls (Louvain, label propagation, the dynamic
variants of Leiden); containers and atomics without a protocol of their own;
scripts. Of the parts modelled: the value of a gain in modularity, the characters
of file formats, timing and printing, and input the code does not guard against
beyond what is listed in section 3.
