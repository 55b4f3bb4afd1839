----------------------------- MODULE MCMappings -----------------------------
(***************************************************************************)
(* How new ids are found: the orders that need no graph (RandomOrder), the *)
(* ones by degree, GOrder and RCM, and those by communities, with the      *)
(* graphs Leiden and Rabbit Order are given and the mappings made of their *)
(* results.  A behaviour runs one component, `which'; the variables of     *)
(* RandomOrder keep an initial state, and those the component does not use *)
(* are not set.  A name that RandomOrder uses too begins with o_ here, and *)
(* a single letter has a _.                                                *)
(***************************************************************************)
EXTENDS RandomOrder, Containers, Sequences, FiniteSetsExt

CONSTANTS
  Parts,                                  \* the components of this run
  NineRows, GOrderKinds, Window,          \* Graphs, Kinds and Window of GOrder
  Brewed, Thresholds, Algorithms, Levels  \* Inputs and options of GraphBrew

-----------------------------------------------------------------------------
(* Degrees. *)

Vertices6 == 0 .. 5
Sum6(deg) == FoldSet(LAMBDA i, acc : deg[i] + acc, 0, Vertices6)

\* An average of one and degrees in four buckets.
SomeDegrees ==
  {[degree |-> deg, in_degree |-> [i \in Vertices6 |-> (i * i) % 3], num_edges |-> Sum6(deg)] :
     deg \in {f \in [Vertices6 -> {0, 1, 2, 5}] : Sum6(f) = 7}}

\* Hubs and other vertices, in three segments of three.
HubsOrNot == [degree : [0 .. 6 -> {0, 3}], num_edges : {7}]

-----------------------------------------------------------------------------
(* Graphs for GOrder: rows of nine vertices. *)

Rows(E) == [i \in 0 .. 8 |-> {e[2] : e \in {f \in E : f[1] = i}}]
Both(E) == E \cup {<<e[2], e[1]>> : e \in E}

\* Vertices 0 to 2 have three successors each, which is not yet huge, and
\* share some of them; any of the other edges; vertex 8 often has none.
RowsOfNine ==
  LET common == {<<0,3>>, <<0,4>>, <<0,5>>, <<1,4>>, <<1,5>>, <<1,6>>, <<2,3>>, <<2,5>>, <<2,6>>}
      others == {<<3,0>>, <<4,2>>, <<5,6>>, <<6,1>>, <<7,5>>, <<7,8>>}
  IN  {Rows(common \cup E) : E \in SUBSET others} \cup {Rows(Both(E)) : E \in SUBSET others}

SomeRanks == {[i \in 0 .. 8 |-> i], [i \in 0 .. 8 |-> 8 - i], [i \in 0 .. 8 |-> (i + 2) % 9]}

\* Six vertices pointing to the same three: three is not huge.
SharedTargets == {Rows((0 .. 5) \X (6 .. 8))}

-----------------------------------------------------------------------------
(* Communities: numbered from 0 by their first vertex, and graphs that are *)
(* a path and one with vertices no edge touches.                           *)

Vertices4 == 0 .. 3

FromEdges(E) ==
  LET list(a) == Listed({b \in Vertices4 : {a, b} \in E}, <)
      lists == [a \in Vertices4 |-> list(a)]
  IN  [directed |-> FALSE, out |-> lists, in |-> lists]

Clusterings ==
  {c \in [Vertices4 -> Vertices4] :
     \A a \in Vertices4 : c[a] = 0 \/ \E b \in 0 .. (a - 1) : c[b] >= c[a] - 1}

Clustered ==
  [graph : {FromEdges({{0, 1}, {1, 2}, {2, 3}}), FromEdges({{0, 1}, {1, 3}})}, comm : Clusterings]

\* Two communities whose vertices take turns.
Alternating == [graph : {FromEdges({{0, 2}, {1, 3}})}, comm : {[a \in Vertices4 |-> a % 2]}]

Unread == -1
Words == {Unread, 0}

\* No pass of Leiden, or two, the second of which merges communities of the
\* first; the full mapping also of a graph whose number of nodes is not set.
Coarser(c, f) == \A a, b \in Vertices4 : c[a] = c[b] => f[a] = f[b]
Nested == {<< >>} \union {s \in {<<c, f>> : c, f \in [Vertices4 -> 0 .. 1]} : Coarser(s[1], s[2])}

SomePasses ==
  {[kind |-> k, degree |-> deg, deg_x |-> deg, num_edges |-> 5, mapping |-> s, num_nodes_ |-> 4] :
     k \in {"last", "full"}, deg \in [Vertices4 -> {0, 1, 3}], s \in Nested}
  \union
  {[kind |-> "full", degree |-> deg, deg_x |-> deg, num_edges |-> 4, mapping |-> << >>, num_nodes_ |-> -1] :
     deg \in [Vertices4 -> {0, 1}]}

-----------------------------------------------------------------------------
(* Graphs for Rabbit Order: directed graphs of three vertices, and edge    *)
(* lists of at most three: there the in-lists are the out-lists (an        *)
(* undirected CSRGraph).  Vertex 0 may have a loop.                        *)

Vertices3 == 0 .. 2
RowsOf(V, E)    == [a \in V |-> Listed({b \in V : <<a, b>> \in E}, <)]
ColumnsOf(V, E) == [a \in V |-> Listed({b \in V : <<b, a>> \in E}, <)]

Pairs3 == {e \in Vertices3 \X Vertices3 : e[1] # e[2] \/ e[1] = 0}

WholeGraphs == {[kind |-> "whole", n |-> 3, out |-> RowsOf(Vertices3, E), in |-> ColumnsOf(Vertices3, E)] :
                  E \in SUBSET Pairs3}

MostOf(E)  == Max({e[1] : e \in E} \union {e[2] : e \in E})
ListOf(E)  == LET V == 0 .. MostOf(E)
              IN  [kind |-> "list", n |-> MostOf(E) + 1, out |-> RowsOf(V, E), in |-> RowsOf(V, E)]
ListGraphs == {ListOf(E) : E \in SUBSET Pairs3 \ {{}}}

WeightedEdges == [u : Vertices3, v : Vertices3, w : {1, 2}]
Short(k)  == [1 .. k -> WeightedEdges]
EdgeLists == {[kind |-> "edgelist", edges |-> s] : s \in Short(0) \union Short(1) \union Short(2)}
               \union {[kind |-> "single", edges |-> s] : s \in Short(1)}

ForRabbit == WholeGraphs \union ListGraphs \union EdgeLists

-----------------------------------------------------------------------------
(* Graphs for DiGraph, the heavy edges weighing more: every one whose edges *)
(* are at vertex 2, with a loop or an edge besides or without; the two     *)
(* directions of an edge may weigh the same or not.  Undirected are those  *)
(* that look the same from both ends.                                      *)

Vertices5 == 0 .. 4
Weighted(rows, heavy(_, _)) ==
  [a \in Vertices5 |-> [k \in DOMAIN rows[a] |-> <<rows[a][k], IF heavy(a, rows[a][k]) THEN 2 ELSE 1>>]]
CSRGraph(E, heavy) ==
  LET outs == Weighted(RowsOf(Vertices5, E), LAMBDA a, b : <<a, b>> \in heavy)
      ins  == Weighted(ColumnsOf(Vertices5, E), LAMBDA a, b : <<b, a>> \in heavy)
  IN  [directed |-> outs # ins \/ \E a \in Vertices5 : <<a, a>> \in E, out |-> outs, in |-> ins]

AtTwo == {e \in Vertices5 \X Vertices5 : (e[1] = 2) # (e[2] = 2)}

GraphsAtTwo ==
  {CSRGraph(E \union E2, heavy) : E \in SUBSET AtTwo, E2 \in {{}, {<<2, 2>>}, {<<0, 1>>}},
                                   heavy \in {{<<1, 2>>}, {<<1, 2>>, <<2, 1>>}}}

-----------------------------------------------------------------------------

VARIABLES
  which, input, o_kind, o_new_ids, o_phase, o_todo, local, start, index, large_segment,
  small_segment, pending, out, visit, head, order_l1, heap, zero, overrun, order, algo,
  numLevels, frequency_threshold, reordering_options, comm_ids, top_communities, idx,
  local_ids, new_ids_local, ss, adj, coms, m2, degs, edges, o_th, rows, column,
  interim_ids, interim_ids_inv, local_buckets, start_k, new_ids_interim, x_, next,
  exists, size

all ==
  <<which, vars,
    input, o_kind, o_new_ids, o_phase, o_todo, local, start, index, large_segment,
    small_segment, pending, out, visit, head, order_l1, heap, zero, overrun, order,
    algo, numLevels, frequency_threshold, reordering_options, comm_ids, top_communities,
    idx, local_ids, new_ids_local, ss, adj, coms, m2, degs, edges, o_th, rows, column,
    interim_ids, interim_ids_inv, local_buckets, start_k, new_ids_interim, x_, next,
    exists, size>>

Degree == INSTANCE DegreeOrders
            WITH N <- 6, Inputs <- SomeDegrees,
                 Kinds <- {"Sort", "SortRabbit", "DBG", "HubClusterDBG", "HubSortDBG", "COrder"},
                 NumThreads <- 3, NumBuckets <- 4, PartitionSize <- 3, kind <- o_kind,
                 new_ids <- o_new_ids, phase <- o_phase, todo <- o_todo
Corder == INSTANCE COrderSegments
            WITH N <- 7, Inputs <- HubsOrNot, NumThreads <- 3, ClusterSize <- 3,
                 phase <- o_phase, todo <- o_todo, new_ids <- o_new_ids
Greedy == INSTANCE GOrder
            WITH N <- 9, Graphs <- NineRows, Kinds <- GOrderKinds, Ties <- SomeRanks,
                 Before <- 0, phase <- o_phase, kind <- o_kind, new_ids <- o_new_ids
Brew == INSTANCE GraphBrew
          WITH Inputs <- Brewed, Options <- {<<"frequency", "algorithm", "resolution">>},
               Garbage <- Words, new_ids <- o_new_ids, phase <- o_phase
ByRabbit == INSTANCE RabbitMapping
              WITH N <- 3, Inputs <- ForRabbit, NumThreads <- 3, Garbage <- {0},
                   phase <- o_phase, th <- o_th, todo <- o_todo, new_ids <- o_new_ids
Passes == INSTANCE LeidenMapping
            WITH Inputs <- SomePasses, NumThreads <- 2, NumBuckets <- 3,
                 Garbage <- {0, 3}, phase <- o_phase, todo <- o_todo, new_ids <- o_new_ids
Copied == INSTANCE DiGraph
            WITH N <- 5, Inputs <- GraphsAtTwo, NumThreads <- 2, Chunk <- 2,
                 phase <- o_phase, x <- x_, todo <- o_todo

ASSUME
  /\ Degree!DegreeOrdersAssumption /\ Greedy!GOrderAssumption
  /\ Brew!GraphBrewAssumption

-----------------------------------------------------------------------------
(* Variables and the components that use them. *)

Frame(Still(_, _)) ==
  /\ Still(input, {"degree", "corder", "gorder", "brew", "by-rabbit", "by-leiden",
                   "digraph"})
  /\ Still(o_kind, {"degree", "gorder"})
  /\ Still(o_new_ids, {"degree", "corder", "gorder", "brew", "by-rabbit", "by-leiden"})
  /\ Still(o_phase, {"degree", "corder", "gorder", "brew", "by-rabbit", "by-leiden",
                     "digraph"})
  /\ Still(o_todo, {"degree", "corder", "by-rabbit", "by-leiden", "digraph"})
  /\ Still(local, {"degree"}) /\ Still(start, {"degree"}) /\ Still(index, {"degree"})
  /\ Still(large_segment, {"corder"}) /\ Still(small_segment, {"corder"})
  /\ Still(pending, {"corder"})
  /\ Still(out, {"gorder"}) /\ Still(visit, {"gorder"}) /\ Still(head, {"gorder"})
  /\ Still(order_l1, {"gorder"}) /\ Still(heap, {"gorder"}) /\ Still(zero, {"gorder"})
  /\ Still(overrun, {"gorder"})
  /\ Still(order, {"gorder", "digraph"})
  /\ Still(algo, {"brew"}) /\ Still(numLevels, {"brew"})
  /\ Still(frequency_threshold, {"brew"}) /\ Still(reordering_options, {"brew"})
  /\ Still(comm_ids, {"brew"}) /\ Still(top_communities, {"brew"})
  /\ Still(idx, {"brew"}) /\ Still(local_ids, {"brew"})
  /\ Still(new_ids_local, {"by-rabbit"}) /\ Still(ss, {"by-rabbit"})
  /\ Still(adj, {"by-rabbit"}) /\ Still(coms, {"by-rabbit"}) /\ Still(m2, {"by-rabbit"})
  /\ Still(degs, {"by-rabbit"})
  /\ Still(edges, {"by-rabbit", "digraph"})
  /\ Still(o_th, {"by-rabbit"})
  /\ Still(rows, {"by-leiden"}) /\ Still(column, {"by-leiden"})
  /\ Still(interim_ids, {"by-leiden"}) /\ Still(interim_ids_inv, {"by-leiden"})
  /\ Still(local_buckets, {"by-leiden"}) /\ Still(start_k, {"by-leiden"})
  /\ Still(new_ids_interim, {"by-leiden"})
  /\ Still(x_, {"digraph"}) /\ Still(next, {"digraph"})
  /\ Still(exists, {"digraph"}) /\ Still(size, {"digraph"})

Unset(x, users) == IF which \in users THEN TRUE ELSE x = 0
Same(x, users)  == IF which \in users THEN TRUE ELSE UNCHANGED x

MCInit ==
  /\ which \in Parts
  /\ Frame(Unset)
  /\ IF which = "random" THEN Init ELSE kind = "Map" /\ Init

  /\ which = "degree" => Degree!Init
  /\ which = "corder" => Corder!Init
  /\ which = "gorder" => Greedy!Init
  /\ which = "brew" => Brew!Init
  /\ which = "by-rabbit" => ByRabbit!Init
  /\ which = "by-leiden" => Passes!Init
  /\ which = "digraph" => Copied!Init

Step ==
  \/ which = "random" /\ Next
  \/ which = "degree" /\ Degree!Next
  \/ which = "corder" /\ Corder!Next
  \/ which = "gorder" /\ Greedy!Next
  \/ which = "brew" /\ Brew!Next
  \/ which = "by-rabbit" /\ ByRabbit!Next
  \/ which = "by-leiden" /\ Passes!Next
  \/ which = "digraph" /\ Copied!Next

\* GraphBrew has no step of its own for its end.
Ended == which = "brew" /\ o_phase = "returned"

MCNext ==
  \/ /\ UNCHANGED which /\ Frame(Same)
     /\ which # "random" => UNCHANGED vars
     /\ Step
  \/ Ended /\ UNCHANGED all

MCSpec == MCInit /\ [][MCNext]_all

-----------------------------------------------------------------------------
(* Properties *)

(***************************************************************************)
(* Wherever sort ranks equal degrees, hubs come before the others and in   *)
(* the order the variant promises, the threads' parts put together; the    *)
(* hubs are spread over the segments evenly; and RCM numbers a vertex      *)
(* after one of its neighbours, by degree.                                 *)
(***************************************************************************)
OrderedByDegree ==
  /\ which = "degree" => Degree!OrderedByDegree /\ Degree!HubsAreSpread
  /\ which = "corder" => Corder!HubsAreSpread
  /\ which = "gorder" => Greedy!CuthillMcKee

(***************************************************************************)
(* The unit heap of GOrder is one list, sorted by key, whose header leads  *)
(* to the first and last vertex of every key; the keys are the scores of   *)
(* the vertices in the window; and every vertex is placed once.            *)
(***************************************************************************)
HeapKept ==
  which = "gorder" => Greedy!HeapKept /\ Greedy!ScoreKept /\ Greedy!Permutation

(***************************************************************************)
(* Vertices of a community are next to each other in the new order: the    *)
(* lists of GraphBrew, every pass of Leiden within the ones above it, and  *)
(* no two vertices of the order are given one id, whatever the local       *)
(* reorderings leave out; and the modularity Rabbit Order prints is the    *)
(* one of its communities.                                                 *)
(***************************************************************************)
CommunitiesStayTogether ==
  /\ which = "brew" => /\ Brew!TypeOK /\ Brew!StartOfPermutation
                       /\ Brew!ListsStayTogether /\ Brew!LargestStayWhole
  /\ which = "by-leiden" => Passes!CommunitiesInOrder /\ Passes!FullOrder
  /\ which = "by-rabbit" => ByRabbit!EndsAreNumbered /\ ByRabbit!ModularityIsExact

(***************************************************************************)
(* The graphs the orderings copy for themselves have the edges of the CSR  *)
(* graph: in both directions for Leiden, which leaves an undirected one as *)
(* it is, and for Rabbit Order with each neighbour once, however the edges *)
(* are divided among the threads.                                          *)
(***************************************************************************)
GraphHandedOver ==
  /\ which = "digraph" => Copied!BothWays /\ Copied!UndirectedIsUnchanged
  /\ which = "by-rabbit" => ByRabbit!ListsAreWhole

(***************************************************************************)
(* A thread of a hub ordering never gives a vertex a second id.            *)
(***************************************************************************)
NumberedOnce == [][which = "degree" => Degree!NumberedOnce]_all

\* "Leiden community clustering": vertices are in one list if and only if
\* Leiden put them in one community.
ClusteredByLeiden == which = "brew" => Brew!ClusteredByLeiden

\* "IncrementKey: key+1>=Header.size()": the header has an entry for every
\* key.
HeaderFits == which = "gorder" => Greedy!HeaderFits
=============================================================================
