---------------------------- MODULE RabbitMapping ----------------------------
(***************************************************************************)
(* What bench/include/gapbs/builder.h does around Rabbit Order             *)
(* (Rabbit.tla): the graph is sorted by degree and relabelled, its edges   *)
(* are put into both directions and sorted, every thread reduces its part  *)
(* of them to neighbour lists, and the order found is composed with the    *)
(* sort.  `kind' is the caller: "whole" is the case of GenerateMapping,    *)
(* "list" that of GenerateMappingLocalEdgelist, whose arrays are those of  *)
(* the graph the edge list was taken from; "edgelist" is                   *)
(* GenerateRabbitModularityEdgelist, which wants the modularity alone, and *)
(* "single" GenerateRabbitOrderMappingEdgelist, which does without it      *)
(* (nothing calls it at this commit).                                      *)
(*                                                                         *)
(* The communities found and the permutation computed from them are        *)
(* arbitrary here.  A loop over disjoint cells that ends in a barrier is   *)
(* one step; a thread of make_adj_list takes one step per neighbour list,  *)
(* one of compute_modularity a single one, its critical section.  Weights  *)
(* are whole numbers, and the modularity is a multiple of 1 / m2^2.        *)
(***************************************************************************)
EXTENDS Containers, Integers, Sequences, FiniteSets, SequencesExt

CONSTANTS
  N,            \* g_org.num_nodes()
  Inputs,       \* [kind, n, out, in]: a graph of n <= N vertices, its lists of ids;
                \* or [kind, edges]: a sequence of [u, v, w]
  NumThreads,
  Garbage       \* what a read of new_ids_local_2[-1] may return

NodeID == 0 .. (N - 1)
ThreadIds == 0 .. (NumThreads - 1)
None == -1

VARIABLES
  input, phase,
  new_ids_local,
  edges,
  ss,              \* the edges in both directions, sorted
  adj,             \* vertex -> sequence of <<neighbour, weight>>
  th,              \* per thread: [it, last], its part of ss (positions from 0)
  todo,            \* threads that have not merged their degrees yet
  coms, m2, degs,  \* degs: community -> <<all, loop>>
  new_ids

vars == <<input, phase, new_ids_local, edges, ss, adj, th, todo, coms, m2, degs, new_ids>>

OfEdges == input.kind \in {"edgelist", "single"}

Init ==
  /\ input \in Inputs
  /\ phase = IF OfEdges THEN "list" ELSE "sort"
  /\ edges = IF OfEdges THEN input.edges ELSE << >>
  /\ new_ids_local = [v \in NodeID |-> None]
  /\ ss = << >> /\ adj = << >> /\ coms = << >> /\ degs = << >> /\ m2 = 0
  /\ th = [t \in ThreadIds |-> [it |-> 0, last |-> 0]]
  /\ todo = {}
  /\ new_ids = [v \in NodeID |-> None]

-----------------------------------------------------------------------------
(* GenerateSortMappingRabbit, RelabelByMapping and readRabbitOrderGraphCSR.  *)
(* Relabelling leaves every edge the weight 1.                               *)

Degree(v) == Len(input.out[v])
InDegree(v) == Len(input.in[v])
IsIsolated(v) == Degree(v) = 0 /\ InDegree(v) = 0

SortsBefore(u, v) ==
  /\ ~IsIsolated(u)
  /\ \/ IsIsolated(v)
     \/ Degree(u) > Degree(v)
     \/ Degree(u) = Degree(v) /\ InDegree(u) > InDegree(v)

Local == 0 .. (input.n - 1)
StableRank(v) == Cardinality({u \in Local : SortsBefore(u, v) \/ (u < v /\ ~SortsBefore(v, u))})

SortByDegree ==
  /\ phase = "sort"
  /\ new_ids_local' = [v \in NodeID |-> IF v \in Local THEN StableRank(v) ELSE None]
  /\ phase' = "relabel"
  /\ UNCHANGED <<input, edges, ss, adj, th, todo, coms, m2, degs, new_ids>>

EdgesOf(id) == LET row == input.out[CHOOSE v \in Local : new_ids_local[v] = id]
               IN  [i \in 1 .. Len(row) |-> [u |-> id, v |-> new_ids_local[row[i]], w |-> 1]]

ReadEdges ==
  /\ phase = "relabel"
  /\ edges' = FlattenSeq([i \in 1 .. input.n |-> EdgesOf(i - 1)])
  /\ phase' = "list"
  /\ UNCHANGED <<input, new_ids_local, ss, adj, th, todo, coms, m2, degs, new_ids>>

-----------------------------------------------------------------------------
(* make_adj_list.                                                            *)

Ends == {edges[i].u : i \in 1 .. Len(edges)} \union {edges[i].v : i \in 1 .. Len(edges)}

\* The greatest vertex id plus one.
NumVertices == CHOOSE n \in 0 .. N : (n = 0 \/ (n - 1) \in Ends) /\ \A v \in Ends : v < n

\* Both directions of an edge; a loop becomes edges of weight 0.
BothWays(e) == IF e.u # e.v THEN << e, [u |-> e.v, v |-> e.u, w |-> e.w] >>
               ELSE LET nothing == [u |-> 0, v |-> 0, w |-> 0] IN << nothing, nothing >>

EdgeLess(e, f) == \/ e.u < f.u
                  \/ e.u = f.u /\ (e.v < f.v \/ (e.v = f.v /\ e.w < f.w))

Symmetrized == SortSeq(FlattenSeq([i \in 1 .. Len(edges) |-> BothWays(edges[i])]), EdgeLess)

First(t, size) == (size \div NumThreads) * t + (IF t < size % NumThreads THEN t ELSE size % NumThreads)

\* Variant: a part may begin inside the edges of a vertex.
Anywhere(i, s) == i

\* adv: on to the next edge with another source.
Advanced(i, s) ==
  CHOOSE j \in i .. Len(s) :
    /\ j = 0 \/ j = Len(s) \/ s[j].u # s[j + 1].u
    /\ \A k \in i .. (j - 1) : k > 0 /\ s[k].u = s[k + 1].u

MakeList ==
  /\ phase = "list"
  /\ ss' = Symmetrized
  /\ adj' = [v \in 0 .. (NumVertices - 1) |-> << >>]
  /\ th' = [t \in ThreadIds |-> [it |-> Advanced(First(t, Len(ss')), ss'),
                               last |-> Advanced(First(t + 1, Len(ss')), ss')]]
  /\ phase' = "reduce"
  /\ UNCHANGED <<input, new_ids_local, edges, todo, coms, m2, degs, new_ids>>

\* The edges of the vertex at position first that lie before last.
RunOf(first, last) == SelectSeq(SubSeq(ss, first + 1, last), LAMBDA e : e.u = ss[first + 1].u)

Weights(run, v) == SumOf([i \in 0 .. (Len(run) - 1) |-> IF run[i + 1].v = v THEN run[i + 1].w ELSE 0],
                         0, Len(run))

\* One entry per neighbour, in ascending order, none of weight 0.
Reduced(run) ==
  LET targets == {v \in {run[i].v : i \in 1 .. Len(run)} : Weights(run, v) > 0}
      ascending == Listed(targets, LAMBDA u, v : u < v)
  IN  [k \in 1 .. Len(ascending) |-> <<ascending[k], Weights(run, ascending[k])>>]

Reduce(t) ==
  /\ phase = "reduce" /\ th[t].it # th[t].last
  /\ LET run == RunOf(th[t].it, th[t].last)
         s == run[1].u
     IN  /\ adj' = [adj EXCEPT ![s] = @ \o Reduced(run)]
         /\ th' = [th EXCEPT ![t].it = @ + Len(run)]
  /\ UNCHANGED <<input, phase, new_ids_local, edges, ss, todo, coms, m2, degs, new_ids>>

-----------------------------------------------------------------------------
(* rabbit_order::aggregate and compute_modularity.                           *)

\* Every vertex leads to the top vertex of its community.
Communities(n) == {c \in [0 .. (n - 1) -> 0 .. (n - 1)] : \A v \in 0 .. (n - 1) : c[c[v]] = c[v]}

Aggregate ==
  /\ phase = "reduce" /\ \A t \in ThreadIds : th[t].it = th[t].last
  /\ coms' \in Communities(NumVertices)
  /\ IF input.kind = "single"
     THEN todo' = {} /\ phase' = "assign"
     ELSE todo' = ThreadIds /\ phase' = "degrees"
  /\ UNCHANGED <<input, new_ids_local, edges, ss, adj, th, m2, degs, new_ids>>

\* The part of an omp for: the first threads have one more.
PartOf(t) == First(t, NumVertices) .. (First(t + 1, NumVertices) - 1)

WeightIn(v, c) == SumOf([i \in 0 .. (Len(adj[v]) - 1) |->
                           IF coms[adj[v][i + 1][1]] \in c THEN adj[v][i + 1][2] ELSE 0], 0, Len(adj[v]))
WeightOf(v) == WeightIn(v, {coms[u] : u \in DOMAIN coms})

Total(S, f(_)) == SumOf([v \in 0 .. (NumVertices - 1) |-> IF v \in S THEN f(v) ELSE 0], 0, NumVertices)

mydegs(t) ==
  [c \in {coms[v] : v \in PartOf(t)} |->
     << Total({v \in PartOf(t) : coms[v] = c}, WeightOf),
        Total({v \in PartOf(t) : coms[v] = c}, LAMBDA v : WeightIn(v, {c})) >>]

Merged(ds, mine) ==
  [c \in DOMAIN ds \union DOMAIN mine |->
     LET Of(d, i) == IF c \in DOMAIN d THEN d[c][i] ELSE 0
     IN  << Of(ds, 1) + Of(mine, 1), Of(ds, 2) + Of(mine, 2) >>]

MergeDegrees(t) ==
  /\ phase = "degrees" /\ t \in todo
  /\ degs' = Merged(degs, mydegs(t))
  /\ m2' = m2 + Total(PartOf(t), WeightOf)
  /\ todo' = todo \ {t}
  /\ phase' = IF todo' = {} THEN "modularity" ELSE phase
  /\ UNCHANGED <<input, new_ids_local, edges, ss, adj, th, coms, new_ids>>

\* m2^2 times the modularity returned.
Modularity ==
  SumOf([c \in NodeID |-> IF c \in DOMAIN degs THEN (degs[c][2] * m2) - (degs[c][1] * degs[c][1])
                              ELSE 0], 0, N)

-----------------------------------------------------------------------------
(* new_ids[n] = new_ids_local_2[new_ids_local[n]], for every vertex of the   *)
(* graph the call is about: cell -1 is read for what the edge list lacks.    *)

Orders(n) == {p \in [0 .. (n - 1) -> 0 .. (n - 1)] : \A u, v \in DOMAIN p : p[u] = p[v] => u = v}

Composed(p, v) == IF new_ids_local[v] \in DOMAIN p THEN p[new_ids_local[v]] ELSE None

Renamed(p, unread) ==
  [v \in NodeID |-> IF new_ids_local[v] = None THEN unread ELSE Composed(p, v)]

AssignIds ==
  /\ phase = "modularity" /\ ~OfEdges
  /\ \E p \in Orders(NumVertices), unread \in Garbage : new_ids' = Renamed(p, unread)
  /\ phase' = "done"
  /\ UNCHANGED <<input, new_ids_local, edges, ss, adj, th, todo, coms, m2, degs>>

\* reorder_internal_single: new_ids[i] = p[i].
reorder_internal_single ==
  /\ phase = "assign"
  /\ \E p \in Orders(NumVertices) :
       new_ids' = [v \in NodeID |-> IF v \in DOMAIN p THEN p[v] ELSE None]
  /\ phase' = "done"
  /\ UNCHANGED <<input, new_ids_local, edges, ss, adj, th, todo, coms, m2, degs>>

Returned ==
  /\ phase = "done" \/ (phase = "modularity" /\ input.kind = "edgelist")
  /\ UNCHANGED vars

Next ==
  \/ SortByDegree \/ ReadEdges \/ MakeList \/ Aggregate \/ AssignIds \/ reorder_internal_single \/ Returned
  \/ \E t \in ThreadIds : Reduce(t) \/ MergeDegrees(t)

Spec == Init /\ [][Next]_vars

-----------------------------------------------------------------------------

\* The weight between two vertices, taken from the edges alone.
Between(u, v) ==
  SumOf([i \in 0 .. (Len(edges) - 1) |->
           IF u # v /\ {edges[i + 1].u, edges[i + 1].v} = {u, v} THEN edges[i + 1].w ELSE 0],
        0, Len(edges))

(***************************************************************************)
(* However the sorted edges are cut into parts (make_adj_list), when all   *)
(* threads are done every vertex has one entry per neighbour, in order,    *)
(* with the weight of all the edges between the two: no list was begun by  *)
(* two threads and none was left to nobody.                                *)
(***************************************************************************)
ListsAreWhole ==
  (phase = "reduce" /\ \A t \in ThreadIds : th[t].it = th[t].last) =>
    \A u \in DOMAIN adj :
      LET ascending == Listed({v \in DOMAIN adj : Between(u, v) > 0}, LAMBDA v, w : v < w)
      IN  adj[u] = [k \in 1 .. Len(ascending) |-> <<ascending[k], Between(u, ascending[k])>>]

(***************************************************************************)
(* What compute_modularity adds up per thread and community is the         *)
(* modularity of the communities: over all pairs of vertices of one        *)
(* community, the weight between them less what chance would give them.    *)
(* Its assertion holds: degs has an entry for each community.              *)
(***************************************************************************)
ModularityIsExact ==
  phase = "modularity" =>
    LET V == DOMAIN adj
        k(u) == Total(V, LAMBDA v : Between(u, v))
    IN  /\ DOMAIN degs = {coms[v] : v \in V}
        /\ Modularity = Total(V, LAMBDA u : Total({v \in V : coms[v] = coms[u]},
                                                  LAMBDA v : (Between(u, v) * m2) - (k(u) * k(v))))

(***************************************************************************)
(* Every vertex at an end of an edge gets an id of its own, in the whole   *)
(* graph no other vertex does, the ids given are 0, 1, ... without a gap,  *)
(* and whatever cell -1 holds goes to vertices the edge list lacks only    *)
(* (builder.h 1780-1790, 1870-1881).                                       *)
(***************************************************************************)
EndsAreNumbered ==
  (phase = "done" /\ ~OfEdges) =>
    LET numbered == {v \in Local : new_ids[v] # None}
        ends == {v \in Local : \E u \in Local : v \in ToSet(input.out[u]) \/ u \in ToSet(input.out[v])}
    IN  /\ ends \subseteq numbered /\ (input.kind = "whole" => numbered = ends)
        /\ {new_ids[v] : v \in numbered} = 0 .. (Cardinality(numbered) - 1)
=============================================================================
