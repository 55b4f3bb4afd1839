----------------------------- MODULE Partitions -----------------------------
(***************************************************************************)
(* builder.h's MakePartitionedGraph and what bench/src/tc_p.cc does with   *)
(* the partitions.  Cagra slices the graph by the destinations.  TRUST     *)
(* makes it undirected, orients every edge to the end with more edges,     *)
(* renumbers the vertices by their number of outgoing edges, looks for the *)
(* first vertex with fewer than two (racing threads), and deals the edges  *)
(* out by the remainders of their ends.  MakeTrustPreprocessStep, another  *)
(* way of preparing an undirected graph, which nothing calls, keeps every  *)
(* edge at the end with fewer edges and renumbers the vertices by how many *)
(* they kept.                                                              *)
(*                                                                         *)
(* An unweighted graph is a record [directed, n, out] of sets of           *)
(* neighbours: what MakeLocalGraphFromEL makes of an edge list is checked  *)
(* in CSRBuild.  The threads' edge lists are merged and sorted, their      *)
(* order does not count.  The arrays that num_edges_directed() gives their *)
(* size are modelled cell by cell, because MakeLocalGraphFromEL calls the  *)
(* constructor of undirected graphs: a graph it makes has one cell too few *)
(* for an odd number of neighbours.  What is written past the end of an    *)
(* array is lost.                                                          *)
(***************************************************************************)
EXTENDS Integers, Sequences, FiniteSets, FiniteSetsExt, SequencesExt

CONSTANTS
  Graphs,
  SimpleGraphs,  \* undirected, without self loops, for MakeTrustPreprocessStep
  Segments,      \* [p_type, p_n, p_m] of the command line
  KeepSelf,      \* keep_self(), which tc_p.cc sets
  MiddleDegree,  \* 100 in trust_reassignID
  Threads        \* 0 .. t - 1

VARIABLES
  input,             \* the graph MakeGraph returned
  g,                 \* the graph being preprocessed
  cli,               \* the segments
  trust_vertex,      \* positions -> [vertexID, edge]
  trust_endofprocess,
  th,                \* threads: [i, current]
  partitions,
  flat,              \* the flattened partitions
  total,
  node_degree_pairs, kept_el,  \* of MakeTrustPreprocessStep and MakeOrientedELFromUniDirect
  phase

preprocess == <<node_degree_pairs, kept_el>>
vars == <<input, g, cli, trust_vertex, trust_endofprocess, th, partitions, flat, total,
          preprocess, phase>>

None == -1
Infinity == 1000000  \* numeric_limits<NodeID_>::max()

NodesOf(h) == 0 .. (h.n - 1)
EdgesOf(h) == UNION {{<<x, y>> : y \in h.out[x]} : x \in NodesOf(h)}
num_edges_directed(h) ==
  LET m == Cardinality(EdgesOf(h))
  IN  IF h.directed THEN m ELSE 2 * (m \div 2)
Ascending(S) == [k \in 1 .. Cardinality(S) |->
                   CHOOSE x \in S : Cardinality({y \in S : y < x}) = k - 1]

\* The edges, row by row.
InOrder(h) ==
  FlattenSeq([x \in 1 .. h.n |-> LET row == Ascending(h.out[x - 1])
                                 IN  [k \in DOMAIN row |-> <<x - 1, row[k]>>]])

Ids(el) == UNION {{e[1], e[2]} : e \in el}

\* Variant: self loops are removed again.
LocalWithoutLoops(el) ==
  LET n == Max(Ids(el) \cup {0}) + 1
  IN  [directed |-> FALSE, n |-> n,
       out |-> [x \in 0 .. (n - 1) |-> {y \in Ids(el) : <<x, y>> \in el} \ {x}]]

MakeLocalGraphFromEL(el) ==
  LET n == Max(Ids(el) \cup {0}) + 1
  IN  [directed |-> FALSE, n |-> n,
       out |-> [x \in 0 .. (n - 1) |->
                  {y \in Ids(el) : <<x, y>> \in el /\ (KeepSelf \/ x # y)}]]

\* Stands in cli for a call of MakeTrustPreprocessStep by itself.
NoSegments == [p_type |-> None, p_n |-> 0, p_m |-> 0]

Init ==
  /\ \/ input \in Graphs /\ cli \in Segments
     \/ input \in SimpleGraphs /\ cli = NoSegments
  /\ g = input
  /\ trust_vertex = << >> /\ trust_endofprocess = None
  /\ th = [t \in Threads |-> [i |-> 0, current |-> None]]
  /\ partitions = << >> /\ flat = << >> /\ total = 0
  /\ node_degree_pairs = << >> /\ kept_el = {}
  /\ phase = CASE cli = NoSegments -> "sort"
               [] cli.p_type = 1   -> "direct"
               [] OTHER            -> "slice"

-----------------------------------------------------------------------------
(* Cagra. *)

graphSlicer(startID, stopID) ==
  [g EXCEPT !.out = [x \in NodesOf(g) |-> {y \in g.out[x] : startID <= y /\ y < stopID}]]

MakeCagraPartitionedGraph ==
  LET p_num == cli.p_n * cli.p_m
      start(k) == k * (g.n \div p_num) + Min({k, g.n % p_num})
      k == Len(partitions)
  IN  /\ phase = "slice"
      /\ IF k < p_num
         THEN partitions' = Append(partitions, graphSlicer(start(k), start(k + 1)))
              /\ phase' = phase
         ELSE partitions' = partitions /\ phase' = "count"
      /\ UNCHANGED <<input, g, cli, trust_vertex, trust_endofprocess, th, flat, total, preprocess>>

-----------------------------------------------------------------------------
(* TRUST. *)

\* Vertices with an edge get the ids 1, 2, ...; every edge ascends.
DirectEL(h) ==
  LET edges == InOrder(h)
      seen == UNION {{e[1], e[2]} : e \in EdgesOf(h)}
      a(x) == Cardinality({y \in seen : y <= x})
  IN  {<<Min({a(edges[k][1]), a(edges[k][2])}), Max({a(edges[k][1]), a(edges[k][2])})>> :
         k \in 1 .. num_edges_directed(h)}

Turned(e) == <<e[2], e[1]>>

(***************************************************************************)
(* MakeUniDirectELFromGraph: the edges in the first num_edges cells and,   *)
(* turned, in as many cells behind them.  If there is an edge more than    *)
(* cells, one cell is written twice, by the thread that has the last edge  *)
(* and by the one that has the first.                                      *)
(***************************************************************************)
Writes(dir, cell) ==
  LET num_edges == num_edges_directed(dir)
      edges == InOrder(dir)
      outs == {edges[k] : k \in {cell + 1} \cap DOMAIN edges}
      ins == {Turned(edges[k]) : k \in {cell - num_edges + 1} \cap DOMAIN edges}
  IN  IF outs # {} /\ edges[1][1] = edges[Len(edges)][1] THEN outs ELSE outs \union ins

UniDirectELs(dir) ==
  LET num_edges == num_edges_directed(dir)
      others == UNION {Writes(dir, cell) : cell \in (0 .. (2 * num_edges - 1)) \ {num_edges}}
  IN  IF num_edges = 0 THEN {{}} ELSE {others \union {e} : e \in Writes(dir, num_edges)}

\* The ids from 0.
FromDirectToUndirect ==
  /\ phase = "direct"
  /\ LET dir_el == DirectEL(g)
         min_seen == Min(Ids(dir_el) \cup {Max(Ids(dir_el) \cup {0})})
     IN  \E uni_el \in UniDirectELs(MakeLocalGraphFromEL(dir_el)) :
           g' = MakeLocalGraphFromEL({<<e[1] - min_seen, e[2] - min_seen>> : e \in uni_el})
  /\ phase' = "orient"
  /\ UNCHANGED <<input, cli, trust_vertex, trust_endofprocess, th, partitions, flat, total, preprocess>>

\* Vertices 0 .. n - 1 after a stable sort by key, a function of the vertex.
SortedBy(key, n) ==
  SortSeq([k \in 1 .. n |-> k - 1],
          LAMBDA x, y : key[x] < key[y] \/ (key[x] = key[y] /\ x < y))

Later(at, i) == {at[k] : k \in (i + 2) .. g.n}

\* trust_cmp1 and trust_orientation: an edge stays with the end that comes first.
Orient ==
  LET at == SortedBy([x \in NodesOf(g) |-> Cardinality(g.out[x])], g.n)
      Edge(i) == Reverse(Ascending(g.out[at[i + 1]] \cap Later(at, i)))
  IN  /\ phase = "orient"
      /\ trust_vertex' = [i \in NodesOf(g) |-> [vertexID |-> at[i + 1], edge |-> Edge(i)]]
      /\ phase' = "csr"
      /\ UNCHANGED <<input, g, cli, trust_endofprocess, th, partitions, flat, total, preprocess>>

\* trust_cmp2 and trust_computeCSR: the edges lead to positions.
ComputeCSR ==
  LET at == SortedBy([i \in NodesOf(g) |-> 0 - Len(trust_vertex[i].edge)], g.n)
      a(id) == CHOOSE i \in NodesOf(g) : trust_vertex[at[i + 1]].vertexID = id
      Moved(edge) == [k \in DOMAIN edge |-> a(edge[k])]
  IN  /\ phase = "csr"
      /\ trust_vertex' = [i \in NodesOf(g) |->
                            [vertexID |-> i, edge |-> Moved(trust_vertex[at[i + 1]].edge)]]
      /\ phase' = "renumber"
      /\ UNCHANGED <<input, g, cli, trust_endofprocess, th, partitions, flat, total, preprocess>>

(***************************************************************************)
(* trust_reassignID: three counters, of the vertices with more than        *)
(* MiddleDegree edges, with at least two and with fewer, give the next id  *)
(* to the neighbours of the vertices with more than two edges as they are  *)
(* met, then to the rest.                                                  *)
(***************************************************************************)
Size(x) == Len(trust_vertex[x].edge)

\* Where the first vertex with at most so many edges is.
FirstWith(size) == {x \in NodesOf(g) : Size(x) <= size /\ \A y \in 0 .. (x - 1) : Size(y) > size}

Counters == {0} \cup FirstWith(MiddleDegree) \cup FirstWith(1)

NewIds ==
  LET ids == [k \in 1 .. g.n |-> k - 1]
      heavy == SelectSeq(ids, LAMBDA x : \A y \in 0 .. x : Size(y) > 2)
      visits == FlattenSeq([k \in DOMAIN heavy |-> trust_vertex[heavy[k]].edge]) \o ids
      met == [x \in NodesOf(g) |-> Min({k \in DOMAIN visits : visits[k] = x})]
      counters == Counters
      Base(x) == Max({k \in counters : k <= x})
  IN  [x \in NodesOf(g) |->
         Base(x) + Cardinality({y \in NodesOf(g) : Base(y) = Base(x) /\ met[y] < met[x]})]

TrustEL(newid) ==
  UNION {{<<newid[x], newid[trust_vertex[x].edge[k]]>> : k \in 1 .. Size(x)} : x \in NodesOf(g)}

ReassignID ==
  /\ phase = "renumber"
  /\ g' = MakeLocalGraphFromEL(TrustEL(NewIds))
  /\ trust_endofprocess' = Infinity
  /\ phase' = "end"
  /\ UNCHANGED <<input, cli, trust_vertex, th, partitions, flat, total, preprocess>>

-----------------------------------------------------------------------------
(* The threads of MakeTrustPartitionedEL, each with a block of vertices:   *)
(* trust_endofprocess becomes the first with fewer than two edges.         *)

Block(t) ==
  LET k == Cardinality(Threads)
      first(s) == s * (g.n \div k) + Min({s, g.n % k})
  IN  first(t) .. (first(t + 1) - 1)

Mine(t) == Block(t) \cap {x \in NodesOf(g) : x >= th[t].i}
Here(t) == Min(Mine(t))
Past(t) == [i |-> Here(t) + 1, current |-> None]

Look(t) ==
  /\ phase = "end" /\ th[t].current = None /\ Mine(t) # {}
  /\ th' = [th EXCEPT ![t] =
              IF Cardinality(g.out[Here(t)]) < 2
              THEN [i |-> Here(t), current |-> trust_endofprocess]
              ELSE Past(t)]
  /\ UNCHANGED <<input, g, cli, trust_vertex, trust_endofprocess, partitions, flat, total, preprocess, phase>>

CompareAndSwap(t) ==
  IF ~ (th[t].i < th[t].current)
  THEN th' = [th EXCEPT ![t] = Past(t)] /\ UNCHANGED trust_endofprocess
  ELSE IF trust_endofprocess = th[t].current
  THEN th' = [th EXCEPT ![t] = Past(t)] /\ trust_endofprocess' = th[t].i
  ELSE th' = [th EXCEPT ![t].current = trust_endofprocess] /\ UNCHANGED trust_endofprocess

Update(t) ==
  /\ phase = "end" /\ th[t].current # None
  /\ CompareAndSwap(t)
  /\ UNCHANGED <<input, g, cli, trust_vertex, partitions, flat, total, preprocess, phase>>

\* Partition row * p_m + col, counted from 0.
Part(k) ==
  MakeLocalGraphFromEL({<<e[1] \div cli.p_n, e[2] \div cli.p_m>> :
    e \in {f \in EdgesOf(g) : (f[1] % cli.p_n) * cli.p_m + (f[2] % cli.p_m) = k}})

MakeTrustPartitionedGraph ==
  /\ phase = "end" /\ \A t \in Threads : Mine(t) = {}
  /\ partitions' = [k \in 1 .. (cli.p_n * cli.p_m) |-> Part(k - 1)]
  /\ phase' = "count"
  /\ UNCHANGED <<input, g, cli, trust_vertex, trust_endofprocess, th, flat, total, preprocess>>

-----------------------------------------------------------------------------
(* tc_p.cc *)

LocalOrderedCount(h) ==
  MapThenSumSet(LAMBDA e : Cardinality(h.out[e[1]] \cap h.out[e[2]]), EdgesOf(h))

\* Where the counts between partitions are missing the last local one is added.
Count ==
  LET local == [k \in DOMAIN partitions |-> LocalOrderedCount(partitions[k])]
      pairs(k) == (k * (k - 1)) \div 2
  IN  /\ phase = "count"
      /\ total' = FoldFunction(+, 0, local)
                  + (cli.p_m * pairs(cli.p_n) + cli.p_n * pairs(cli.p_m)) * local[Len(local)]
      /\ phase' = "flatten"
      /\ UNCHANGED <<input, g, cli, trust_vertex, trust_endofprocess, th, partitions, flat, preprocess>>

flattenGraphOut(h) ==
  LET rows == [x \in 1 .. h.n |-> Ascending(h.out[x - 1])]
  IN  [degrees   |-> [x \in NodesOf(h) |-> Len(rows[x + 1])],
       offsets   |-> [x \in 0 .. h.n |-> Len(FlattenSeq(SubSeq(rows, 1, x)))],
       neighbors |-> SubSeq(FlattenSeq(rows), 1, num_edges_directed(h))]

FlattenPartitions ==
  /\ phase = "flatten"
  /\ flat' = [k \in DOMAIN partitions |-> flattenGraphOut(partitions[k])]
  /\ phase' = "done"
  /\ UNCHANGED <<input, g, cli, trust_vertex, trust_endofprocess, th, partitions, total, preprocess>>

-----------------------------------------------------------------------------
(* MakeTrustPreprocessStep.  The threads collect edges into lists of their   *)
(* own, which are sorted when the graph is built: their order does not count. *)

Degree(h, v) == Cardinality(h.out[v])

\* "a stays if it has degree 0", "b goes to the end if it has degree 0"
SortsBefore(h, u, v) == Degree(h, u) # 0 /\ (Degree(h, v) = 0 \/ Degree(h, u) < Degree(h, v))

\* The place of v after a stable sort.
PlaceOf(h, Before(_, _), v) ==
  Cardinality({u \in NodesOf(h) : Before(u, v) \/ (u < v /\ ~ Before(v, u))})

SortByDegree ==
  /\ phase = "sort"
  /\ node_degree_pairs' = [i \in NodesOf(g) |-> CHOOSE v \in NodesOf(g) :
                             PlaceOf(g, LAMBDA a, b : SortsBefore(g, a, b), v) = i]
  /\ phase' = "keep"
  /\ UNCHANGED <<input, g, cli, trust_vertex, trust_endofprocess, th, partitions, flat, total, kept_el>>

old_to_new_id == [v \in NodesOf(g) |-> CHOOSE i \in NodesOf(g) : node_degree_pairs[i] = v]

\* "Orient edges from lower to higher new ID"
Kept(i, dest) == i < old_to_new_id[dest]

KeepLowToHigh ==
  /\ phase = "keep"
  /\ kept_el' = UNION {{<<node_degree_pairs[i], dest>> : dest \in {d \in g.out[node_degree_pairs[i]] : Kept(i, d)}} :
                    i \in NodesOf(g)}
  /\ phase' = "rebuild"
  /\ UNCHANGED <<input, g, cli, trust_vertex, trust_endofprocess, th, partitions, flat, total,
                 node_degree_pairs>>

(***************************************************************************)
(* MakeOrientedELFromUniDirect: the other orientation, by the ids, of an   *)
(* edge list such a graph can be made of.  Nothing calls it either.        *)
(***************************************************************************)
OrientById ==
  /\ phase = "sort"
  /\ kept_el' = UNION {{<<Min({v, w}), Max({v, w})>> : w \in g.out[v]} : v \in NodesOf(g)}
  /\ phase' = "rebuild"
  /\ UNCHANGED <<input, g, cli, trust_vertex, trust_endofprocess, th, partitions, flat, total,
                 node_degree_pairs>>

\* GenerateSortMapping(sort_g, new_ids, true, false): the most edges first.
new_ids == [v \in NodesOf(g) |-> PlaceOf(g, LAMBDA a, b : Degree(g, a) > Degree(g, b), v)]

RelabelByMapping ==
  [g EXCEPT !.out = [i \in NodesOf(g) |->
                       {new_ids[y] : y \in g.out[CHOOSE v \in NodesOf(g) : new_ids[v] = i]}]]

Rebuild ==
  /\ phase = "rebuild"
  /\ g' = MakeLocalGraphFromEL(kept_el)
  /\ phase' = "relabel"
  /\ UNCHANGED <<input, cli, trust_vertex, trust_endofprocess, th, partitions, flat, total, preprocess>>

Relabel ==
  /\ phase = "relabel"
  /\ g' = RelabelByMapping
  /\ phase' = "preprocessed"
  /\ UNCHANGED <<input, cli, trust_vertex, trust_endofprocess, th, partitions, flat, total, preprocess>>

Finished == phase \in {"done", "preprocessed"} /\ UNCHANGED vars

Next ==
  \/ MakeCagraPartitionedGraph
  \/ FromDirectToUndirect \/ Orient \/ ComputeCSR \/ ReassignID
  \/ \E t \in Threads : Look(t) \/ Update(t)
  \/ MakeTrustPartitionedGraph
  \/ Count \/ FlattenPartitions
  \/ SortByDegree \/ KeepLowToHigh \/ OrientById \/ Rebuild \/ Relabel
  \/ Finished

Spec == Init /\ [][Next]_vars

-----------------------------------------------------------------------------

\* An array of num_edges_directed() cells has one for every neighbour.
HasCells(h) == num_edges_directed(h) = Cardinality(EdgesOf(h))

\* The edges of partition k, read off its flattened form.
FlatEdges(k) ==
  UNION {{<<x, flat[k].neighbors[p]>> :
            p \in (flat[k].offsets[x] + 1) .. (flat[k].offsets[x] + flat[k].degrees[x])} :
           x \in DOMAIN flat[k].degrees}

\* What an edge of partition k stands for.
Original(e, k) ==
  IF cli.p_type # 1 THEN e
  ELSE <<e[1] * cli.p_n + ((k - 1) \div cli.p_m), e[2] * cli.p_m + ((k - 1) % cli.p_m)>>

(***************************************************************************)
(* bench/include/gapbs/builder.h:790, 824: every edge of the preprocessed  *)
(* graph is in exactly one partition, whatever the remainders, also one    *)
(* whose ends have the same local id; and where the arrays have the cells  *)
(* (graph.h:579), the flattened partition has the same edges.              *)
(***************************************************************************)
EdgesAreSplit ==
  phase = "done" =>
    /\ EdgesOf(g) = UNION {{Original(e, k) : e \in EdgesOf(partitions[k])} : k \in DOMAIN partitions}
    /\ Cardinality(EdgesOf(g)) =
         MapThenSumSet(LAMBDA k : Cardinality(EdgesOf(partitions[k])), DOMAIN partitions)
    /\ \A k \in DOMAIN flat : HasCells(partitions[k]) => FlatEdges(k) = EdgesOf(partitions[k])

(***************************************************************************)
(* builder.h:841, 1087: renumbering keeps the vertices with at least two   *)
(* outgoing edges before the others, so that trust_endofprocess, lowered   *)
(* by racing threads, is where the ones with fewer begin.                  *)
(***************************************************************************)
EndOfProcess ==
  phase = "end" /\ (\A t \in Threads : Mine(t) = {}) =>
    \A x \in NodesOf(g) : x < trust_endofprocess <=> Cardinality(g.out[x]) >= 2

Undirected(h) == {{e[1], e[2]} : e \in {f \in EdgesOf(h) : f[1] # f[2]}}

TrianglesOf(h) == {t \in kSubset(3, NodesOf(h)) : kSubset(2, t) \subseteq Undirected(h)}

(***************************************************************************)
(* bench/src/tc_p.cc:23, 36: "Will count the number of triangles", each    *)
(* "only once": with a single partition the local count is all there is.   *)
(***************************************************************************)
TrustCounts ==
  phase \in {"flatten", "done"} /\ cli = [p_type |-> 1, p_n |-> 1, p_m |-> 1] =>
    total = Cardinality(TrianglesOf(input))

(***************************************************************************)
(* bench/src/tc_p.cc:93: the orientation keeps every edge once and has no  *)
(* cycle, so that with a single partition each triangle is counted once,   *)
(* if the edge lists have a cell for every edge.                           *)
(***************************************************************************)
TrianglesKept ==
  /\ phase \in {"flatten", "done"} /\ cli.p_type = 1
  /\ HasCells(input) /\ HasCells(MakeLocalGraphFromEL(DirectEL(input)))
  => TrustCounts

OrderedCount(h) ==
  MapThenSumSet(LAMBDA v : MapThenSumSet(LAMBDA w : Cardinality(h.out[v] \intersect h.out[w]), h.out[v]),
                NodesOf(h))

(***************************************************************************)
(* What MakeTrustPreprocessStep leaves of the graph has every edge once    *)
(* and no cycle, so that counting the common neighbours of the ends of     *)
(* each edge counts every triangle of the input once, although vertices    *)
(* were lost that came after the last with an edge; and the vertices with  *)
(* the most edges come first.                                              *)
(***************************************************************************)
TrianglesOriented ==
  phase = "preprocessed" =>
    /\ OrderedCount(g) =
         Cardinality({t \in kSubset(3, NodesOf(input)) : \A v \in t : t \ {v} \subseteq input.out[v]})
    /\ \A u, v \in NodesOf(g) : u < v => Degree(g, u) >= Degree(g, v)
=============================================================================
