----------------------------- MODULE Reordering -----------------------------
(***************************************************************************)
(* MakeGraph's loop over the reorderings asked for on the command line,    *)
(* and RelabelByMapping, of bench/include/gapbs/builder.h: a mapping is    *)
(* computed, the vertices it left out get the ids that follow, the graph   *)
(* is rebuilt with the new ids, and org_ids (graph.h) is brought up to     *)
(* date, so that SourcePicker finds the vertex a trial starts from.        *)
(*                                                                         *)
(* A mapping gives some vertices the first ids, each once: HubMapping and  *)
(* GraphBrew show what they promise of it.  A neighbour is the pair of its *)
(* id and weight (1 in a graph without weights).                           *)
(***************************************************************************)
EXTENDS Containers, Integers, Sequences, FiniteSets, Functions

CONSTANTS
  N,                \* num_nodes()
  Graphs,           \* what was built from the input: [directed, out, in]
  Lengths,          \* numbers of reorder_options
  BlockSize,        \* of ParallelPrefixSum
  SizeValues,       \* a size_t has the values 0 .. SizeValues - 1,
  IdLimit           \* a NodeID_ those from -IdLimit to IdLimit - 1

NodeID == 0 .. (N - 1)
None == -1

\* Lists of pairs of an id and a weight, sorted by id, as the builder leaves them.
Lists == [NodeID -> Seq(NodeID \X Int)]
InOrder(lists) ==
  \A n \in NodeID : \A i \in 1 .. (Len(lists[n]) - 1) : lists[n][i][1] <= lists[n][i + 1][1]

ReorderingAssumption ==
  /\ N \in Nat \ {0} /\ BlockSize \in Nat \ {0} /\ Lengths \subseteq Nat
  /\ IdLimit \in Nat /\ N < IdLimit /\ SizeValues \in Nat \ {0} /\ SizeValues % (2 * IdLimit) = 0
  /\ Graphs \subseteq [directed : BOOLEAN, out : Lists, in : Lists]
  /\ \A gr \in Graphs : InOrder(gr.out) /\ InOrder(gr.in) /\ (~ gr.directed => gr.in = gr.out)

VARIABLES
  original,         \* the graph the loop started with (history)
  g,                \* g_final
  org_ids,          \* its org_ids_
  remaining,        \* reorderings still to be applied
  new_ids,
  max_id,
  todo,             \* iterations of the current parallel loop not yet taken
  rows,             \* which neighbour lists are being built: "in", then "out"
  built,            \* [in, out]: the arrays of g_relabel
  phase

vars == <<original, g, org_ids, remaining, new_ids, max_id, todo, rows, built, phase>>

Empty == [offsets |-> [i \in 0 .. N |-> 0], neighs |-> << >>]

Init ==
  /\ original \in Graphs
  /\ g = original
  /\ org_ids = [n \in NodeID |-> n]
  /\ remaining \in Lengths
  /\ new_ids = [n \in NodeID |-> None]
  /\ max_id = 0
  /\ todo = {}
  /\ rows = "out"
  /\ built = [in |-> Empty, out |-> Empty]
  /\ phase = "map"

-----------------------------------------------------------------------------
(* The mapping, and the vertices it left out. *)

Mappings == UNION {Bijection(s, 0 .. (Cardinality(s) - 1)) : s \in SUBSET NodeID}

\* A NodeID_ converted to size_t, and back.
AsSize(id) == id % SizeValues

AsNodeID(x) == LET low == x % (2 * IdLimit)
               IN  IF low < IdLimit THEN low ELSE low - 2 * IdLimit

MaxElement(ids) == CHOOSE m \in {ids[n] : n \in NodeID} : \A n \in NodeID : ids[n] <= m

\* GenerateMapping, and the first lines of RelabelByMapping.
Generate ==
  /\ phase = "map" /\ remaining > 0
  /\ \E m \in Mappings :
       new_ids' = [n \in NodeID |-> IF n \in DOMAIN m THEN m[n] ELSE None]
  /\ max_id' = AsSize(MaxElement(new_ids'))
  /\ todo' = NodeID
  /\ phase' = "fill"
  /\ UNCHANGED <<original, g, org_ids, remaining, rows, built>>

NextId(local_max) == local_max + 1

(***************************************************************************)
(* One iteration of the parallel loop: only its own entry and max_id, by a *)
(* fetch-and-add, are touched.                                             *)
(***************************************************************************)
Fill(v) ==
  /\ phase = "fill" /\ v \in todo
  /\ todo' = todo \ {v}
  /\ IF new_ids[v] = None
     THEN /\ new_ids' = [new_ids EXCEPT ![v] = NextId(AsNodeID(max_id))]
          /\ max_id' = AsSize(max_id + 1)
     ELSE UNCHANGED <<new_ids, max_id>>
  /\ UNCHANGED <<original, g, org_ids, remaining, rows, built, phase>>

-----------------------------------------------------------------------------
(* The new graph: of a directed one the in-lists first. *)

\* degrees[new_ids[n]] = out_degree(n), inv_degrees likewise
NewDegrees(side) ==
  [id \in NodeID |-> LET moved == {n \in NodeID : new_ids[n] = id}
                     IN  IF moved = {} THEN 0 ELSE Len(g[side][CHOOSE n \in moved : TRUE])]

Allocate(side) ==
  LET offsets == ParallelPrefixSum(NewDegrees(side), N, BlockSize)
  IN  /\ rows' = side
      /\ todo' = NodeID
      /\ built' = [built EXCEPT ![side] =
                     [offsets |-> offsets, neighs |-> [i \in 0 .. (offsets[N] - 1) |-> <<None, 0>>]]]
      /\ phase' = "rows"

StartBuilding ==
  /\ phase = "fill" /\ todo = {}
  /\ Allocate(IF g.directed THEN "in" ELSE "out")
  /\ UNCHANGED <<original, g, org_ids, remaining, new_ids, max_id>>

\* neighs[offsets[new_ids[u]]++] = new_ids[v] for the neighbours v of u, and
\* the sort: v is a plain id, and from an id NodeWeight makes weight 1.
NewRow(side, u) == Sorted([i \in 1 .. Len(g[side][u]) |-> <<new_ids[g[side][u][i][1]], 1>>])

BuildRow(u) ==
  /\ phase = "rows" /\ u \in todo
  /\ todo' = todo \ {u}
  /\ built' = [built EXCEPT ![rows].neighs =
                 Written(@, built[rows].offsets[new_ids[u]], NewRow(rows, u))]
  /\ UNCHANGED <<original, g, org_ids, remaining, new_ids, max_id, rows, phase>>

StartOutRows ==
  /\ phase = "rows" /\ todo = {} /\ rows = "in"
  /\ Allocate("out")
  /\ UNCHANGED <<original, g, org_ids, remaining, new_ids, max_id>>

\* Variant: the composition the other way round.
UpdatedBackwards(ids) == [n \in NodeID |-> ids[new_ids[n]]]

\* update_org_ids: org_ids_[n] = new_ids[org_ids_[n]]
Updated(ids) == [n \in NodeID |-> new_ids[ids[n]]]

\* g_relabel replaces g_final; new_ids.fill(-1) for the next reordering.
Replace ==
  /\ phase = "rows" /\ todo = {} /\ rows = "out"
  /\ LET out == [n \in NodeID |-> Row(built.out, n)]
         in  == [n \in NodeID |-> Row(built.in, n)]
     IN  g' = [directed |-> g.directed, out |-> out, in |-> IF g.directed THEN in ELSE out]
  /\ org_ids' = Updated(org_ids)
  /\ new_ids' = [n \in NodeID |-> None]
  /\ max_id' = 0
  /\ remaining' = remaining - 1
  /\ built' = [in |-> Empty, out |-> Empty]
  /\ phase' = "map"
  /\ UNCHANGED <<original, todo, rows>>

Next ==
  \/ Generate \/ StartBuilding \/ StartOutRows \/ Replace
  \/ \E v \in todo : Fill(v) \/ BuildRow(v)

Spec == Init /\ [][Next]_vars

-----------------------------------------------------------------------------
(* Properties *)

TypeOK ==
  /\ org_ids \in [NodeID -> NodeID] /\ new_ids \in [NodeID -> NodeID \union {None}]
  /\ max_id \in 0 .. (SizeValues - 1)
  /\ todo \subseteq NodeID /\ rows \in {"in", "out"} /\ phase \in {"map", "fill", "rows"}
  /\ \A n \in NodeID : \A side \in {"in", "out"} : \A i \in 1 .. Len(g[side][n]) :
       g[side][n][i][1] \in NodeID

\* "Assigning new IDs starting from max_id atomically": in whatever order the
\* threads fetch, every id is used once, also when no vertex had an id and
\* max_id starts as the largest size_t.
FilledIsPermutation == phase = "rows" => {new_ids[n] : n \in NodeID} = NodeID

Targets(graph, side, n) == [i \in 1 .. Len(graph[side][n]) |-> graph[side][n][i][1]]

\* However many reorderings were applied, org_ids leads from every vertex of
\* the input to the vertex with the same edges: what SourcePicker needs to
\* start the trials of differently ordered graphs from the same vertices.
OrgIdsTrack ==
  phase = "map" =>
    /\ {org_ids[n] : n \in NodeID} = NodeID
    /\ \A side \in {"in", "out"} : \A u, v \in NodeID :
         Count(Targets(original, side, u), v)
           = Count(Targets(g, side, org_ids[u]), org_ids[v])

\* The neighbours of a relabelled vertex are sorted by their new ids, as
\* triangle counting and the writers expect.
RowsSorted == phase = "map" => InOrder(g.in) /\ InOrder(g.out)

\* After any number of reorderings the graph is the input under the names
\* org_ids gives, in the form the kernels expect.
SameGraph == OrgIdsTrack /\ RowsSorted

\* "Apply reordering strategy": an edge has the weight it was read with.
WeightsKept ==
  phase = "map" =>
    \A u, v \in NodeID, w \in {1, 2} :
      Count(original.out[u], <<v, w>>) = Count(g.out[org_ids[u]], <<org_ids[v], w>>)
=============================================================================
