----------------------------- MODULE GraphBrew -----------------------------
(***************************************************************************)
(* GenerateGraphBrewMapping of bench/include/gapbs/builder.h: Leiden's     *)
(* communities are sorted by size, the small ones merged into one, the     *)
(* edges that leave each community collected in a list, every list         *)
(* reordered as a graph of its own, and the orders laid out one after the  *)
(* other.                                                                  *)
(*                                                                         *)
(* Leiden's result and the order found for an edge list are arbitrary here *)
(* (Reorderings).  The parallel loops fill disjoint cells, or containers   *)
(* that are sorted afterwards, between barriers: each is one step, and     *)
(* where the outcome depends on an order the code leaves open - of an      *)
(* unordered_map, of equal keys in an unstable sort - every order is a     *)
(* possible step.                                                          *)
(***************************************************************************)
EXTENDS GraphView, Integers, FiniteSets, SequencesExt

CONSTANTS
  Inputs,        \* [graph : the CSR graph, comm : [NodeID -> Nat], Leiden's last pass]
  Options,       \* reordering_options: sequences over "frequency", "algorithm", "resolution"
  Thresholds,    \* values of the option frequency_threshold
  Algorithms,    \* {"rabbit", "other"}: which reordering of the lists is asked for
  Levels,        \* values of numLevels (after the decrement of a recursive call)
  Garbage        \* what a read of new_ids_local_2[-1] may return

None == -1       \* an entry of new_ids nothing was assigned to

GraphBrewAssumption ==
  /\ \A i \in Inputs : IsGraph(i.graph) /\ i.comm \in [NodeID -> Nat]
  /\ Options \subseteq Seq({"frequency", "algorithm", "resolution"})
  /\ Thresholds \subseteq Nat /\ Levels \subseteq Nat \ {0}
  /\ Garbage \subseteq NodeID \union {None}

VARIABLES
  input, algo, numLevels, frequency_threshold,
  reordering_options,
  comm_ids,
  top_communities,
  idx,              \* the list to be reordered next
  local_ids,        \* community_id_mappings: the entry (i, local_ids[i]) of comm_ids[i]
  new_ids,
  phase

vars == <<input, algo, numLevels, frequency_threshold, reordering_options, comm_ids,
          top_communities, idx, local_ids, new_ids, phase>>

Init ==
  /\ input \in Inputs /\ algo \in Algorithms /\ numLevels \in Levels
  /\ frequency_threshold \in Thresholds
  /\ reordering_options \in Options
  /\ comm_ids = [i \in NodeID |-> 0]
  /\ top_communities = << >>
  /\ idx = 1
  /\ local_ids = [i \in NodeID |-> None]
  /\ new_ids = [i \in NodeID |-> None]
  /\ phase = "clustered"

-----------------------------------------------------------------------------
(* sort_by_vector_element puts the rows [vertex, degree, community] in the   *)
(* order of their community; comm_ids[i] is the community of the i-th row.   *)

Communities(ids) == {ids[i] : i \in NodeID}

InRowOrder(comm) ==
  [i \in NodeID |-> CHOOSE c \in Communities(comm) :
                      /\ Cardinality({v \in NodeID : comm[v] < c}) <= i
                      /\ i < Cardinality({v \in NodeID : comm[v] <= c})]

AssignCommunities ==
  /\ phase = "clustered"
  /\ comm_ids' = InRowOrder(input.comm)
  /\ phase' = "merge"
  /\ UNCHANGED <<input, algo, numLevels, frequency_threshold, reordering_options,
                 top_communities, idx, local_ids, new_ids>>

-----------------------------------------------------------------------------
(* frequency_threshold becomes the size of the community at that rank; the   *)
(* vertices of the smaller communities go to the least frequent id, which    *)
(* may be one no vertex has.                                                 *)

Frequency(ids, c) == Cardinality({i \in NodeID : ids[i] = c})
AllIds(ids) == 0 .. Max(Communities(ids))

Smallest(ids) == Min({Frequency(ids, c) : c \in AllIds(ids)})

SizeAtRank(ids, rank) ==
  IF rank \in 1 .. Cardinality(AllIds(ids))
  THEN Max({f \in 0 .. N : Cardinality({c \in AllIds(ids) : Frequency(ids, c) >= f}) >= rank})
  ELSE Smallest(ids)

min_freq_comm_id(ids) == Min({c \in AllIds(ids) : Frequency(ids, c) = Smallest(ids)})

IsSmall(ids, i) == Frequency(ids, ids[i]) < SizeAtRank(ids, frequency_threshold)

Merged(ids) == [i \in NodeID |-> IF IsSmall(ids, i) THEN min_freq_comm_id(ids) ELSE ids[i]]

MoreFrequent(ids, c, d) ==
  \/ Frequency(ids, c) > Frequency(ids, d)
  \/ Frequency(ids, c) = Frequency(ids, d) /\ c > d

ByFrequency(ids) == SetToSortSeq(Communities(ids), LAMBDA c, d : MoreFrequent(ids, c, d))

MergeSmall ==
  /\ phase = "merge"
  /\ comm_ids' = Merged(comm_ids)
  /\ top_communities' = ByFrequency(comm_ids')
  /\ phase' = "reorder"
  /\ UNCHANGED <<input, algo, numLevels, frequency_threshold, reordering_options, idx,
                 local_ids, new_ids>>

-----------------------------------------------------------------------------
(* The edges whose source is in a community, and the graph                   *)
(* MakeLocalGraphFromEL makes of them: its vertices are 0 .. the largest id  *)
(* at either end of an edge.                                                 *)

EdgeList(c) == {<<u, v>> \in NodeID \X NodeID :
                  comm_ids[u] = c /\ Occurs(v, OutNeigh(input.graph, u))}

FindMaxNodeID(el) == Max({e[1] : e \in el} \union {e[2] : e \in el})

Nested == numLevels > 1 /\ idx = 1

\* What GenerateGraphBrewMapping itself may return (see PrefixMapping below):
\* some of the vertices get the first ids.
PrefixOrders(vertices) ==
  UNION {Bijection(s, 0 .. (Cardinality(s) - 1)) : s \in SUBSET vertices}

(***************************************************************************)
(* GenerateMappingLocalEdgelist: the entries of new_ids_sub that are       *)
(* written.  RabbitOrder composes two arrays as long as the whole graph:   *)
(* for a vertex beyond the local graph the first holds -1, and the second  *)
(* is read at that index.                                                  *)
(***************************************************************************)
Reorderings(el) ==
  LET vertices == 0 .. FindMaxNodeID(el)
      orders == IF Nested THEN PrefixOrders(vertices)
                ELSE Bijection(vertices, 0 .. FindMaxNodeID(el))
      outside(x) == [v \in NodeID \ vertices |-> x]
  IN  IF algo = "rabbit" /\ ~ Nested
      THEN {order @@ outside(x) : order \in orders, x \in Garbage}
      ELSE {order @@ outside(None) : order \in orders}

\* community_id_mappings[comm_id].emplace_back(i, new_ids_sub[i])
Taken(c, new_ids_sub) ==
  [i \in NodeID |-> IF i \in DOMAIN new_ids_sub /\ new_ids_sub[i] # None /\ comm_ids[i] = c
                    THEN new_ids_sub[i] ELSE local_ids[i]]

\* What the code does to its options before it calls itself.
NestedOptions(opts) == IF Len(opts) > 2 THEN opts ELSE Append(opts, "resolution")

ReorderCommunity ==
  /\ phase = "reorder" /\ idx <= Len(top_communities)
  /\ LET c == top_communities[idx]
     IN  /\ EdgeList(c) # {}
         /\ \E new_ids_sub \in Reorderings(EdgeList(c)) : local_ids' = Taken(c, new_ids_sub)
  /\ reordering_options' = IF Nested THEN NestedOptions(reordering_options)
                           ELSE reordering_options
  /\ idx' = idx + 1
  /\ UNCHANGED <<input, algo, numLevels, frequency_threshold, comm_ids, top_communities,
                 new_ids, phase>>

\* else return;
GiveUp ==
  /\ phase = "reorder" /\ idx <= Len(top_communities)
  /\ EdgeList(top_communities[idx]) = {}
  /\ reordering_options' = IF Nested THEN NestedOptions(reordering_options)
                           ELSE reordering_options
  /\ phase' = "returned"
  /\ UNCHANGED <<input, algo, numLevels, frequency_threshold, comm_ids, top_communities, idx,
                 local_ids, new_ids>>

-----------------------------------------------------------------------------
(* Each list is sorted by the ids found for it and made consecutive; the     *)
(* lists follow each other in the order of an unordered_map.                 *)

Entered == {i \in NodeID : local_ids[i] # None}
Members(c) == {i \in Entered : comm_ids[i] = c}

\* The entries the sort may leave in any order.
Ties == {i \in Entered : \E u \in Members(comm_ids[i]) \ {i} : local_ids[u] = local_ids[i]}

\* id_pairs[i].second = i
Position(i, tie) ==
  Cardinality({u \in Members(comm_ids[i]) :
                 \/ local_ids[u] < local_ids[i]
                 \/ u # i /\ local_ids[u] = local_ids[i] /\ tie[u] < tie[i]})

\* index += entry.second.size()
Index(c, order) == Cardinality({u \in Entered : order[comm_ids[u]] < order[c]})

LayOut ==
  /\ phase = "reorder" /\ idx > Len(top_communities)
  /\ LET lists == {comm_ids[i] : i \in Entered}
     IN  \E order \in Bijection(lists, 1 .. Cardinality(lists)),
            tie \in Bijection(Ties, 1 .. Cardinality(Ties)) :
           new_ids' = [i \in NodeID |-> IF i \in Entered
                                        THEN Index(comm_ids[i], order) + Position(i, tie)
                                        ELSE new_ids[i]]
  /\ phase' = "returned"
  /\ UNCHANGED <<input, algo, numLevels, frequency_threshold, reordering_options, comm_ids,
                 top_communities, idx, local_ids>>

Next == AssignCommunities \/ MergeSmall \/ ReorderCommunity \/ GiveUp \/ LayOut

Spec == Init /\ [][Next]_vars

-----------------------------------------------------------------------------
(* Properties *)

TypeOK ==
  /\ comm_ids \in [NodeID -> Nat]
  /\ local_ids \in [NodeID -> NodeID \union {None}]
  /\ new_ids \in [NodeID -> NodeID \union {None}]
  /\ idx \in 1 .. (Len(top_communities) + 1) /\ Len(top_communities) <= N
  /\ phase \in {"clustered", "merge", "reorder", "returned"}

Assigned == {i \in NodeID : new_ids[i] # None}

\* What the caller relies on (RelabelByMapping numbers the rest): the vertices
\* that got an id have the first ids, each once, whatever orders the nested
\* calls returned and however the lists were laid out.
PrefixMapping ==
  /\ {new_ids[i] : i \in Assigned} = 0 .. (Cardinality(Assigned) - 1)
  /\ \A u, v \in Assigned : u # v => new_ids[u] # new_ids[v]

\* "Make the mapping consecutive within each community list": no id of a
\* vertex of another community lies between two ids of one community, and
\* within it the vertices are in the order the reordering of its list found.
ListsStayTogether ==
  \A u, v, w \in Assigned :
    /\ comm_ids[u] = comm_ids[w] /\ comm_ids[v] # comm_ids[u]
         => ~ (new_ids[u] < new_ids[v] /\ new_ids[v] < new_ids[w])
    /\ comm_ids[u] = comm_ids[w] /\ local_ids[u] < local_ids[w] => new_ids[u] < new_ids[w]

\* A vertex is left out only when it lies beyond the local graph of its
\* community or when the nested call left it out, unless the function gave up.
OnlyOutsidersLeftOut ==
  phase = "returned" /\ idx > Len(top_communities) =>
    \A i \in NodeID \ Assigned :
      \/ numLevels > 1 /\ comm_ids[i] = top_communities[1]
      \/ \A e \in EdgeList(comm_ids[i]) : e[1] < i /\ e[2] < i

\* The start of a permutation, in which no vertex is missing that the lists
\* cover.
StartOfPermutation == PrefixMapping /\ OnlyOutsidersLeftOut

\* "Reassign nodes with frequency below the threshold": as long as there are
\* that many communities, the frequency_threshold largest of them stay what
\* they were.
LargestStayWhole ==
  phase = "reorder" /\ frequency_threshold \in 1 .. N =>
    LET before == InRowOrder(input.comm)
        larger(c) == {d \in Communities(before) : Frequency(before, d) > Frequency(before, c)}
    IN  \A c \in Communities(before) :
          Cardinality(larger(c)) < frequency_threshold =>
            {i \in NodeID : comm_ids[i] = c} = {i \in NodeID : before[i] = c}

\* "Loop through the original graph and add edges to the appropriate community
\* edge list": two vertices share a list if Leiden put them in one community.
ClusteredByLeiden ==
  phase = "merge" =>
    \A u, v \in NodeID : input.comm[u] = input.comm[v] <=> comm_ids[u] = comm_ids[v]
=============================================================================
