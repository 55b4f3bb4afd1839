----------------------------- MODULE Relabelled -----------------------------
(***************************************************************************)
(* The other ways builder.h renames the vertices of a graph: RandOrder and *)
(* DegSort, which make the order and the graph in one go, and              *)
(* GenerateRandomMapping_v2 followed by RelabelByMapping_v2 (its handling  *)
(* of org_ids and of vertices left out is Reordering's).  No kernel calls  *)
(* them, they stand beside the ones MakeGraph uses.                        *)
(*                                                                         *)
(* A random order is drawn by claiming ids: a thread draws until it finds  *)
(* an id no vertex has.  In GenerateRandomMapping_v2 the threads of a      *)
(* parallel loop claim at the same time, each for its own vertices.        *)
(***************************************************************************)
EXTENDS Containers, Integers, Sequences, FiniteSets

CONSTANTS
  N,                \* num_nodes()
  Graphs,           \* records [directed, out, in] of neighbour lists
  Threads           \* 0 .. omp_get_max_threads() - 1

NodeID == 0 .. (N - 1)
None == -1

Lists == [NodeID -> Seq(NodeID)]

RelabelledAssumption ==
  /\ N \in Nat \ {0}
  /\ IsFiniteSet(Threads) /\ 0 \in Threads /\ Threads = 0 .. (Cardinality(Threads) - 1)
  /\ Graphs \subseteq [directed : BOOLEAN, out : Lists, in : Lists]

VARIABLES
  g, method,        \* "v2", "RandOrder" or "DegSort"
  outDegree, createBothCSRs,
  new_ids, claimedVtxs,
  todo,             \* the iterations each thread has left
  randID,           \* what a thread has drawn and found free, or None
  sides,            \* the lists still to be built
  rows,             \* [index, offsets, neighs] of the lists being built
  result,           \* the lists done
  pc

vars == <<g, method, outDegree, createBothCSRs, new_ids, claimedVtxs, todo, randID,
          sides, rows, result, pc>>

\* Static scheduling; RandOrder's loop is sequential.
Slice(t, p) == {v \in NodeID : (v * p) \div N = t}
Workers == IF method = "v2" THEN Threads ELSE {0}
OwnVertices(t) == IF t \in Workers THEN Slice(t, Cardinality(Workers)) ELSE {}

Degree(side, n) == Len(g[side][n])

\* Which lists, in the order they are built.
ListsOf(m, gr, out_degree) ==
  IF ~ gr.directed THEN <<"out">>
  ELSE IF m = "v2" \/ ~ out_degree THEN <<"out", "in">> ELSE <<"in", "out">>

\* With createOnlyDegList or createBothCSRs: RandOrder and DegSort called with
\* neither would leave a directed graph without an index.
Init ==
  /\ g \in Graphs /\ method \in {"v2", "RandOrder", "DegSort"}
  /\ outDegree \in (IF method = "DegSort" THEN BOOLEAN ELSE {TRUE})
  /\ createBothCSRs \in (IF method = "v2" \/ ~ g.directed THEN {TRUE} ELSE BOOLEAN)
  /\ new_ids = [n \in NodeID |-> None]
  /\ claimedVtxs = [n \in NodeID |-> 0]
  /\ todo = [t \in Threads |-> OwnVertices(t)]
  /\ randID = [t \in Threads |-> None]
  /\ sides = ListsOf(method, g, outDegree)
  /\ rows = << >> /\ result = << >>
  /\ pc = IF method = "DegSort" THEN "sort" ELSE "claim"

Current(t) == CHOOSE v \in todo[t] : \A u \in todo[t] : v <= u

-----------------------------------------------------------------------------
(* The order. *)

\* randID = rand() % num_nodes, if claimedVtxs[randID] != 1; others are drawn again.
Draw(t) ==
  /\ pc = "claim" /\ todo[t] # {} /\ randID[t] = None
  /\ \E id \in NodeID : claimedVtxs[id] # 1 /\ randID' = [randID EXCEPT ![t] = id]
  /\ UNCHANGED <<g, method, outDegree, createBothCSRs, new_ids, claimedVtxs, todo, sides,
                 rows, result, pc>>

\* Variant: what was found free is taken for free.
WonAnyway(t) == TRUE

Won(t) == claimedVtxs[randID[t]] = 0

\* compare_and_swap(claimedVtxs[randID], 0, 1)
Claim(t) ==
  /\ pc = "claim" /\ randID[t] # None
  /\ randID' = [randID EXCEPT ![t] = None]
  /\ IF Won(t)
     THEN /\ claimedVtxs' = [claimedVtxs EXCEPT ![randID[t]] = 1]
          /\ new_ids' = [new_ids EXCEPT ![Current(t)] = randID[t]]
          /\ todo' = [todo EXCEPT ![t] = @ \ {Current(t)}]
     ELSE UNCHANGED <<claimedVtxs, new_ids, todo>>
  /\ UNCHANGED <<g, method, outDegree, createBothCSRs, sides, rows, result, pc>>

\* degree_id_pairs sorted by greater<degree_node_p>: the larger id of two first.
SortKey == IF g.directed /\ ~ outDegree THEN "in" ELSE "out"
Precedes(u, v) == Degree(SortKey, u) > Degree(SortKey, v)
                    \/ (Degree(SortKey, u) = Degree(SortKey, v) /\ u > v)

\* new_ids[degree_id_pairs[n].second] = n
Ranks == [n \in NodeID |-> Cardinality({u \in NodeID : Precedes(u, n)})]

Sort ==
  /\ pc = "sort"
  /\ new_ids' = Ranks
  /\ pc' = "claim"
  /\ todo' = [t \in Threads |-> {}]
  /\ UNCHANGED <<g, method, outDegree, createBothCSRs, claimedVtxs, randID, sides, rows, result>>

-----------------------------------------------------------------------------
(* The graph, one kind of list after the other. *)

\* degrees[new_ids[n]] = the degree of n on that side
DegreesFor(side) ==
  [id \in NodeID |-> LET moved == {n \in NodeID : new_ids[n] = id}
                    IN  IF moved = {} THEN 0 ELSE Degree(side, CHOOSE n \in moved : TRUE)]

EmptyRows(side) ==
  LET offsets == PrefixSum(DegreesFor(side), N)
  IN  [side |-> side, index |-> offsets, offsets |-> offsets,
       neighs |-> [i \in 0 .. (offsets[N] - 1) |-> None]]

Start ==
  /\ pc = "claim" /\ sides # << >> /\ \A t \in Threads : todo[t] = {}
  /\ rows' = EmptyRows(Head(sides))
  /\ IF result = << >> \/ createBothCSRs
     THEN todo' = [t \in Threads |-> Slice(t, Cardinality(Threads))]
     ELSE UNCHANGED todo      \* only allocated
  /\ pc' = "rows"
  /\ UNCHANGED <<g, method, outDegree, createBothCSRs, new_ids, claimedVtxs, randID, sides, result>>

\* neighs[offsets[new_ids[u]]++] = new_ids[v] for each neighbour, and the sort
\* of what lies between the two indices.
WithRow(u) ==
  LET id == new_ids[u]
      list == g[rows.side][u]
      filled == Written(rows.neighs, rows.offsets[id], [i \in 1 .. Len(list) |-> new_ids[list[i]]])
      row == SortedIds([i \in 1 .. (rows.index[id + 1] - rows.index[id]) |->
                          filled[rows.index[id] + i - 1]])
  IN  [rows EXCEPT !.offsets[id] = @ + Len(list), !.neighs = Written(filled, rows.index[id], row)]

BuildRow(t) ==
  /\ pc = "rows" /\ todo[t] # {}
  /\ rows' = WithRow(Current(t))
  /\ todo' = [todo EXCEPT ![t] = @ \ {Current(t)}]
  /\ UNCHANGED <<g, method, outDegree, createBothCSRs, new_ids, claimedVtxs, randID, sides, result, pc>>

Built ==
  /\ pc = "rows" /\ \A t \in Threads : todo[t] = {}
  /\ result' = Append(result, rows)
  /\ sides' = Tail(sides)
  /\ pc' = IF Tail(sides) = << >> THEN "done" ELSE "claim"
  /\ UNCHANGED <<g, method, outDegree, createBothCSRs, new_ids, claimedVtxs, todo, randID, rows>>

Finished == pc = "done" /\ UNCHANGED vars

Next == \/ Sort \/ Start \/ Built \/ Finished
        \/ \E t \in Threads : Draw(t) \/ Claim(t) \/ BuildRow(t)

Spec == Init /\ [][Next]_vars

-----------------------------------------------------------------------------
(* Properties *)

\* However the claims of the threads overlap, an id is given to one vertex,
\* and the ids given are the claimed ones: a vertex left without a free id
\* would draw for ever.
ClaimedOnce ==
  method # "DegSort" =>
    LET given == {v \in NodeID : new_ids[v] # None}
    IN  /\ \A u, v \in given : new_ids[u] = new_ids[v] => u = v
        /\ {new_ids[v] : v \in given} = {id \in NodeID : claimedVtxs[id] = 1}

\* The lists of the new graph are those of the old one under the new names, a
\* permutation, by falling degree after DegSort; each list is in order.  Of a
\* kind of list only allocated, the places are right.
NewGraph ==
  /\ pc \in {"rows", "done"} => {new_ids[v] : v \in NodeID} = NodeID
  /\ pc = "done" /\ method = "DegSort" =>
       \A u, v \in NodeID : Degree(SortKey, u) > Degree(SortKey, v) => new_ids[u] < new_ids[v]
  /\ pc = "done" =>
       \A k \in 1 .. Len(result) : \A u \in NodeID :
         LET r == result[k]
             id == new_ids[u]
             row == [i \in 1 .. (r.index[id + 1] - r.index[id]) |-> r.neighs[r.index[id] + i - 1]]
         IN  /\ Len(row) = Degree(r.side, u)
             /\ k = 1 \/ createBothCSRs =>
                  /\ \A i \in 1 .. (Len(row) - 1) : row[i] <= row[i + 1]
                  /\ \A v \in NodeID : Count(row, new_ids[v]) = Count(g[r.side][u], v)
=============================================================================
