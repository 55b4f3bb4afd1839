----------------------------- MODULE InPlaceCSR -----------------------------
(***************************************************************************)
(* MakeCSRInPlace of bench/include/gapbs/builder.h: the edge list becomes  *)
(* the neighbour array in its own memory, and missing inverse edges are    *)
(* added by spreading the array out and inserting them at the front of     *)
(* each vertex's cells.                                                    *)
(*                                                                         *)
(* The function is sequential; every iteration that moves a cell is a      *)
(* step, so that what it overwrites and what it searches can be looked at  *)
(* in between.  An edge is <<u, v, w>>, a neighbour <<v, w>>; a graph      *)
(* without weights has w = 1.                                              *)
(***************************************************************************)
EXTENDS Containers, Integers, Sequences, FiniteSets

CONSTANTS
  N,              \* num_nodes_
  Inputs          \* edge lists as sets: they are sorted first

NodeID == 0 .. (N - 1)

InPlaceAssumption ==
  N \in Nat \ {0} /\ \A edges \in Inputs : edges \subseteq NodeID \X NodeID \X Nat

VARIABLES
  edges, symmetrize,   \* the edge list read, symmetrize_
  el,                  \* the edge list squished
  offsets,
  neighs,
  inv,                 \* [offsets, neighs] of the incoming edges
  invs_needed,
  total_missing_inv, tail_index,
  n, i,                \* the loop variables (n is u in some loops)
  phase

vars == <<edges, symmetrize, el, offsets, neighs, inv, invs_needed, total_missing_inv,
          tail_index, n, i, phase>>

Blank == <<-1, 0>>
NoRows == [offsets |-> [m \in 0 .. N |-> 0], neighs |-> << >>]

Init ==
  /\ edges \in Inputs /\ symmetrize \in BOOLEAN
  /\ el = << >> /\ offsets = NoRows.offsets /\ neighs = << >> /\ inv = NoRows
  /\ invs_needed = [m \in NodeID |-> 0]
  /\ total_missing_inv = 0 /\ tail_index = 0
  /\ n = 0 /\ i = 0
  /\ phase = "squish"

-----------------------------------------------------------------------------
(* Sort, keep the first (lightest) of equal edges, drop self loops. *)

Before(d, e) == d[1] < e[1] \/ (d[1] = e[1] /\ Less(<<d[2], d[3]>>, <<e[2], e[3]>>))

\* Variant: the targets of a source come in descending order.
TargetsDescending(list) ==
  Listed(list, LAMBDA d, e : d[1] < e[1] \/ (d[1] = e[1] /\ Less(<<e[2], e[3]>>, <<d[2], d[3]>>)))

SortedList(list) == Listed(list, Before)

Squished == SortedList({e \in edges : /\ e[1] # e[2]
                                      /\ \A d \in edges : d[1] = e[1] /\ d[2] = e[2] => e[3] <= d[3]})

\* CountDegrees, with in_place_ set: symmetrizing counts the sources only.
CountDegrees(list, transpose) ==
  [v \in NodeID |->
     Cardinality({k \in 1 .. Len(list) :
                    list[k][IF transpose /\ ~ symmetrize THEN 2 ELSE 1] = v})]

Squish ==
  /\ phase = "squish"
  /\ el' = Squished
  /\ offsets' = PrefixSum(CountDegrees(el', FALSE), N)
  /\ inv' = [NoRows EXCEPT !.offsets = PrefixSum(CountDegrees(el', TRUE), N)]
  /\ neighs' = [c \in 0 .. (2 * Len(el') - 1) |-> Blank]
  /\ phase' = "fill"
  /\ UNCHANGED <<edges, symmetrize, invs_needed, total_missing_inv, tail_index, n, i>>

\* (*neighs)[offsets[e.u]++] = e.v, into the memory of the list itself.
FillNext ==
  /\ phase = "fill" /\ i < Len(el)
  /\ LET e == el[i + 1]
     IN  /\ neighs' = [neighs EXCEPT ![offsets[e[1]]] = <<e[2], e[3]>>]
         /\ offsets' = [offsets EXCEPT ![e[1]] = @ + 1]
  /\ i' = i + 1
  /\ UNCHANGED <<edges, symmetrize, el, inv, invs_needed, total_missing_inv, tail_index, n, phase>>

Reverted == [m \in 0 .. N |-> IF m = 0 THEN 0 ELSE offsets[m - 1]]

\* offsets are shifted down again.
RevertOffsets ==
  /\ phase = "fill" /\ i = Len(el)
  /\ offsets' = Reverted
  /\ phase' = IF symmetrize THEN "count" ELSE "incoming"
  /\ UNCHANGED <<edges, symmetrize, el, neighs, inv, invs_needed, total_missing_inv,
                 tail_index, n, i>>

-----------------------------------------------------------------------------
(* Not symmetrized: the incoming edges, in the order of their sources. *)

Sources(v) == Listed({u \in NodeID : \E k \in offsets[u] .. (offsets[u + 1] - 1) :
                                       neighs[k][1] = v}, <)

MakeIncoming ==
  /\ phase = "incoming"
  /\ neighs' = [c \in 0 .. (Len(el) - 1) |-> neighs[c]]
  /\ inv' = [inv EXCEPT !.neighs =
               [c \in 0 .. (inv.offsets[N] - 1) |->
                  LET v == CHOOSE v \in NodeID : inv.offsets[v] <= c /\ c < inv.offsets[v + 1]
                  IN  <<Sources(v)[c - inv.offsets[v] + 1], 1>>]]
  /\ phase' = "done"
  /\ UNCHANGED <<edges, symmetrize, el, offsets, invs_needed, total_missing_inv, tail_index, n, i>>

-----------------------------------------------------------------------------
(* Symmetrized, step 1: how many inverses does every vertex lack? *)

\* std::lower_bound, which std::binary_search uses.
LowerBound(cells, first, last, x) ==
  LET bound[len \in 0 .. (last - first), lo \in first .. last] ==
        LET half == len \div 2
        IN  IF len = 0 THEN lo
            ELSE IF Less(cells[lo + half], x) THEN bound[len - half - 1, lo + half + 1]
                 ELSE bound[half, lo]
  IN  bound[last - first, first]

BinarySearch(cells, first, last, x) ==
  LET at == LowerBound(cells, first, last, x) IN at < last /\ ~ Less(x, cells[at])

\* static_cast<DestID_>(u): NodeWeight's constructor sets the weight to 1.
AsNeighbor(u) == <<u, 1>>

Lacks(u, v) == ~ BinarySearch(neighs, offsets[v], offsets[v + 1], AsNeighbor(u))

CountInverses ==
  /\ phase = "count"
  /\ invs_needed' = [v \in NodeID |->
       Cardinality({u \in NodeID : /\ \E k \in offsets[u] .. (offsets[u + 1] - 1) : neighs[k][1] = v
                                   /\ Lacks(u, v)})]
  /\ total_missing_inv' = SumOf(invs_needed', 0, N)
  /\ offsets' = [m \in 0 .. N |-> offsets[m] + SumOf(invs_needed', 0, m)]
  /\ neighs' = [c \in 0 .. (offsets'[N] - 1) |-> IF c \in DOMAIN neighs THEN neighs[c] ELSE Blank]
  /\ tail_index' = offsets'[N] - 1
  /\ n' = N - 1 /\ i' = offsets'[N] - 1
  /\ phase' = "spread"
  /\ UNCHANGED <<edges, symmetrize, el, inv>>

-----------------------------------------------------------------------------
(* Step 2: from the back, the cells are moved to leave room at the front of  *)
(* every vertex's.                                                           *)

SpreadCell ==
  /\ phase = "spread" /\ i >= offsets[n] + invs_needed[n]
  /\ neighs' = [neighs EXCEPT ![tail_index] = neighs[i - total_missing_inv]]
  /\ tail_index' = tail_index - 1
  /\ i' = i - 1
  /\ UNCHANGED <<edges, symmetrize, el, offsets, inv, invs_needed, total_missing_inv, n, phase>>

SpreadNext ==
  /\ phase = "spread" /\ i < offsets[n] + invs_needed[n]
  /\ total_missing_inv' = total_missing_inv - invs_needed[n]
  /\ tail_index' = tail_index - invs_needed[n]
  /\ IF n > 0
     THEN n' = n - 1 /\ i' = offsets[n] - 1 /\ UNCHANGED phase
     ELSE n' = 0 /\ i' = offsets[0] + invs_needed[0] /\ phase' = "insert"
  /\ UNCHANGED <<edges, symmetrize, el, offsets, neighs, inv, invs_needed>>

-----------------------------------------------------------------------------
(* Step 3: an inverse that is not found among the cells of v in use is put   *)
(* before them.                                                              *)

FirstUsed(v) == offsets[v] + invs_needed[v]

Missing(v) == ~ BinarySearch(neighs, FirstUsed(v), offsets[v + 1], AsNeighbor(n))

InsertBefore(v) == FirstUsed(v) - 1

InsertInverse ==
  /\ phase = "insert" /\ i < offsets[n + 1]
  /\ LET v == neighs[i][1]
     IN  IF Missing(v)
         THEN /\ neighs' = [neighs EXCEPT ![InsertBefore(v)] = AsNeighbor(n)]
              /\ invs_needed' = [invs_needed EXCEPT ![v] = @ - 1]
         ELSE UNCHANGED <<neighs, invs_needed>>
  /\ i' = i + 1
  /\ UNCHANGED <<edges, symmetrize, el, offsets, inv, total_missing_inv, tail_index, n, phase>>

SortedRows ==
  LET row(v) == Sorted(Row([offsets |-> offsets, neighs |-> neighs], v))
      owner(c) == CHOOSE v \in NodeID : offsets[v] <= c /\ c < offsets[v + 1]
  IN  [c \in DOMAIN neighs |-> row(owner(c))[c - offsets[owner(c)] + 1]]

InsertNext ==
  /\ phase = "insert" /\ i >= offsets[n + 1]
  /\ IF n < N - 1
     THEN n' = n + 1 /\ i' = FirstUsed(n + 1) /\ UNCHANGED <<neighs, phase>>
     ELSE n' = n /\ i' = i /\ neighs' = SortedRows /\ phase' = "done"
  /\ UNCHANGED <<edges, symmetrize, el, offsets, inv, invs_needed, total_missing_inv, tail_index>>

Next ==
  \/ Squish \/ FillNext \/ RevertOffsets \/ MakeIncoming \/ CountInverses
  \/ SpreadCell \/ SpreadNext \/ InsertInverse \/ InsertNext

Spec == Init /\ [][Next]_vars

-----------------------------------------------------------------------------
(* Properties *)

TypeOK ==
  /\ offsets \in [0 .. N -> Nat] /\ invs_needed \in [NodeID -> Nat]
  /\ total_missing_inv \in Nat /\ tail_index \in Nat \union {-1}
  /\ n \in NodeID /\ i \in Nat \union {-1}
  /\ DOMAIN neighs = 0 .. (Cardinality(DOMAIN neighs) - 1)
  /\ phase \in {"squish", "fill", "incoming", "count", "spread", "insert", "done"}

\* "overwrite EdgeList's memory with outgoing neighbors": the cell written lies
\* in the part of the list that was read already.
BehindReader == phase = "fill" /\ i < Len(el) => offsets[el[i + 1][1]] <= i

\* "copies backwards (overwrites)": no cell is overwritten before it is moved,
\* and when all are moved every vertex has its neighbours behind its free cells.
SpreadLosesNothing ==
  /\ phase = "spread" =>
       \A k \in 0 .. (Len(el) - 1) :
         el[k + 1][1] < n \/ (el[k + 1][1] = n /\ k <= i - total_missing_inv)
           => neighs[k] = <<el[k + 1][2], el[k + 1][3]>>
  /\ phase = "insert" =>
       \A k \in 1 .. Len(el) :
         \E c \in FirstUsed(el[k][1]) .. (offsets[el[k][1] + 1] - 1) :
           neighs[c] = <<el[k][2], el[k][3]>>

\* The cells searched in step 3 are not sorted once an inverse was put before
\* them, but they are partitioned by the vertex looked for, which is all a
\* binary search needs.
SearchIsPartitioned ==
  phase = "insert" /\ i < offsets[n + 1] =>
    LET v == neighs[i][1]
    IN  \A c, d \in FirstUsed(v) .. (offsets[v + 1] - 1) :
          c < d /\ Less(neighs[d], AsNeighbor(n)) => Less(neighs[c], AsNeighbor(n))

\* An inverse is only put into a cell left free for its vertex.
RoomForInverse ==
  phase = "insert" /\ i < offsets[n + 1] /\ Missing(neighs[i][1]) =>
    invs_needed[neighs[i][1]] > 0

\* One array is the edge list, the rows and the rows with room in turn: through
\* all of it no cell is written while its content is still needed.
NothingOverwritten == BehindReader /\ SpreadLosesNothing /\ RoomForInverse

OutRow(v) == Row([offsets |-> offsets, neighs |-> neighs], v)
InRow(v) == Row(inv, v)
Edge(u, v) == u # v /\ \E e \in edges : e[1] = u /\ e[2] = v
Lists(row, vertices) == Len(row) = Cardinality(vertices)
                        /\ \A v \in vertices : \E k \in 1 .. Len(row) : row[k][1] = v

\* "sort edges and squish (remove self loops and redundant edges)", then "search
\* for needed inverses, make room for them, add them in place": the neighbours
\* of every vertex are the ends of its edges, each once, in order.
BuiltGraph ==
  phase = "done" =>
    \A u \in NodeID :
      /\ Lists(OutRow(u), {v \in NodeID : Edge(u, v) \/ (symmetrize /\ Edge(v, u))})
      /\ ~ symmetrize => Lists(InRow(u), {v \in NodeID : Edge(v, u)})
      /\ \A k \in 1 .. (Len(OutRow(u)) - 1) : OutRow(u)[k][1] < OutRow(u)[k + 1][1]
=============================================================================
