------------------------------- MODULE DiGraph -------------------------------
(***************************************************************************)
(* How GenerateLeidenMapping makes the graph Leiden works on: readVecOmpW  *)
(* (bench/include/leiden/mtx.hxx), symmetricizeOmp (symmetricize.hxx) and  *)
(* updateOmpU (update.hxx) on a DiGraph (Graph.hxx).  Every thread looks   *)
(* at every edge and adds those whose source belongs to it; only then are  *)
(* the edges of each vertex sorted and merged.  The reverse edges are      *)
(* added to a copy in the same way.                                        *)
(*                                                                         *)
(* The edges of a vertex are in a LazyBitset (_bitset.hxx): pairs          *)
(* <<key, value>> sorted by key, behind them the ones added since the last *)
(* update, which sorts those and merges them in (set_union_last_inplace of *)
(* _algorithm.hxx, in place but for a deque in a buffer).  An equal key is *)
(* to take the value added last.  Nothing is ever removed from a graph, so *)
(* updateRemove has no part here.                                          *)
(***************************************************************************)
EXTENDS Integers, Sequences, FiniteSets, SequencesExt

CONSTANTS
  N,            \* num_nodes, at least 2
  Inputs,       \* CSR graphs [directed, out, in]: rows of <<target, weight>>
  NumThreads,
  Chunk         \* CHUNK_SIZE of belongsOmp

Span == 0 .. (N - 1)
ThreadIds == 0 .. (NumThreads - 1)

-----------------------------------------------------------------------------
(* LazyBitset. *)

Key(p) == p[1]

EmptyBitset == [pairs |-> << >>, unprocessed |-> 0]

Add(b, k, v) == [pairs |-> Append(b.pairs, <<k, v>>), unprocessed |-> b.unprocessed + 1]

\* What std::sort may make of the cells from..to: equal keys in any order.
SortedFrom(s, from) ==
  LET Places == from .. Len(s)
      Orders == {o \in [Places -> Places] :
                   \A i, j \in Places : i < j => o[i] # o[j] /\ Key(s[o[i]]) <= Key(s[o[j]])}
  IN  {[i \in 1 .. Len(s) |-> IF i < from THEN s[i] ELSE s[o[i]]] : o \in Orders}

\* unique_last_copy of the cells y..Len(a), to the cells from `at' on.
UniqueLastCopy(a, y, at) ==
  LET last == SelectSeq([i \in 1 .. Len(a) |-> i],
                        LAMBDA i : i >= y /\ (i = Len(a) \/ Key(a[i + 1]) # Key(a[i])))
  IN  SubSeq(a, 1, at - 1) \o [k \in 1 .. Len(last) |-> a[last[k]]]

\* A circular buffer that is filled up looks empty (_queue.hxx).
PushBack(q, p, room) == IF Len(q) = room - 1 THEN << >> ELSE Append(q, p)

(***************************************************************************)
(* The three loops of set_union_last_inplace.  a is the vector, x and y    *)
(* the iterators xb and yb, xe the end of the first run, it the last cell  *)
(* written, q the deque.                                                   *)
(***************************************************************************)
RECURSIVE Drain(_, _, _, _, _, _)
Drain(a, xe, x, it, q, room) ==
  LET q1 == IF x # xe THEN PushBack(q, a[x], room) ELSE q
  IN  IF q1 = << >> THEN SubSeq(a, 1, it)
      ELSE Drain([a EXCEPT ![it + 1] = Head(q1)], xe, IF x # xe THEN x + 1 ELSE x, it + 1, Tail(q1), room)

RECURSIVE WithDeque(_, _, _, _, _, _, _)
WithDeque(a, xe, x, y, it, q, room) ==
  IF y > Len(a) THEN Drain(a, xe, x, it, q, room)
  ELSE IF Key(a[it]) = Key(a[y]) THEN WithDeque([a EXCEPT ![it] = a[y]], xe, x, y + 1, it, q, room)
  ELSE LET q1 == IF x # xe THEN PushBack(q, a[x], room) ELSE q
           x1 == IF x # xe THEN x + 1 ELSE x
       IN  IF q1 # << >> /\ Key(Head(q1)) < Key(a[y])
           THEN WithDeque([a EXCEPT ![it + 1] = Head(q1)], xe, x1, y, it + 1, Tail(q1), room)
           ELSE WithDeque([a EXCEPT ![it + 1] = a[y]], xe, x1, y + 1, it + 1, q1, room)

RECURSIVE DequeFree(_, _, _, _, _)
DequeFree(a, xe, x, y, room) ==
  IF Key(a[x]) < Key(a[y])
  THEN IF x + 1 = xe THEN UniqueLastCopy(a, y, xe) ELSE DequeFree(a, xe, x + 1, y, room)
  ELSE IF Key(a[x]) # Key(a[y])
  THEN WithDeque([a EXCEPT ![x] = a[y]], xe, x + 1, y + 1, x, << a[x] >>, room)
  ELSE LET a1 == [a EXCEPT ![x] = a[y]]
       IN  IF y = Len(a) THEN SubSeq(a1, 1, xe - 1) ELSE DequeFree(a1, xe, x, y + 1, room)

SetUnionLast(a, n, room) ==
  IF n = Len(a) THEN a
  ELSE IF n = 0 THEN UniqueLastCopy(a, 1, 1)
  ELSE DequeFree(a, n + 1, 1, n + 1, room)

Need(b) == b.unprocessed + 4

\* The buffer of a thread may be larger, which makes no difference.
Updates(b) ==
  IF b.unprocessed = 0 THEN {b}
  ELSE LET n == Len(b.pairs) - b.unprocessed
       IN  {[pairs |-> SetUnionLast(a, n, Need(b)), unprocessed |-> 0] : a \in SortedFrom(b.pairs, n + 1)}

Has(b, k) == \E i \in DOMAIN b.pairs : Key(b.pairs[i]) = k

\* find takes the first of the pairs with the key.
Get(b, k) == LET i == CHOOSE i \in DOMAIN b.pairs : /\ Key(b.pairs[i]) = k
                                                    /\ \A j \in 1 .. (i - 1) : Key(b.pairs[j]) < k
             IN  b.pairs[i][2]

-----------------------------------------------------------------------------

VARIABLES
  input,
  phase,              \* "read", "update", "symmetricize", "update again", "done"
  exists, edges,      \* of the graph that is built: x, then a
  x,                  \* the graph symmetricizeOmp was given: its exists and edges
  next,               \* per thread: the first edge it has not looked at
  todo,               \* vertices whose edges are still to be updated
  order, size         \* N and M

vars == <<input, phase, exists, edges, x, next, todo, order, size>>

\* The edges of the rows one after the other.
Pushed(rows) ==
  FlattenSeq([i \in 1 .. N |-> [j \in 1 .. Len(rows[i - 1]) |-> <<i - 1, rows[i - 1][j][1], rows[i - 1][j][2]>>]])

num_edges(g) == IF g.directed THEN Len(Pushed(g.out)) ELSE Len(Pushed(g.out)) \div 2
num_edges_directed(g) == IF g.directed THEN num_edges(g) ELSE 2 * num_edges(g)

\* GenerateLeidenMapping: each edge at its place among num_edges_directed() cells.
EdgeList(g) == [k \in 1 .. num_edges_directed(g) |-> Pushed(g.out)[k]]

\* GenerateLeidenFullMapping, which means to add the in-edges of a directed graph.
FullEdgeList(g) ==
  Pushed(g.out) \o IF g.directed /\ num_edges(g) < num_edges_directed(g) THEN Pushed(g.in) ELSE << >>

\* addVerticesIfU leaves out vertex 0.
Init ==
  /\ \E g \in Inputs : input \in {EdgeList(g), FullEdgeList(g)}
  /\ phase = "read"
  /\ exists = Span \ {0}
  /\ edges = [u \in Span |-> EmptyBitset]
  /\ x = [exists |-> {}, edges |-> << >>]
  /\ next = [t \in ThreadIds |-> 1]
  /\ todo = {} /\ order = 0 /\ size = 0

belongsOmp(u, t) == (u \div Chunk) % NumThreads = t

AddEdge(t, u, v, w) ==
  /\ exists' = exists \union {u, v}
  /\ edges' = IF belongsOmp(u, t) THEN [edges EXCEPT ![u] = Add(@, v, w)] ELSE edges

ReadEdge(t) ==
  /\ phase = "read" /\ next[t] <= Len(input)
  /\ LET e == input[next[t]] IN AddEdge(t, e[1], e[2], e[3])
  /\ next' = [next EXCEPT ![t] = @ + 1]
  /\ UNCHANGED <<input, phase, x, todo, order, size>>

EdgesRead ==
  /\ phase = "read" /\ \A t \in ThreadIds : next[t] > Len(input)
  /\ phase' = "update" /\ todo' = Span
  /\ UNCHANGED <<input, exists, edges, x, next, order, size>>

\* One turn of the loop of updateOmpU.
UpdateEdges(u) ==
  /\ phase \in {"update", "update again"} /\ u \in todo
  /\ \E b \in Updates(edges[u]) : edges' = [edges EXCEPT ![u] = b]
  /\ todo' = todo \ {u}
  /\ UNCHANGED <<input, phase, exists, x, next, order, size>>

Degree(u) == Len(edges[u].pairs)

\* a.update(): the edges are up to date, only order and size are left.
Count ==
  LET sum[n \in 0 .. N] == IF n = 0 THEN 0 ELSE sum[n - 1] + (IF (n - 1) \in exists THEN Degree(n - 1) ELSE 0)
  IN  order' = Cardinality(exists) /\ size' = sum[N]

GraphRead ==
  /\ phase = "update" /\ todo = {}
  /\ Count
  /\ x' = [exists |-> exists, edges |-> edges]
  /\ next' = [t \in ThreadIds |-> 1]
  /\ phase' = "symmetricize"
  /\ UNCHANGED <<input, exists, edges, todo>>

\* The edges of x, vertex by vertex.
Listing ==
  LET list[n \in 0 .. N] ==
        IF n = 0 THEN << >>
        ELSE IF (n - 1) \notin x.exists THEN list[n - 1]
        ELSE LET s == x.edges[n - 1].pairs
             IN  list[n - 1] \o [i \in 1 .. Len(s) |-> <<n - 1, s[i][1], s[i][2]>>]
  IN  list[N]

AddReverse(t) ==
  /\ phase = "symmetricize" /\ next[t] <= Len(Listing)
  /\ LET e == Listing[next[t]] IN AddEdge(t, e[2], e[1], e[3])
  /\ next' = [next EXCEPT ![t] = @ + 1]
  /\ UNCHANGED <<input, phase, x, todo, order, size>>

ReversesAdded ==
  /\ phase = "symmetricize" /\ \A t \in ThreadIds : next[t] > Len(Listing)
  /\ phase' = "update again" /\ todo' = Span
  /\ UNCHANGED <<input, exists, edges, x, next, order, size>>

Symmetricized ==
  /\ phase = "update again" /\ todo = {}
  /\ Count
  /\ phase' = "done"
  /\ UNCHANGED <<input, exists, edges, x, next, todo>>

Returned == phase = "done" /\ UNCHANGED vars

Next ==
  \/ \E t \in ThreadIds : ReadEdge(t) \/ AddReverse(t)
  \/ \E u \in Span : UpdateEdges(u)
  \/ EdgesRead \/ GraphRead \/ ReversesAdded \/ Symmetricized \/ Returned

Spec == Init /\ [][Next]_vars

-----------------------------------------------------------------------------

Edges == {<<input[i][1], input[i][2]>> : i \in 1 .. Len(input)}
EdgeWeights(u, v) == {input[i][3] : i \in {j \in 1 .. Len(input) : input[j][1] = u /\ input[j][2] = v}}

(***************************************************************************)
(* Whichever thread adds an edge and however the vertices are spread over  *)
(* the threads, the graph returned has the edges given and their reverses, *)
(* sorted by target, and none besides; looking one up finds the weight of  *)
(* the reverse edge if there is one, which was added last.                 *)
(***************************************************************************)
BothWays ==
  phase = "done" =>
    \A u, v \in Span :
      /\ Has(edges[u], v) <=> (<<u, v>> \in Edges \/ <<v, u>> \in Edges)
      /\ Has(edges[u], v) => Get(edges[u], v) \in (IF <<v, u>> \in Edges THEN EdgeWeights(v, u)
                                                   ELSE EdgeWeights(u, v))
      /\ \A i, j \in DOMAIN edges[u].pairs : i < j => Key(edges[u].pairs[i]) <= Key(edges[u].pairs[j])

(***************************************************************************)
(* Of an undirected graph, both directions of whose edges are in the list  *)
(* with one weight, the result is the graph itself: no edge is counted     *)
(* twice, a degree is the one of the CSR graph, and size the number of its *)
(* edges.                                                                  *)
(***************************************************************************)
UndirectedIsUnchanged ==
  (phase = "done" /\ \A e \in Edges : EdgeWeights(e[1], e[2]) = EdgeWeights(e[2], e[1])) =>
    /\ edges = x.edges
    /\ \A u \in Span : Degree(u) = Cardinality({e \in Edges : e[1] = u})
    /\ size = Cardinality(Edges)
=============================================================================
