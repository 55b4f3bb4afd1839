----------------------------- MODULE Triangles -----------------------------
(***************************************************************************)
(* bench/src/tc.cc: Hybrid relabels the graph by degree if that looks      *)
(* worth it and counts the triangles with OrderedCount.  An iterator walks *)
(* the row of v without looking at its end.                                *)
(*                                                                         *)
(* The iterations over u are independent, so they are taken in order.      *)
(* Whether a sample of the degrees makes relabelling worth it is left open *)
(* (an average degree of 10 needs more vertices than are checked here).    *)
(***************************************************************************)
EXTENDS Integers, Sequences, FiniteSets, FiniteSetsExt

CONSTANTS
  N,       \* num_nodes()
  Graphs   \* undirected graphs, as MakeGraph returns them: [NodeID -> Seq(NodeID)]

NodeID == 0 .. (N - 1)

VARIABLES
  input,       \* the graph given to Hybrid
  g,           \* the graph OrderedCount works on
  u, i, j,     \* v is g[u][i] and w is g[u][j]
  it,          \* position in the row of v
  total,
  pc

vars == <<input, g, u, i, j, it, total, pc>>

Occurs(x, row) == \E k \in DOMAIN row : row[k] = x

Ascending(S) == [k \in 1 .. Cardinality(S) |->
                   CHOOSE x \in S : Cardinality({y \in S : y < x}) = k - 1]

(***************************************************************************)
(* builder.h: the pairs (degree, vertex) in descending order.              *)
(***************************************************************************)
NewId(n) ==
  Cardinality({m \in NodeID : \/ Len(input[m]) > Len(input[n])
                              \/ Len(input[m]) = Len(input[n]) /\ m > n})

RelabelByDegree ==
  [n \in NodeID |-> LET old == CHOOSE m \in NodeID : NewId(m) = n
                    IN  Ascending({NewId(input[old][k]) : k \in DOMAIN input[old]})]

Init ==
  /\ input \in Graphs
  /\ g = input
  /\ u = 0 /\ i = 1 /\ j = 1 /\ it = 1 /\ total = 0 /\ pc = "worth"

Hybrid(worth) ==
  /\ pc = "worth"
  /\ g' = IF worth THEN RelabelByDegree ELSE input
  /\ pc' = "v"
  /\ UNCHANGED <<input, u, i, j, it, total>>

v == g[u][i]
w == g[u][j]

\* The loop over v breaks at the first one after u.
VsLeft == i <= Len(g[u]) /\ v <= u

\* The loop over w breaks at the first one after v.
WsLeft == j <= Len(g[u]) /\ w <= v

NextU ==
  /\ pc = "v" /\ ~ VsLeft
  /\ i' = 1
  /\ IF u + 1 < N THEN u' = u + 1 /\ pc' = pc ELSE u' = u /\ pc' = "done"
  /\ UNCHANGED <<input, g, j, it, total>>

TakeV ==
  /\ pc = "v" /\ VsLeft
  /\ it' = 1 /\ j' = 1 /\ pc' = "w"
  /\ UNCHANGED <<input, g, u, i, total>>

Advance ==
  /\ pc = "w" /\ WsLeft /\ g[v][it] < w
  /\ it' = it + 1
  /\ UNCHANGED <<input, g, u, i, j, total, pc>>

TakeW ==
  /\ pc = "w" /\ WsLeft /\ g[v][it] >= w
  /\ total' = IF g[v][it] = w THEN total + 1 ELSE total
  /\ j' = j + 1
  /\ UNCHANGED <<input, g, u, i, it, pc>>

NextV ==
  /\ pc = "w" /\ ~ WsLeft
  /\ i' = i + 1 /\ pc' = "v"
  /\ UNCHANGED <<input, g, u, j, it, total>>

Finished == pc = "done" /\ UNCHANGED vars

Next ==
  \/ \E worth \in BOOLEAN : Hybrid(worth)
  \/ NextU \/ TakeV \/ Advance \/ TakeW \/ NextV
  \/ Finished

Spec == Init /\ [][Next]_vars

-----------------------------------------------------------------------------

(***************************************************************************)
(* bench/src/tc.cc:63: the iterator is never dereferenced past the row of  *)
(* v, although nothing compares it with the end: the row has u, which is   *)
(* not before any w looked for.                                            *)
(***************************************************************************)
ReadsInRow == pc = "w" /\ WsLeft => it \in DOMAIN g[v]

\* The common neighbours of the ends of each edge, in both directions.
TCVerifier(graph, test_total) ==
  LET Row(x) == {graph[x][k] : k \in DOMAIN graph[x]}
  IN  test_total = MapThenSumSet(LAMBDA x : MapThenSumSet(LAMBDA y : Cardinality(Row(x) \intersect Row(y)), Row(x)),
                                 NodeID) \div 6

(***************************************************************************)
(* TCVerifier accepts the total, which is the number of triangles of the   *)
(* graph given to Hybrid, whether or not it relabelled it: no remainder is *)
(* lost when the six ordered ways to find a triangle are divided out.      *)
(***************************************************************************)
Triangles ==
  pc = "done" =>
    /\ TCVerifier(input, total)
    /\ 6 * total = Cardinality({t \in NodeID \X NodeID \X NodeID :
                               /\ Occurs(t[2], input[t[1]])
                               /\ Occurs(t[3], input[t[1]])
                               /\ Occurs(t[3], input[t[2]])})
=============================================================================
