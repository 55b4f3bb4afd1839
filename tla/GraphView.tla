----------------------------- MODULE GraphView -----------------------------
(***************************************************************************)
(* The read-only view of a CSRGraph the kernels of bench/src work on:      *)
(* graph.h's num_nodes(), directed(), out_neigh(n, start_offset) and       *)
(* in_neigh(n).  A graph is the record [directed, out, in] where out[n]    *)
(* and in[n] are the slices of the neighbour arrays between index[n] and   *)
(* index[n + 1].                                                           *)
(*                                                                         *)
(* The module also defines what it means for two vertices to be in one     *)
(* connected component, without recursion: no set of vertices closed under *)
(* the edges separates them.                                               *)
(***************************************************************************)
EXTENDS Naturals, Sequences

CONSTANT N          \* num_nodes()

ASSUME NAssumption == N \in Nat \ {0}

NodeID == 0 .. (N - 1)

OutNeigh(g, n) == g.out[n]
InNeigh(g, n)  == g.in[n]
OutDegree(g, n) == Len(OutNeigh(g, n))
InDegree(g, n)  == Len(InNeigh(g, n))

Occurs(v, list) == \E i \in 1 .. Len(list) : list[i] = v

(***************************************************************************)
(* What BuilderBase hands to a kernel: the in-lists are the inverse of the *)
(* out-lists, and an undirected graph uses one array for both.             *)
(***************************************************************************)
IsGraph(g) ==
  /\ g.directed \in BOOLEAN
  /\ g.out \in [NodeID -> Seq(NodeID)]
  /\ g.in \in [NodeID -> Seq(NodeID)]
  /\ \A u, v \in NodeID : Occurs(v, OutNeigh(g, u)) <=> Occurs(u, InNeigh(g, v))
  /\ ~ g.directed => g.in = g.out

(***************************************************************************)
(* start_offset is clamped to the degree by the Neighborhood constructor:  *)
(* an iteration from an offset past the end visits nothing.                *)
(***************************************************************************)
StartOffset(g, n, start_offset) ==
  IF start_offset < OutDegree(g, n) THEN start_offset ELSE OutDegree(g, n)

Adjacent(g, u, v) == Occurs(v, OutNeigh(g, u)) \/ Occurs(u, OutNeigh(g, v))

Closed(g, S) == \A u, v \in NodeID :
                  Occurs(v, OutNeigh(g, u)) => (u \in S <=> v \in S)

SameComponent(g, x, y) ==
  \A S \in SUBSET NodeID : Closed(g, S) => (x \in S <=> y \in S)

(***************************************************************************)
(* The verifier of both connected-components kernels: a search from the    *)
(* last vertex with each label meets no other label, and all the searches  *)
(* together leave nobody out.                                              *)
(***************************************************************************)
LabelSource(comp, label) ==
  CHOOSE n \in NodeID : comp[n] = label /\ \A x \in NodeID : comp[x] = label => x <= n

CCVerifier(g, comp) ==
  LET Labels == {comp[n] : n \in NodeID}
      Found(label, n) == SameComponent(g, LabelSource(comp, label), n)
  IN  /\ \A label \in Labels, u, v \in NodeID : Found(label, u) /\ Adjacent(g, u, v) => comp[v] = label
      /\ \A n \in NodeID : \E label \in Labels : Found(label, n)

-----------------------------------------------------------------------------
(***************************************************************************)
(* The trees a parent array f makes of the vertices (comp in cc.cc), again *)
(* without recursion: a set of vertices respects f if it contains a vertex *)
(* exactly when it contains the parent of the vertex, and two vertices are *)
(* in one tree when no such set separates them.                            *)
(***************************************************************************)
\* Only the parents of the vertices below m count.
RespectsBelow(f, S, m) == \A n \in NodeID : n < m => (n \in S <=> f[n] \in S)

Respects(f, S) == RespectsBelow(f, S, N)

SameTree(f, x, y) ==
  \A S \in SUBSET NodeID : Respects(f, S) => (x \in S <=> y \in S)

\* The same tree by climbing to its root, which TLC evaluates faster.
Climb(f, x) ==
  LET climb[i \in 0 .. N] == IF i = 0 THEN x ELSE f[climb[i - 1]]
  IN  climb

Root(f, x) == Climb(f, x)[N]

TreeOf(f, x) == {y \in NodeID : Root(f, x) = Root(f, y)}
=============================================================================
