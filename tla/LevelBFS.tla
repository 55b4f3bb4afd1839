------------------------------ MODULE LevelBFS ------------------------------
(***************************************************************************)
(* What a breadth-first search promises (BFSVerifier in bfs.cc checks the  *)
(* tree it leaves): vertices are adopted level by level, each by some      *)
(* vertex of the level before that has an edge to it, once and for good;   *)
(* a level is left when it has nobody to adopt.                            *)
(***************************************************************************)
EXTENDS GraphView, Integers

CONSTANTS Graphs, NoParent

VARIABLES
  graph,
  tree,      \* tree[n] is the parent of n, the source being its own
  level,     \* the vertices that may adopt
  next_level \* the vertices adopted by them

lvars == <<graph, tree, level, next_level>>

LInit ==
  /\ graph \in Graphs
  /\ \E source \in NodeID :
       /\ tree = [n \in NodeID |-> IF n = source THEN source ELSE NoParent]
       /\ level = {source}
  /\ next_level = {}

Adopt(v, p) ==
  /\ tree[v] = NoParent
  /\ p \in level /\ Occurs(v, OutNeigh(graph, p))
  /\ tree' = [tree EXCEPT ![v] = p]
  /\ next_level' = next_level \union {v}
  /\ UNCHANGED <<graph, level>>

NextLevel ==
  /\ \A p \in level, v \in NodeID : Occurs(v, OutNeigh(graph, p)) => tree[v] # NoParent
  /\ level' = next_level
  /\ next_level' = {}
  /\ UNCHANGED <<graph, tree>>

LNext == NextLevel \/ \E v, p \in NodeID : Adopt(v, p)

LSpec == LInit /\ [][LNext]_lvars
=============================================================================
