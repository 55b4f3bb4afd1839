-------------------------- MODULE ComponentMerging --------------------------
(***************************************************************************)
(* What a connected-components kernel promises (CCVerifier in cc.cc and    *)
(* cc_sv.cc checks the final labels against it).  Every vertex starts in a *)
(* class of its own; a step unites the classes of the two ends of an edge; *)
(* the answer may be given once no edge joins two classes, and labels each *)
(* vertex with the smallest vertex of its class.  Nothing is ever split.   *)
(***************************************************************************)
EXTENDS GraphView, FiniteSetsExt

CONSTANT Graphs

VARIABLES
  graph,    \* the graph
  class,    \* class[n] is the set of vertices known to be connected to n
  labels    \* the answer, << >> while there is none

cvars == <<graph, class, labels>>

CInit ==
  /\ graph \in Graphs
  /\ class = [n \in NodeID |-> {n}]
  /\ labels = << >>

Unite(x, y) ==
  /\ labels = << >>
  /\ class[x] # class[y]
  /\ LET both == class[x] \union class[y]
     IN  class' = [n \in NodeID |-> IF n \in both THEN both ELSE class[n]]
  /\ UNCHANGED <<graph, labels>>

Answer ==
  /\ labels = << >>
  /\ \A x, y \in NodeID : Adjacent(graph, x, y) => class[x] = class[y]
  /\ labels' = [n \in NodeID |-> Min(class[n])]
  /\ UNCHANGED <<graph, class>>

CNext == Answer \/ \E x, y \in NodeID : Adjacent(graph, x, y) /\ Unite(x, y)

CSpec == CInit /\ [][CNext]_cvars
=============================================================================
