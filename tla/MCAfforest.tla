----------------------------- MODULE MCAfforest -----------------------------
(***************************************************************************)
(* Afforest on graphs of four vertices, neighbour lists sorted as the      *)
(* builder leaves them.                                                    *)
(***************************************************************************)
EXTENDS Afforest, FiniteSets

Pairs == {e \in NodeID \X NodeID : e[1] < e[2]}

\* The elements of S in ascending order.
SortedList(S) ==
  [i \in 1 .. Cardinality(S) |-> CHOOSE m \in S : Cardinality({j \in S : j < m}) = i - 1]

UndirectedGraph(E) ==
  LET adj == [n \in NodeID |-> SortedList({m \in NodeID :
                                 <<n, m>> \in E \/ <<m, n>> \in E})]
  IN  [directed |-> FALSE, out |-> adj, in |-> adj]

DirectedGraph(E) ==
  [directed |-> TRUE,
   out |-> [n \in NodeID |-> SortedList({m \in NodeID : <<n, m>> \in E})],
   in  |-> [n \in NodeID |-> SortedList({m \in NodeID : <<m, n>> \in E})]]

\* Graphs in which vertex 0 has more neighbours than are sampled.
HubGraphs ==
  {UndirectedGraph({<<0, 1>>, <<0, 2>>, <<0, 3>>} \union E) : E \in SUBSET {<<1, 2>>, <<2, 3>>}}
    \union {DirectedGraph({<<0, 1>>, <<0, 2>>, <<0, 3>>} \union E) :
              E \in SUBSET {<<2, 1>>, <<3, 2>>}}

\* Paths whose lower ends meet late, the complete graph, two components, and
\* directed graphs whose edges lead to or around the lowest vertex.
OtherGraphs ==
  {UndirectedGraph(E) : E \in {Pairs, {<<0, 3>>, <<1, 2>>, <<1, 3>>}, {<<0, 2>>, <<1, 3>>, <<2, 3>>},
                               {<<0, 1>>, <<2, 3>>}, {<<0, 3>>, <<1, 3>>, <<2, 3>>}}}
    \union {DirectedGraph(E) : E \in {{<<1, 0>>, <<2, 0>>, <<3, 0>>}, {<<3, 0>>, <<3, 1>>, <<2, 3>>},
                                      {<<1, 0>>, <<2, 1>>, <<3, 2>>, <<0, 3>>}}}

SomeGraphs == HubGraphs \union OtherGraphs
=============================================================================
