---------------------------- MODULE MCTraversals ----------------------------
(***************************************************************************)
(* The traversals of a benchmark: bfs (DOBFS), sssp (DeltaStep) and bc     *)
(* (Brandes).  A process runs one of them, `which'; the variables of DOBFS *)
(* keep an initial state, and those of the others are not set, while       *)
(* another one runs.                                                       *)
(***************************************************************************)
EXTENDS DOBFS, SequencesExt

CONSTANTS
  Parts,                                  \* the kernels of this run
  DeltaN, WGraphs,                        \* N and the graphs of sssp
  Delta, BinSizeThreshold, MaxBin,
  BrandesN, BrandesGraphs, NumIters       \* N, the graphs and the iterations of bc

VARIABLES
  which,
  s_graph, s_source, dist, frontier, sharedIndexes, frontierTails, s_todo, resetDone,
  s_pc, iter, localBins, batch, fused, edge, oldDist, newDist, copyStart,
  out, sources, depths, path_counts, succ, depth_index, b_queue, b_phase, next, b_todo,
  deltas, scores, d, th

sssp_vars == <<s_graph, s_source, dist, frontier, sharedIndexes, frontierTails, s_todo,
               resetDone, s_pc, iter, localBins, batch, fused, edge, oldDist, newDist,
               copyStart>>
bc_vars == <<out, sources, depths, path_counts, succ, depth_index, b_queue, b_phase, next,
             b_todo, deltas, scores, d, th>>
all == <<which, vars, sssp_vars, bc_vars>>

SSSP == INSTANCE DeltaStep
          WITH N <- DeltaN, graph <- s_graph, source <- s_source, todo <- s_todo, pc <- s_pc
BC == INSTANCE Brandes
        WITH N <- BrandesN, Graphs <- BrandesGraphs,
             queue <- b_queue, phase <- b_phase, todo <- b_todo

ASSUME SSSP!DeltaStepAssumption

Unset == 0

MCInit ==
  /\ which \in Parts
  /\ IF which = "bfs" THEN Init
     ELSE /\ graph = CHOOSE g \in Graphs : TRUE
          /\ source = 0
          /\ alpha = CHOOSE a \in Alphas : TRUE
          /\ beta = CHOOSE b \in Betas : TRUE
          /\ Init
  /\ IF which = "sssp" THEN SSSP!Init ELSE
       /\ s_graph = Unset /\ s_source = Unset /\ dist = Unset /\ frontier = Unset
       /\ sharedIndexes = Unset /\ frontierTails = Unset /\ s_todo = Unset
       /\ resetDone = Unset /\ s_pc = Unset /\ iter = Unset /\ localBins = Unset
       /\ batch = Unset /\ fused = Unset /\ edge = Unset /\ oldDist = Unset
       /\ newDist = Unset /\ copyStart = Unset
  /\ IF which = "bc" THEN BC!Init ELSE
       /\ out = Unset /\ sources = Unset /\ depths = Unset /\ path_counts = Unset
       /\ succ = Unset /\ depth_index = Unset /\ b_queue = Unset /\ b_phase = Unset
       /\ next = Unset /\ b_todo = Unset /\ deltas = Unset /\ scores = Unset
       /\ d = Unset /\ th = Unset

Bfs  == which = "bfs" /\ UNCHANGED <<which, sssp_vars, bc_vars>>
Sssp == which = "sssp" /\ UNCHANGED <<which, vars, bc_vars>>
Bc   == which = "bc" /\ UNCHANGED <<which, vars, sssp_vars>>

MCNext ==
  \/ Bfs /\ Next
  \/ Sssp /\ SSSP!Next
  \/ Bc /\ BC!Next

MCSpec == MCInit /\ [][MCNext]_all

\* What a thread of a parallel region does; and the serial code around it and
\* the barriers, which never stand in each other's way.
ThreadOf(t) ==
  \/ Bfs /\ Thread(t)
  \/ Sssp /\ SSSP!Thread(t)
  \/ Bc /\ BC!Thread(t)

Together ==
  \/ Bfs /\ Serial
  \/ Sssp /\ (SSSP!Barrier1 \/ SSSP!Barrier2)
  \/ Bc /\ BC!Serial

\* Every OpenMP thread is scheduled until it reaches a barrier or leaves, and
\* what all of them or one of them does alone goes on.
MCFairSpec == MCSpec /\ WF_all(Together) /\ \A t \in Threads : WF_all(ThreadOf(t))

-----------------------------------------------------------------------------
(* Properties *)

(***************************************************************************)
(* bc: when a level is done its vertices hold the number of shortest paths *)
(* to them, and after the last source the scores are the betweenness of    *)
(* BCVerifier, with the edges, the queue and the depths of the sources     *)
(* before reused.                                                          *)
(***************************************************************************)
ScoresExact == which = "bc" => BC!PathsCounted /\ BC!ScoresExact

(***************************************************************************)
(* Whatever the interleaving and the votes, the kernel ends: the loops of  *)
(* bfs in both directions, sssp's region with all its threads, the         *)
(* iterations of bc.                                                       *)
(***************************************************************************)
Terminates ==
  <>(\/ which = "bfs" /\ phase = "done"
     \/ which = "sssp" /\ SSSP!AllExited
     \/ which = "bc" /\ b_phase = "done")

-----------------------------------------------------------------------------
(* Graphs of bfs. *)

\* The neighbours of n in ascending order.
Neighbors(E, n) ==
  LET ns == {m \in NodeID : <<n, m>> \in E}
  IN  [i \in 1 .. Cardinality(ns) |->
         CHOOSE m \in ns : Cardinality({j \in ns : j < m}) = i - 1]
Inverted(E) == {<<e[2], e[1]>> : e \in E}
Graph(E, is_directed) ==
  [directed |-> is_directed,
   out |-> [n \in NodeID |-> Neighbors(E, n)],
   in  |-> [n \in NodeID |-> Neighbors(Inverted(E), n)]]
Undirected(E) == Graph(E \union Inverted(E), FALSE)

\* A fan that closes and opens again, two stars joined, a square with a tail,
\* a cycle beside an isolated vertex, two paths whose vertices have their bits
\* in words of their own, and a path searched from inside, on which front
\* still holds a bit when the search goes bottom-up a second time; directed, two
\* vertices that race for two others without edges.
ChosenGraphs ==
  {Undirected({<<0, 1>>, <<0, 2>>, <<1, 3>>, <<2, 3>>, <<3, 4>>, <<3, 5>>}),
   Undirected({<<0, 3>>, <<1, 3>>, <<2, 3>>, <<3, 4>>, <<4, 5>>}),
   Undirected({<<0, 1>>, <<1, 2>>, <<2, 3>>, <<0, 3>>, <<3, 5>>, <<4, 5>>}),
   Undirected({<<0, 1>>, <<1, 2>>, <<2, 3>>, <<3, 4>>, <<0, 4>>}),
   Undirected({<<0, 5>>, <<2, 5>>, <<0, 1>>, <<2, 3>>, <<3, 4>>}),
   Undirected({<<0, 1>>, <<0, 2>>, <<1, 3>>, <<3, 4>>, <<4, 5>>}),
   Graph({<<0, 1>>, <<0, 2>>, <<1, 3>>, <<2, 3>>, <<1, 4>>, <<2, 4>>, <<5, 0>>}, TRUE)}

-----------------------------------------------------------------------------
(* Graphs of sssp. *)

Arc(y, w) == [v |-> y, w |-> w]

\* A vertex is improved while others hold its old distance.
Ladders ==
  {[out |-> 0 :> <<Arc(1, 3), Arc(2, 1)>> @@ 1 :> <<Arc(3, 1)>>
              @@ 2 :> <<Arc(1, 1), Arc(3, 4)>> @@ 3 :> << >>,
    m   |-> 5]}

-----------------------------------------------------------------------------
(* Graphs of bc. *)

Rows(E) == [n \in 0 .. (BrandesN - 1) |->
              SetToSortSeq({m \in 0 .. (BrandesN - 1) : <<n, m>> \in E}, <)]

\* Two paths that meet and go on together; a cycle of two vertices on one
\* level, whose edges succ must not hold.
SmallGraphs ==
  {Rows({<<0, 1>>, <<0, 2>>, <<1, 3>>, <<2, 3>>, <<3, 4>>}),
   Rows({<<0, 1>>, <<0, 2>>, <<1, 2>>, <<2, 1>>, <<1, 3>>, <<2, 3>>, <<1, 4>>})}
=============================================================================
