-------------------------- MODULE MCParallelOrders --------------------------
(***************************************************************************)
(* The orders several threads compute together, writing to each other's    *)
(* vertices: hub sorting and hub clustering (HubMapping), Rabbit Order and *)
(* Leiden.  A behaviour runs one of them, `which'; the variables of        *)
(* HubMapping keep an initial state, and those of Rabbit and of Leiden are *)
(* not set, while another one runs.  A name of Leiden that HubMapping or   *)
(* Rabbit uses too begins with l_ here, and a single letter has a _.       *)
(***************************************************************************)
EXTENDS HubMapping, FiniteSetsExt

CONSTANTS
  Parts,               \* the orders of this run
  RabbitN, Graphs,     \* N and Inputs of Rabbit
  RabbitThreads,       \* the threads of Rabbit, some of Threads
  LeidenN, LeidenInputs, Chunk, MaxIterations, MaxPasses,   \* constants of Leiden
  LeidenThreads        \* the threads of Leiden, some of Threads

VARIABLES
  which,
  edges, ord, coms, str, child, sibling, united_child, es, th, perm,
  x_, y_, n_, p_, l_, m_, el, l_phase, vcom, vcob, vtot, ctot, vaff, ucom, mappings,
  next, l_th

rabbit_vars == <<edges, ord, coms, str, child, sibling, united_child, es, th, perm>>
leiden_vars ==
  <<x_, y_, n_, p_, l_, m_, el, l_phase, vcom, vcob, vtot, ctot, vaff, ucom, mappings,
    next, l_th>>
all == <<which, vars, rabbit_vars, leiden_vars>>

Rabbit == INSTANCE Rabbit WITH N <- RabbitN, Inputs <- Graphs, Threads <- RabbitThreads
Leiden == INSTANCE Leiden
            WITH N <- LeidenN, Inputs <- LeidenInputs, Threads <- LeidenThreads,
                 x <- x_, y <- y_, n <- n_, p <- p_, l <- l_, m <- m_, phase <- l_phase,
                 th <- l_th

ASSUME OfRabbit == Rabbit!RabbitAssumption /\ RabbitThreads \subseteq Threads
ASSUME OfLeiden == Leiden!LeidenAssumption /\ LeidenThreads \subseteq Threads

Unset == 0

MCInit ==
  /\ which \in Parts
  /\ IF which = "hubs" THEN Init
     ELSE input = (CHOOSE i \in Inputs : TRUE) /\ kind = (CHOOSE k \in Kinds : TRUE) /\ Init
  /\ IF which = "rabbit" THEN Rabbit!Init ELSE
       /\ edges = Unset /\ ord = Unset /\ coms = Unset /\ str = Unset /\ child = Unset
       /\ sibling = Unset /\ united_child = Unset /\ es = Unset /\ th = Unset /\ perm = Unset
  /\ IF which = "leiden" THEN Leiden!Init ELSE
       /\ x_ = Unset /\ y_ = Unset /\ n_ = Unset /\ p_ = Unset /\ l_ = Unset /\ m_ = Unset
       /\ el = Unset /\ l_phase = Unset /\ vcom = Unset /\ vcob = Unset /\ vtot = Unset
       /\ ctot = Unset /\ vaff = Unset /\ ucom = Unset /\ mappings = Unset /\ next = Unset
       /\ l_th = Unset

Hub      == which = "hubs" /\ UNCHANGED <<which, rabbit_vars, leiden_vars>>
ByRabbit == which = "rabbit" /\ UNCHANGED <<which, vars, leiden_vars>>
ByLeiden == which = "leiden" /\ UNCHANGED <<which, vars, rabbit_vars>>

MCNext ==
  \/ Hub /\ Next
  \/ ByRabbit /\ Rabbit!Next
  \/ ByLeiden /\ Leiden!Next

MCSpec == MCInit /\ [][MCNext]_all

\* What a thread of a parallel region does; and the serial code around it and
\* the barriers, which never stand in each other's way.
ThreadOf(t) ==
  \/ Hub /\ Thread(t)
  \/ ByRabbit /\ t \in RabbitThreads /\ Rabbit!Thread(t)
  \/ ByLeiden /\ t \in LeidenThreads /\ Leiden!Thread(t)

Together ==
  \/ Hub /\ Serial
  \/ ByRabbit /\ Rabbit!ComputePerm
  \/ ByLeiden /\ (Leiden!EndIteration \/ Leiden!EndRefinement \/ Leiden!EndPass)

\* Every OpenMP thread is scheduled until it reaches a barrier or leaves, and
\* what one thread does alone goes on.
MCFairSpec == MCSpec /\ WF_all(Together) /\ \A t \in Threads : WF_all(ThreadOf(t))

-----------------------------------------------------------------------------
(* Properties *)

(***************************************************************************)
(* Every vertex has one place in the dendrogram, the strength of a         *)
(* community is that of its members and none of its edges is lost,         *)
(* whatever merges race or are rolled back; at the end the assertions of   *)
(* check_result hold and communities have consecutive ids.                 *)
(***************************************************************************)
CommunitiesAddUp == which = "rabbit" => Rabbit!CommunitiesAddUp /\ Rabbit!ResultChecked

(***************************************************************************)
(* While the threads of Leiden move vertices the weights of the            *)
(* communities add up to those of their vertices and of the ones under     *)
(* way; a refined community stays within one that was moved to; each pass  *)
(* coarsens the one before and the weights of its graph are the sums over  *)
(* it; and the ids made of the last one keep communities together.         *)
(***************************************************************************)
CommunitiesAreSound == which = "leiden" => Leiden!WeightsBalance /\ Leiden!Hierarchy

(***************************************************************************)
(* Vertices once merged stay so: what unite() of Rabbit Order reads of a   *)
(* merged vertex is never modified again by another thread, and in the     *)
(* refinement of Leiden a vertex leaves its community only if no other one *)
(* has come to it.                                                         *)
(***************************************************************************)
MergesStand ==
  [][/\ ByRabbit => Rabbit!MergedIsFrozen
     /\ ByLeiden => Leiden!LeavesAlone]_all

(***************************************************************************)
(* Every thread gets through the three loops of a hub ordering;            *)
(* aggregate() of Rabbit Order ends: unite() catches up with the merges    *)
(* into its vertex, and a merge rolled back is not tried for ever; and so  *)
(* do the iterations and passes of Leiden.                                 *)
(***************************************************************************)
Terminates ==
  <>(\/ which = "hubs" /\ phase = "done"
     \/ which = "rabbit" /\ perm # << >>
     \/ which = "leiden" /\ l_phase = "done")

-----------------------------------------------------------------------------
(* Degrees for the hub orders. *)

Total(deg) == FoldSet(LAMBDA v, acc : deg[v] + acc, 0, NodeID)

\* Four hubs of seven vertices for three threads: a hub may have taken the id
\* of a hub, a buffer of one cell may be filled twice by one thread, and the
\* last thread's part is one vertex longer.
Crowded ==
  LET degrees == {[v \in NodeID |-> IF v \in easy THEN 0 ELSE N - 1 - ((v + most) % 2)] :
                    easy \in {{2, 3, 5}, {0, 3, 4}, {1, 4, 6}}, most \in 0 .. 1}
  IN  {[degree |-> deg, num_edges |-> Total(deg)] : deg \in degrees}

\* Undirected graphs of four edges, each of which counts for two ends and once
\* in num_edges: vertex 5 and its neighbours, and one edge more; 0 has none.
Undirected(m) ==
  {[degree |-> [v \in NodeID |-> Cardinality({e \in pairs : v \in e})], num_edges |-> m] :
     pairs \in kSubset(m, kSubset(2, NodeID))}
HubCount(i) == Cardinality({v \in NodeID : i.degree[v] > i.num_edges \div N})
Stars == {i \in Undirected(4) : HubCount(i) >= NumThreads /\ i.degree[5] = 3 /\ i.degree[0] = 0}

Mixed == Crowded \union Stars

-----------------------------------------------------------------------------
(* Graphs for Rabbit Order: a triangle with a tail, which has weights, a   *)
(* loop and an edge in both directions, and a graph with a vertex that has *)
(* no edges.                                                               *)

Unweighted(E) == {<<e[1], e[2], 1>> : e \in E}

FourVertices ==
  { {<<0, 1, 2>>, <<1, 0, 1>>, <<1, 1, 1>>, <<1, 2, 1>>, <<0, 2, 1>>, <<3, 2, 1>>},
    Unweighted({<<0, 1>>, <<1, 3>>}) }

-----------------------------------------------------------------------------
(* Symmetric graphs for Leiden: a path, on which racing moves and more     *)
(* than one pass take place; a triangle with a vertex apart; and a heavy   *)
(* edge between vertices with a loop.                                      *)

Symmetric(f) ==
  [a \in 0 .. 3 |-> [b \in 0 .. 3 |-> IF {a, b} \in DOMAIN f THEN f[{a, b}] ELSE 0]]

SmallCommunities ==
  {Symmetric([e \in {{0, 1}, {0, 2}, {2, 3}} |-> 1]),
   Symmetric([e \in {{0, 1}, {1, 2}, {0, 2}} |-> 1]),
   Symmetric([e \in {{1}, {1, 2}, {2, 3}} |-> Cardinality(e)])}
=============================================================================
