--------------------------- MODULE ShiloachVishkin ---------------------------
(***************************************************************************)
(* bench/src/cc_sv.cc: connected components by hooking and shortcutting.   *)
(*                                                                         *)
(* Unlike Afforest nothing here is atomic but the single reads and writes: *)
(* a thread hooks a root it has just read to be one with a plain store, so *)
(* a second thread may hook the same root elsewhere and undo the first     *)
(* hook.  What repairs this is the flag change: the loop only ends after   *)
(* an iteration no thread has set it in.                                   *)
(***************************************************************************)
EXTENDS GraphView, FiniteSets

CONSTANTS
  Graphs,       \* the graphs the kernel may be called with
  Threads       \* the OpenMP threads

ASSUME GraphsAssumption == \A g \in Graphs : IsGraph(g)

VARIABLES
  graph,            \* the graph of this run, never written
  comp,             \* pvector<NodeID> comp
  change, num_iter,
  phase,            \* the parallel loop being executed
  todo,             \* iterations of it not yet taken
  pc,               \* where each thread is in the body of the loop
  u,                \* the loop variable: n in the second loop
  k,                \* how many neighbours of u were visited, the current one included
  comp_u, comp_v,   \* the locals of the first loop
  tmp,              \* a value of comp read by the thread and not yet used
  before            \* comp when the iteration began (history)

shared == <<graph, comp, change, num_iter, phase, todo, before>>
locals == <<pc, u, k, comp_u, comp_v, tmp>>
vars   == <<shared, locals>>

Locations == {"idle", "next", "readV", "readHigh", "setChange", "hook",
              "crawl", "reread", "store"}

Init ==
  /\ graph \in Graphs
  /\ comp = [n \in NodeID |-> n]
  /\ change = FALSE
  /\ num_iter = 1
  /\ phase = "hook"
  /\ todo = NodeID
  /\ pc = [t \in Threads |-> "idle"]
  /\ u = [t \in Threads |-> 0]
  /\ k = [t \in Threads |-> 0]
  /\ comp_u = [t \in Threads |-> 0]
  /\ comp_v = [t \in Threads |-> 0]
  /\ tmp = [t \in Threads |-> 0]
  /\ before = comp

-----------------------------------------------------------------------------
Goto(t, location) == pc' = [pc EXCEPT ![t] = location]

TakeIteration(t, n) ==
  /\ pc[t] = "idle" /\ phase # "done"
  /\ n \in todo
  /\ todo' = todo \ {n}
  /\ u' = [u EXCEPT ![t] = n]
  /\ k' = [k EXCEPT ![t] = 0]
  /\ Goto(t, IF phase = "hook" THEN "next" ELSE "crawl")
  /\ UNCHANGED <<graph, comp, change, num_iter, phase, before, comp_u, comp_v, tmp>>

\* The iteration ends: the thread's locals go out of scope.
EndIteration(t) ==
  /\ Goto(t, "idle")
  /\ u' = [u EXCEPT ![t] = 0]
  /\ k' = [k EXCEPT ![t] = 0]

NoMoreNeighbors(t) ==
  /\ pc[t] = "next"
  /\ k[t] = OutDegree(graph, u[t])
  /\ EndIteration(t)
  /\ UNCHANGED <<shared, comp_u, comp_v, tmp>>

-----------------------------------------------------------------------------
(* The first loop: for (NodeID v : g.out_neigh(u)) *)

\* The current neighbour of u.
Neighbor(t) == OutNeigh(graph, u[t])[k[t]]

High(t) == IF comp_u[t] > comp_v[t] THEN comp_u[t] ELSE comp_v[t]

Low(t) == comp_u[t] + (comp_v[t] - High(t))

Continue(t) ==
  /\ Goto(t, "next")
  /\ comp_u' = [comp_u EXCEPT ![t] = 0]
  /\ comp_v' = [comp_v EXCEPT ![t] = 0]

\* comp_u = comp[u]
ReadU(t) ==
  /\ pc[t] = "next"
  /\ k[t] < OutDegree(graph, u[t])
  /\ k' = [k EXCEPT ![t] = @ + 1]
  /\ comp_u' = [comp_u EXCEPT ![t] = comp[u[t]]]
  /\ Goto(t, "readV")
  /\ UNCHANGED <<shared, u, comp_v, tmp>>

\* comp_v = comp[v], and  if (comp_u == comp_v) continue;
ReadV(t) ==
  /\ pc[t] = "readV"
  /\ IF comp[Neighbor(t)] = comp_u[t]
     THEN Continue(t)
     ELSE /\ comp_v' = [comp_v EXCEPT ![t] = comp[Neighbor(t)]]
          /\ Goto(t, "readHigh")
          /\ UNCHANGED comp_u
  /\ UNCHANGED <<shared, u, k, tmp>>

\* if (high_comp == comp[high_comp])
ReadHigh(t) ==
  /\ pc[t] = "readHigh"
  /\ IF comp[High(t)] = High(t)
     THEN Goto(t, "setChange") /\ UNCHANGED <<comp_u, comp_v>>
     ELSE Continue(t)
  /\ UNCHANGED <<shared, u, k, tmp>>

\* Variant: the flag is left alone if the root was hooked meanwhile.
SetChangeOfRoot(t) ==
  /\ pc[t] = "setChange"
  /\ change' = (change \/ u[t] = High(t))
  /\ Goto(t, "hook")
  /\ UNCHANGED <<graph, comp, num_iter, phase, todo, before, u, k, comp_u, comp_v, tmp>>

SetChange(t) ==
  /\ pc[t] = "setChange"
  /\ change' = TRUE
  /\ Goto(t, "hook")
  /\ UNCHANGED <<graph, comp, num_iter, phase, todo, before, u, k, comp_u, comp_v, tmp>>

\* Variant: without the min-max swap the end v is hooked below the end u.
HookWithoutSwap(t) ==
  /\ pc[t] = "hook"
  /\ comp' = [comp EXCEPT ![comp_v[t]] = comp_u[t]]
  /\ Continue(t)
  /\ UNCHANGED <<graph, change, num_iter, phase, todo, before, u, k, tmp>>

\* comp[high_comp] = low_comp, whatever comp[high_comp] is by now.
Hook(t) ==
  /\ pc[t] = "hook"
  /\ comp' = [comp EXCEPT ![High(t)] = Low(t)]
  /\ Continue(t)
  /\ UNCHANGED <<graph, change, num_iter, phase, todo, before, u, k, tmp>>

-----------------------------------------------------------------------------
(* The second loop: comp[n] is written by the thread that took n only, so   *)
(* its value is the same at every read of one test or assignment.           *)

\* while (comp[n] != comp[comp[n]])
Crawl(t) ==
  /\ pc[t] = "crawl"
  /\ IF comp[u[t]] = comp[comp[u[t]]]
     THEN EndIteration(t)
     ELSE Goto(t, "reread") /\ UNCHANGED <<u, k>>
  /\ UNCHANGED <<shared, comp_u, comp_v, tmp>>

\* Variant: comp[n] is stored back.
RereadOwn(t) ==
  /\ pc[t] = "reread"
  /\ tmp' = [tmp EXCEPT ![t] = comp[u[t]]]
  /\ Goto(t, "store")
  /\ UNCHANGED <<shared, u, k, comp_u, comp_v>>

\* The right-hand side of  comp[n] = comp[comp[n]].
Reread(t) ==
  /\ pc[t] = "reread"
  /\ tmp' = [tmp EXCEPT ![t] = comp[comp[u[t]]]]
  /\ Goto(t, "store")
  /\ UNCHANGED <<shared, u, k, comp_u, comp_v>>

\* The assignment to comp[n], of a value that may be stale by now.
Store(t) ==
  /\ pc[t] = "store"
  /\ comp' = [comp EXCEPT ![u[t]] = tmp[t]]
  /\ tmp' = [tmp EXCEPT ![t] = 0]
  /\ Goto(t, "crawl")
  /\ UNCHANGED <<graph, change, num_iter, phase, todo, before, u, k, comp_u, comp_v>>

-----------------------------------------------------------------------------
LoopDone == todo = {} /\ \A t \in Threads : pc[t] = "idle"

EndHooking ==
  /\ phase = "hook" /\ LoopDone
  /\ phase' = "compress" /\ todo' = NodeID
  /\ UNCHANGED <<graph, comp, change, num_iter, before, locals>>

\* while (change)
EndIterationOrLoop ==
  /\ phase = "compress" /\ LoopDone
  /\ IF change
     THEN /\ phase' = "hook" /\ todo' = NodeID
          /\ change' = FALSE
          /\ num_iter' = num_iter + 1
          /\ before' = comp
     ELSE phase' = "done" /\ UNCHANGED <<change, num_iter, todo, before>>
  /\ UNCHANGED <<graph, comp, locals>>

HookStep(t) == ReadU(t) \/ ReadV(t) \/ ReadHigh(t) \/ SetChange(t) \/ Hook(t)
CompressStep(t) == Crawl(t) \/ Reread(t) \/ Store(t)

Thread(t) == \/ \E n \in NodeID : TakeIteration(t, n)
             \/ NoMoreNeighbors(t)
             \/ HookStep(t)
             \/ CompressStep(t)

Next == (\E t \in Threads : Thread(t)) \/ EndHooking \/ EndIterationOrLoop

Spec == Init /\ [][Next]_vars

\* Every OpenMP thread is scheduled until the region ends.
Fairness == /\ \A t \in Threads : WF_vars(Thread(t))
            /\ WF_vars(EndHooking)
            /\ WF_vars(EndIterationOrLoop)

FairSpec == Spec /\ Fairness

-----------------------------------------------------------------------------
(* Properties *)

TypeOK ==
  /\ IsGraph(graph)
  /\ comp \in [NodeID -> NodeID] /\ before \in [NodeID -> NodeID]
  /\ change \in BOOLEAN
  /\ num_iter \in Nat
  /\ phase \in {"hook", "compress", "done"}
  /\ todo \in SUBSET NodeID
  /\ pc \in [Threads -> Locations]
  /\ u \in [Threads -> NodeID]
  /\ k \in [Threads -> Nat]
  /\ comp_u \in [Threads -> NodeID] /\ comp_v \in [Threads -> NodeID]
  /\ tmp \in [Threads -> NodeID]

\* Whatever the threads are in the middle of, comp connects no two vertices
\* the graph does not connect.
Sound == \A n \in NodeID : SameComponent(graph, n, comp[n])

\* The result: although hooks were overwritten, and although the flag is
\* cleared, set and tested without any synchronisation but the barriers, the
\* loop has not ended before the labels are the components.
Correct ==
  phase = "done" =>
    \A x, y \in NodeID : comp[x] = comp[y] <=> SameComponent(graph, x, y)

\* "lower component ID wins independent of direction": the label of a
\* component is its smallest vertex.
LowestLabel ==
  phase = "done" =>
    \A x, y \in NodeID : SameComponent(graph, x, y) => comp[x] <= y

\* A hook that overwrites another one takes back what this iteration merged,
\* never what an earlier one did: a vertex stays in one tree with the label it
\* had when the iteration began.
NothingIsSplit == \A n \in NodeID : SameTree(comp, n, before[n])

\* Each iteration but the last hooks a root, however many hooks are lost: the
\* loop takes no more iterations than there are vertices.
FewIterations == num_iter <= N

\* Every iteration counts, although plain stores overwrite hooks: what is
\* joined stays joined, and each iteration but the last joins something.
HooksCount == NothingIsSplit /\ FewIterations

\* A vertex that was hooked is no root again, in either loop.
RootsDoNotReturn == [][\A n \in NodeID : comp[n] # n => comp'[n] # n]_vars

\* The second loop leaves trees of depth 1, although its threads shorten each
\* other's paths: the next iteration only finds roots.
CompressFlattens ==
  [][phase = "compress" /\ phase' # phase => \A n \in NodeID : comp[comp[n]] = comp[n]]_vars

\* The kernel returns.
Termination == <>(phase = "done")

-----------------------------------------------------------------------------
(***************************************************************************)
(* The inductive invariant.                                                *)
(***************************************************************************)
Reading == {"readV", "readHigh", "setChange", "hook"}

\* A thread is at a line of the loop being executed, on a vertex of its own.
Placed ==
  \A t \in Threads :
    /\ pc[t] \in {"next"} \union Reading => phase = "hook"
    /\ pc[t] \in {"crawl", "reread", "store"} => phase = "compress"
    /\ pc[t] # "idle" =>
         /\ u[t] \notin todo
         /\ \A s \in Threads : s # t /\ pc[s] # "idle" => u[s] # u[t]

Descends == \A n \in NodeID : comp[n] <= n

\* What the locals of a thread are connected to, and their order.
HookInv(t) ==
  /\ pc[t] \in {"next"} \union Reading => k[t] <= OutDegree(graph, u[t])
  /\ pc[t] \in Reading => k[t] >= 1 /\ SameComponent(graph, u[t], comp_u[t])
  /\ pc[t] \in Reading \ {"readV"} =>
       /\ comp_u[t] # comp_v[t]
       /\ SameComponent(graph, Neighbor(t), comp_v[t])

\* A stale value is connected to the vertex, and below the parent read.
CompressInv(t) ==
  /\ pc[t] \in {"reread", "store"} => comp[u[t]] # u[t]
  /\ pc[t] = "store" => tmp[t] <= comp[u[t]] /\ SameComponent(graph, u[t], tmp[t])

Finished(n) == /\ n \notin todo
               /\ \A t \in Threads : pc[t] # "idle" => u[t] # n

Flat == \A n \in NodeID : comp[comp[n]] = comp[n]

FlatInv ==
  phase = "compress" => \A n \in NodeID : Finished(n) => comp[comp[n]] = comp[n]

\* The first j neighbours of n have its label.
SameLabels(n, j) == \A i \in 1 .. j : comp[n] = comp[OutNeigh(graph, n)[i]]

\* While no thread has set the flag nothing was hooked, so the labels a thread
\* has read are those in comp and every edge it is done with joins equal ones.
Quiet ==
  /\ Flat
  /\ \A t \in Threads : pc[t] \notin {"hook", "reread", "store"}
  /\ phase = "hook" =>
       /\ \A n \in NodeID : Finished(n) => SameLabels(n, OutDegree(graph, n))
       /\ \A t \in Threads :
            /\ pc[t] = "next" => SameLabels(u[t], k[t])
            /\ pc[t] \in Reading =>
                 SameLabels(u[t], k[t] - 1) /\ comp_u[t] = comp[u[t]]
            /\ pc[t] \in Reading \ {"readV"} => comp_v[t] = comp[Neighbor(t)]
  /\ phase # "hook" => \A n \in NodeID : SameLabels(n, OutDegree(graph, n))

QuietInv == ~ change => Quiet

Inv == /\ TypeOK
       /\ Placed
       /\ Descends
       /\ Sound
       /\ \A t \in Threads : HookInv(t) /\ CompressInv(t)
       /\ FlatInv
       /\ QuietInv
       /\ phase = "done" => ~ change

-----------------------------------------------------------------------------
(* Graphs the check runs the kernel on, given by their edges. *)

Ascending(S) ==
  [i \in 1 .. Cardinality(S) |-> CHOOSE m \in S : Cardinality({j \in S : j < m}) = i - 1]

DirectedBy(E) ==
  [directed |-> TRUE,
   out |-> [n \in NodeID |-> Ascending({m \in NodeID : <<n, m>> \in E})],
   in  |-> [n \in NodeID |-> Ascending({m \in NodeID : <<m, n>> \in E})]]

UndirectedBy(E) == [DirectedBy(E \union {<<e[2], e[1]>> : e \in E}) EXCEPT !.directed = FALSE]

\* Every undirected graph of four vertices in which 1 is joined to 3 only, and
\* all directed ones whose edges lead to or from vertex 3.
SomeGraphs ==
  {UndirectedBy(E) : E \in SUBSET {<<0, 2>>, <<0, 3>>, <<1, 3>>, <<2, 3>>}}
    \union {DirectedBy(E) : E \in SUBSET {<<3, 0>>, <<3, 1>>, <<1, 3>>, <<2, 3>>}}
=============================================================================
