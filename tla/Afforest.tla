------------------------------ MODULE Afforest ------------------------------
(***************************************************************************)
(* bench/src/cc.cc: connected components by the Afforest algorithm.        *)
(*                                                                         *)
(* comp is one array of parent pointers that every OpenMP thread reads and *)
(* writes without a lock; the only synchronisation is the compare_and_swap *)
(* in Link and the barrier at the end of each "omp parallel for".  Every   *)
(* read and every write of comp is a step of its own here, so the steps of *)
(* the threads interleave in every order the code allows.                  *)
(*                                                                         *)
(* A parallel loop is the set todo of the iterations no thread has taken:  *)
(* a thread takes any of them, which covers every schedule and chunk size. *)
(***************************************************************************)
EXTENDS GraphView

CONSTANTS
  Graphs,           \* the graphs the kernel may be called with
  Threads,          \* the OpenMP threads
  NeighborRounds    \* neighbor_rounds

ASSUME GraphsAssumption == \A g \in Graphs : IsGraph(g)
ASSUME RoundsAssumption == NeighborRounds \in Nat \ {0}

VARIABLES
  graph,    \* the graph of this run, never written
  comp,     \* pvector<NodeID> comp
  phase,    \* the loop of Afforest being executed
  r,        \* the sampling round
  c,        \* the result of SampleFrequentElement
  todo,     \* iterations of the current parallel loop not yet taken
  pc,       \* where each thread is in the body of the loop
  u,        \* the loop variable: u in the link loops, n in Compress
  k,        \* how many neighbours of u were visited, the current one included
  p1, p2,   \* the locals of Link
  tmp       \* a value of comp read by the thread and not yet used

shared == <<graph, comp, phase, r, c, todo>>
locals == <<pc, u, k, p1, p2, tmp>>
vars   == <<shared, locals>>

Phases    == {"link", "compress", "sample", "final", "finalCompress", "done"}
Locations == {"idle", "skip", "next", "readP2", "readHigh", "cas",
              "readParent", "readGrandparent", "rereadLow",
              "crawl", "reread", "store"}

Init ==
  /\ graph \in Graphs
  /\ comp = [n \in NodeID |-> n]
  /\ phase = "link"
  /\ r = 0
  /\ c = 0
  /\ todo = NodeID
  /\ pc = [t \in Threads |-> "idle"]
  /\ u  = [t \in Threads |-> 0]
  /\ k  = [t \in Threads |-> 0]
  /\ p1 = [t \in Threads |-> 0]
  /\ p2 = [t \in Threads |-> 0]
  /\ tmp = [t \in Threads |-> 0]

-----------------------------------------------------------------------------
(***************************************************************************)
(* The neighbours a thread links u with, as positions in the list          *)
(* out_neigh(u) followed, for the final phase of a directed graph, by      *)
(* in_neigh(u).                                                            *)
(***************************************************************************)
\* Variant: the final phase starts one neighbour too late.
FirstSkipsOne(n) ==
  StartOffset(graph, n, IF phase = "link" THEN r ELSE NeighborRounds + 1)

FirstNeighbor(n) ==
  StartOffset(graph, n, IF phase = "link" THEN r ELSE NeighborRounds)

\* Variant: the final phase of a directed graph without the reverse edges.
LastIgnoresIn(n) ==
  IF phase = "link" THEN StartOffset(graph, n, r + 1) ELSE OutDegree(graph, n)

LastNeighbor(n) ==
  IF phase = "link"
  THEN StartOffset(graph, n, r + 1)
  ELSE OutDegree(graph, n) + (IF graph.directed THEN InDegree(graph, n) ELSE 0)

Neighbor(n, i) == IF i <= OutDegree(graph, n)
                  THEN OutNeigh(graph, n)[i]
                  ELSE InNeigh(graph, n)[i - OutDegree(graph, n)]

High(t) == IF p1[t] > p2[t] THEN p1[t] ELSE p2[t]

Low(t)  == p1[t] + (p2[t] - High(t))

Goto(t, location) == pc' = [pc EXCEPT ![t] = location]

\* A thread takes the next iteration of the current loop.
TakeIteration(t, n) ==
  /\ pc[t] = "idle"
  /\ n \in todo
  /\ todo' = todo \ {n}
  /\ u' = [u EXCEPT ![t] = n]
  /\ \/ /\ phase = "link"
        /\ k' = [k EXCEPT ![t] = FirstNeighbor(n)]
        /\ Goto(t, "next")
     \/ /\ phase = "final"
        /\ k' = [k EXCEPT ![t] = FirstNeighbor(n)]
        /\ Goto(t, "skip")
     \/ /\ phase \in {"compress", "finalCompress"}
        /\ k' = k
        /\ Goto(t, "crawl")
  /\ UNCHANGED <<graph, comp, phase, r, c, p1, p2, tmp>>

\* The iteration ends: the thread's locals go out of scope.
EndIteration(t) ==
  /\ Goto(t, "idle")
  /\ u' = [u EXCEPT ![t] = 0]
  /\ k' = [k EXCEPT ![t] = 0]

\* if (comp[u] == c) continue;
SkipLargest(t) ==
  /\ pc[t] = "skip"
  /\ IF comp[u[t]] = c
     THEN EndIteration(t)
     ELSE Goto(t, "next") /\ UNCHANGED <<u, k>>
  /\ UNCHANGED <<shared, p1, p2, tmp>>

\* The loop over the neighbours of u is exhausted.
NoMoreNeighbors(t) ==
  /\ pc[t] = "next"
  /\ k[t] >= LastNeighbor(u[t])
  /\ EndIteration(t)
  /\ UNCHANGED <<shared, p1, p2, tmp>>

-----------------------------------------------------------------------------
(* Link(u, v, comp) *)

\* Link returns and the loop over the neighbours goes on.
Return(t) ==
  /\ Goto(t, "next")
  /\ p1' = [p1 EXCEPT ![t] = 0]
  /\ p2' = [p2 EXCEPT ![t] = 0]
  /\ tmp' = [tmp EXCEPT ![t] = 0]

\* The loop test  while (p1 != p2)  for the values just read.
Test(t, first, second) ==
  IF first = second
  THEN Return(t)
  ELSE /\ Goto(t, "readHigh")
       /\ p1' = [p1 EXCEPT ![t] = first]
       /\ p2' = [p2 EXCEPT ![t] = second]
       /\ tmp' = [tmp EXCEPT ![t] = 0]

\* The call of Link with the next neighbour, up to  p1 = comp[u].
ReadP1(t) ==
  /\ pc[t] = "next"
  /\ k[t] < LastNeighbor(u[t])
  /\ k' = [k EXCEPT ![t] = k[t] + 1]
  /\ p1' = [p1 EXCEPT ![t] = comp[u[t]]]
  /\ Goto(t, "readP2")
  /\ UNCHANGED <<shared, u, p2, tmp>>

\* p2 = comp[v], and the first loop test.
ReadP2(t) ==
  /\ pc[t] = "readP2"
  /\ Test(t, p1[t], comp[Neighbor(u[t], k[t])])
  /\ UNCHANGED <<shared, u, k>>

\* p_high = comp[high]
ReadHigh(t) ==
  /\ pc[t] = "readHigh"
  /\ LET p_high == comp[High(t)] IN
       \/ p_high = Low(t) /\ Return(t)
       \/ p_high = High(t) /\ Goto(t, "cas") /\ UNCHANGED <<p1, p2, tmp>>
       \/ /\ p_high \notin {Low(t), High(t)}
          /\ Goto(t, "readParent")
          /\ UNCHANGED <<p1, p2, tmp>>
  /\ UNCHANGED <<shared, u, k>>

\* Variant: a plain store instead of the compare_and_swap.
BlindHook(t) ==
  /\ pc[t] = "cas"
  /\ comp' = [comp EXCEPT ![High(t)] = Low(t)]
  /\ Return(t)
  /\ UNCHANGED <<graph, phase, r, c, todo, u, k>>

\* compare_and_swap(comp[high], high, low)
CompareAndSwap(t) ==
  /\ pc[t] = "cas"
  /\ IF comp[High(t)] = High(t)
     THEN comp' = [comp EXCEPT ![High(t)] = Low(t)] /\ Return(t)
     ELSE Goto(t, "readParent") /\ UNCHANGED <<comp, p1, p2, tmp>>
  /\ UNCHANGED <<graph, phase, r, c, todo, u, k>>

\* Variant: the retry tests the same p1 and p2 again.
RetryWithoutReading(t) ==
  /\ pc[t] = "readParent"
  /\ Goto(t, "readHigh")
  /\ UNCHANGED <<shared, u, k, p1, p2, tmp>>

\* The inner read of  p1 = comp[comp[high]].
ReadParent(t) ==
  /\ pc[t] = "readParent"
  /\ tmp' = [tmp EXCEPT ![t] = comp[High(t)]]
  /\ Goto(t, "readGrandparent")
  /\ UNCHANGED <<shared, u, k, p1, p2>>

\* The outer read of  p1 = comp[comp[high]].
ReadGrandparent(t) ==
  /\ pc[t] = "readGrandparent"
  /\ tmp' = [tmp EXCEPT ![t] = comp[tmp[t]]]
  /\ Goto(t, "rereadLow")
  /\ UNCHANGED <<shared, u, k, p1, p2>>

\* p2 = comp[low], and the loop test.
RereadLow(t) ==
  /\ pc[t] = "rereadLow"
  /\ Test(t, tmp[t], comp[Low(t)])
  /\ UNCHANGED <<shared, u, k>>

-----------------------------------------------------------------------------
(* Compress(g, comp): comp[n] is written by the thread that took n only, so *)
(* its value is the same at every read of one test or assignment.          *)

\* while (comp[n] != comp[comp[n]])
Crawl(t) ==
  /\ pc[t] = "crawl"
  /\ IF comp[u[t]] = comp[comp[u[t]]]
     THEN EndIteration(t)
     ELSE Goto(t, "reread") /\ UNCHANGED <<u, k>>
  /\ UNCHANGED <<shared, p1, p2, tmp>>

\* The right-hand side of  comp[n] = comp[comp[n]].
Reread(t) ==
  /\ pc[t] = "reread"
  /\ tmp' = [tmp EXCEPT ![t] = comp[comp[u[t]]]]
  /\ Goto(t, "store")
  /\ UNCHANGED <<shared, u, k, p1, p2>>

\* The assignment to comp[n], of a value that may be stale by now.
Store(t) ==
  /\ pc[t] = "store"
  /\ comp' = [comp EXCEPT ![u[t]] = tmp[t]]
  /\ tmp' = [tmp EXCEPT ![t] = 0]
  /\ Goto(t, "crawl")
  /\ UNCHANGED <<graph, phase, r, c, todo, u, k, p1, p2>>

-----------------------------------------------------------------------------
LoopDone == todo = {} /\ \A t \in Threads : pc[t] = "idle"

\* The barrier at the end of a parallel loop, and the start of the next one.
Barrier ==
  /\ LoopDone
  /\ \/ phase = "link" /\ phase' = "compress" /\ r' = r /\ todo' = NodeID
     \/ /\ phase = "compress"
        /\ IF r + 1 < NeighborRounds
           THEN phase' = "link" /\ r' = r + 1 /\ todo' = NodeID
           ELSE phase' = "sample" /\ UNCHANGED <<r, todo>>
     \/ phase = "final" /\ phase' = "finalCompress" /\ r' = r /\ todo' = NodeID
     \/ phase = "finalCompress" /\ phase' = "done" /\ UNCHANGED <<r, todo>>
  /\ UNCHANGED <<graph, comp, c, locals>>

\* SampleFrequentElement draws random elements of comp and returns the value
\* it saw most often: any value that occurs may win.
SampleFrequentElement ==
  /\ phase = "sample"
  /\ \E n \in NodeID : c' = comp[n]
  /\ phase' = "final"
  /\ todo' = NodeID
  /\ UNCHANGED <<graph, comp, r, locals>>

LinkStep(t) == \/ ReadP1(t) \/ ReadP2(t) \/ ReadHigh(t) \/ CompareAndSwap(t)
               \/ ReadParent(t) \/ ReadGrandparent(t) \/ RereadLow(t)

CompressStep(t) == Crawl(t) \/ Reread(t) \/ Store(t)

Thread(t) == \/ \E n \in NodeID : TakeIteration(t, n)
             \/ SkipLargest(t)
             \/ NoMoreNeighbors(t)
             \/ LinkStep(t)
             \/ CompressStep(t)

Next == (\E t \in Threads : Thread(t)) \/ Barrier \/ SampleFrequentElement

Spec == Init /\ [][Next]_vars

\* Every OpenMP thread is scheduled until the region ends.
Fairness == /\ \A t \in Threads : WF_vars(Thread(t))
            /\ WF_vars(Barrier)
            /\ WF_vars(SampleFrequentElement)

FairSpec == Spec /\ Fairness

-----------------------------------------------------------------------------
(* Properties *)

TypeOK ==
  /\ IsGraph(graph)
  /\ comp \in [NodeID -> NodeID]
  /\ phase \in Phases
  /\ r \in 0 .. (NeighborRounds - 1)
  /\ c \in NodeID
  /\ todo \in SUBSET NodeID
  /\ pc \in [Threads -> Locations]
  /\ u \in [Threads -> NodeID]
  /\ k \in [Threads -> Nat]
  /\ p1 \in [Threads -> NodeID]
  /\ p2 \in [Threads -> NodeID]
  /\ tmp \in [Threads -> NodeID]

(***************************************************************************)
(* At no moment, whatever the threads are in the middle of, does comp      *)
(* connect two vertices the graph does not (the reads of comp in Link and  *)
(* Compress are racy and may be stale).                                    *)
(***************************************************************************)
Sound == \A n \in NodeID : SameComponent(graph, n, comp[n])

(***************************************************************************)
(* The result: comp[x] = comp[y] exactly for connected x and y, although   *)
(* the final phase skips every vertex found in the sampled component,      *)
(* whichever component the sample picked.                                  *)
(***************************************************************************)
Correct ==
  phase = "done" =>
    \A x, y \in NodeID : comp[x] = comp[y] <=> SameComponent(graph, x, y)

(***************************************************************************)
(* "Place nodes u and v in same component of lower component ID": the      *)
(* label of a component is its smallest vertex.                            *)
(***************************************************************************)
LowestLabel ==
  phase = "done" =>
    \A x, y \in NodeID : SameComponent(graph, x, y) => comp[x] <= y

(***************************************************************************)
(* The edges of a vertex the final phase is done with are in the trees,    *)
(* unless the vertex is in the tree of the sampled component: skipping it  *)
(* loses nothing, because whoever is at the other end links the edge or is *)
(* in that tree too.                                                       *)
(***************************************************************************)
Finished(n) == /\ n \notin todo
               /\ \A t \in Threads : pc[t] # "idle" => u[t] # n

SkipIsSafe ==
  phase = "final" =>
    \A x, y \in NodeID :
      Adjacent(graph, x, y) /\ Finished(x) /\ Finished(y)
        => SameTree(comp, x, y)

(***************************************************************************)
(* Compress leaves trees of depth 1 ("Reduce depth of tree for each        *)
(* component to 1"), although the threads shorten each other's paths.      *)
(***************************************************************************)
CompressFlattens ==
  [][(phase \in {"compress", "finalCompress"} /\ phase' # phase)
        => \A n \in NodeID : comp[comp[n]] = comp[n]]_vars

(***************************************************************************)
(* A parent pointer only ever moves down: no stale value undoes a hook or  *)
(* lengthens a path, in Link or in Compress.                               *)
(***************************************************************************)
ParentsDescend == [][\A n \in NodeID : comp'[n] <= comp[n]]_vars

(***************************************************************************)
(* The trees and the answer, as an implementation of ComponentMerging:     *)
(* every successful compare_and_swap unites exactly the classes of the two *)
(* ends of an edge, and no other step changes a class.                     *)
(***************************************************************************)
Merging == INSTANCE ComponentMerging
             WITH class  <- [n \in NodeID |-> TreeOf(comp, n)],
                  labels <- IF phase = "done" THEN comp ELSE << >>

RefinesMerging == Merging!CSpec

(***************************************************************************)
(* Link's retry loop and Compress's loop end whatever the other threads    *)
(* do, so the kernel returns.                                              *)
(***************************************************************************)
Termination == <>(phase = "done")

-----------------------------------------------------------------------------
(***************************************************************************)
(* The inductive invariant.  SameTree never loses a pair, so whatever a    *)
(* thread learned about the trees stays true while the others run.         *)
(***************************************************************************)
LinkBody == {"readHigh", "cas", "readParent", "readGrandparent", "rereadLow"}
LinkLocations == {"next", "readP2"} \union LinkBody
CompressLocations == {"crawl", "reread", "store"}

\* A thread is at a line of the loop being executed, on a vertex of its own.
Placed ==
  \A t \in Threads :
    /\ pc[t] \in LinkLocations => phase \in {"link", "final"}
    /\ pc[t] = "skip" => phase = "final"
    /\ pc[t] \in CompressLocations => phase \in {"compress", "finalCompress"}
    /\ pc[t] # "idle" =>
         /\ u[t] \notin todo
         /\ \A s \in Threads : s # t /\ pc[s] # "idle" => u[s] # u[t]

Descends == \A n \in NodeID : comp[n] <= n

\* The first j neighbours of n, from the offset of this phase on, are linked.
LinkedUpTo(n, j) ==
  \A i \in (FirstNeighbor(n) + 1) .. j : SameTree(comp, n, Neighbor(n, i))

\* p1 and p2 stand for the two ends of the edge being linked.
Ends(t) ==
  LET v == Neighbor(u[t], k[t])
  IN  \/ SameTree(comp, p1[t], u[t]) /\ SameTree(comp, p2[t], v)
      \/ SameTree(comp, p1[t], v) /\ SameTree(comp, p2[t], u[t])

LinkInv(t) ==
  /\ pc[t] = "skip" => k[t] = FirstNeighbor(u[t])
  /\ pc[t] = "next" =>
       /\ k[t] \in FirstNeighbor(u[t]) .. LastNeighbor(u[t])
       /\ LinkedUpTo(u[t], k[t])
  /\ pc[t] \in {"readP2"} \union LinkBody =>
       /\ k[t] \in (FirstNeighbor(u[t]) + 1) .. LastNeighbor(u[t])
       /\ LinkedUpTo(u[t], k[t] - 1)
  /\ pc[t] = "readP2" => SameTree(comp, p1[t], u[t])
  /\ pc[t] \in LinkBody => p1[t] # p2[t] /\ Ends(t)
  /\ pc[t] \in {"readGrandparent", "rereadLow"} =>
       SameTree(comp, tmp[t], High(t))

\* A stale value is still above comp[n] in its tree, by parents below n.
CompressInv(t) ==
  /\ pc[t] \in {"reread", "store"} => comp[u[t]] # u[t]
  /\ pc[t] = "store" =>
       /\ tmp[t] <= comp[u[t]]
       /\ \A S \in SUBSET NodeID :
            RespectsBelow(comp, S, u[t]) => (comp[u[t]] \in S <=> tmp[t] \in S)

\* The rounds whose neighbour of n is linked.
RoundsDone(n) ==
  CASE phase = "link"     -> IF Finished(n) THEN r + 1 ELSE r
    [] phase = "compress" -> r + 1
    [] OTHER              -> NeighborRounds

Sampled(n, rounds) ==
  \A i \in 1 .. StartOffset(graph, n, rounds) :
    SameTree(comp, n, OutNeigh(graph, n)[i])

SampledInv == \A n \in NodeID : Sampled(n, RoundsDone(n))

FinalInv ==
  phase = "final" =>
    \A n \in NodeID :
      Finished(n) => SameTree(comp, n, c) \/ LinkedUpTo(n, LastNeighbor(n))

LinkedInv ==
  phase \in {"finalCompress", "done"} =>
    \A x, y \in NodeID : Adjacent(graph, x, y) => SameTree(comp, x, y)

FlatInv ==
  \A n \in NodeID :
    \/ phase \in {"compress", "finalCompress"} /\ Finished(n)
    \/ phase = "done"
    => comp[comp[n]] = comp[n]

Inv == /\ TypeOK
       /\ Placed
       /\ Descends
       /\ Sound
       /\ \A t \in Threads : LinkInv(t) /\ CompressInv(t)
       /\ SampledInv
       /\ FinalInv
       /\ LinkedInv
       /\ FlatInv
=============================================================================
