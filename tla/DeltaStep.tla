----------------------------- MODULE DeltaStep -----------------------------
(***************************************************************************)
(* bench/src/sssp.cc: single-source shortest paths by delta-stepping.      *)
(*                                                                         *)
(* All threads run one parallel region.  They share dist, written with     *)
(* compare_and_swap only, the frontier, and two pairs of counters that are *)
(* double buffered by the parity of iter.  Each thread keeps its own bins. *)
(* An iteration has two phases separated by barriers: relax the frontier   *)
(* (and, by bucket fusion, what falls into the thread's own current bin)   *)
(* and vote for the next bin; then copy the chosen local bins to the       *)
(* frontier, while one thread resets the counters of this iteration.       *)
(***************************************************************************)
EXTENDS Integers, Sequences

CONSTANTS
  N,                  \* num_nodes()
  WGraphs,            \* weighted graphs: [out |-> lists of [v, w], m |-> num_edges_directed()]
  Threads,
  Delta,              \* delta, the width of a bin
  BinSizeThreshold,   \* kBinSizeThreshold
  MaxBin              \* bound: the last bin below kDistInf

NodeID == 0 .. (N - 1)

DeltaStepAssumption ==
  /\ N \in Nat \ {0} /\ Threads # {} /\ Delta \in Nat \ {0}
  /\ BinSizeThreshold \in Nat /\ MaxBin \in Nat
  /\ \A g \in WGraphs : g.out \in [NodeID -> Seq([v : NodeID, w : Nat])] /\ g.m \in Nat

DistInf == Delta * (MaxBin + 1)     \* kDistInf: a path as long as this is never taken
NoBin   == MaxBin + 1               \* kMaxBin: above every bin in use
Bins    == 0 .. MaxBin

VARIABLES
  graph, source,    \* the arguments of DeltaStep
  dist,             \* pvector<WeightT> dist
  frontier,         \* the cells of the frontier written so far
  sharedIndexes,    \* shared_indexes[2]
  frontierTails,    \* frontier_tails[2]
  todo,             \* frontier positions no thread has taken in this iteration
  resetDone,        \* some thread entered "omp single" of this iteration
  pc, iter,         \* per thread: location, iteration counter
  localBins,        \* per thread: local_bins
  batch,            \* per thread: the vertices being relaxed, the current first
  fused,            \* per thread: batch is curr_bin_copy, not a frontier cell
  edge,             \* per thread: how many out-edges of the vertex were handled
  oldDist, newDist, \* per thread: the locals of RelaxEdges
  copyStart         \* per thread: copy_start

shared == <<graph, source, dist, frontier, sharedIndexes, frontierTails, todo, resetDone>>
locals == <<pc, iter, localBins, batch, fused, edge, oldDist, newDist, copyStart>>
vars   == <<shared, locals>>

Locations == {"while", "for", "check", "relax", "readU", "cas", "vote", "barrier1",
              "single", "claim", "copy", "barrier2", "exit"}

Curr(t) == iter[t] % 2
NextOf(t) == (iter[t] + 1) % 2
CurrBin(t) == sharedIndexes[Curr(t)]
NextBin(t) == sharedIndexes[NextOf(t)]

Init ==
  /\ graph \in WGraphs
  /\ source \in NodeID
  /\ dist = [n \in NodeID |-> IF n = source THEN 0 ELSE DistInf]
  /\ frontier = <<source>>
  /\ sharedIndexes = [i \in 0 .. 1 |-> IF i = 0 THEN 0 ELSE NoBin]
  /\ frontierTails = [i \in 0 .. 1 |-> IF i = 0 THEN 1 ELSE 0]
  /\ todo = {1}
  /\ resetDone = FALSE
  /\ pc = [t \in Threads |-> "while"]
  /\ iter = [t \in Threads |-> 0]
  /\ localBins = [t \in Threads |-> [b \in Bins |-> << >>]]
  /\ batch = [t \in Threads |-> << >>]
  /\ fused = [t \in Threads |-> FALSE]
  /\ edge = [t \in Threads |-> 0]
  /\ oldDist = [t \in Threads |-> 0]
  /\ newDist = [t \in Threads |-> 0]
  /\ copyStart = [t \in Threads |-> 0]

Goto(t, location) == pc' = [pc EXCEPT ![t] = location]

-----------------------------------------------------------------------------
\* while (shared_indexes[iter & 1] != kMaxBin)
WhileTest(t) ==
  /\ pc[t] = "while"
  /\ Goto(t, IF CurrBin(t) # NoBin THEN "for" ELSE "exit")
  /\ UNCHANGED <<shared, iter, localBins, batch, fused, edge, oldDist, newDist, copyStart>>

\* "omp for nowait": a thread takes a frontier position; u = frontier[i].
TakeFrontier(t, i) ==
  /\ pc[t] = "for"
  /\ i \in todo
  /\ todo' = todo \ {i}
  /\ batch' = [batch EXCEPT ![t] = <<frontier[i]>>]
  /\ Goto(t, "check")
  /\ UNCHANGED <<graph, source, dist, frontier, sharedIndexes, frontierTails, resetDone,
                 iter, localBins, fused, edge, oldDist, newDist, copyStart>>

\* if (dist[u] >= delta * curr_bin_index): a vertex that meanwhile moved to a
\* lower bin was relaxed there.
CheckStale(t) ==
  /\ pc[t] = "check"
  /\ IF dist[Head(batch[t])] >= Delta * CurrBin(t)
     THEN Goto(t, "relax") /\ batch' = batch
     ELSE Goto(t, "for") /\ batch' = [batch EXCEPT ![t] = << >>]
  /\ UNCHANGED <<shared, iter, localBins, fused, edge, oldDist, newDist, copyStart>>

\* The loop is exhausted for this thread; bucket fusion takes the thread's own
\* current bin, if it is not empty and below the threshold.
Fusable(t) == Len(localBins[t][CurrBin(t)]) \in 1 .. (BinSizeThreshold - 1)

Fuse(t) ==
  /\ Fusable(t)
  /\ batch' = [batch EXCEPT ![t] = localBins[t][CurrBin(t)]]
  /\ localBins' = [localBins EXCEPT ![t][CurrBin(t)] = << >>]
  /\ fused' = [fused EXCEPT ![t] = TRUE]
  /\ Goto(t, "relax")

LeaveRelaxing(t) ==
  \/ Fuse(t)
  \/ /\ ~ Fusable(t)
     /\ Goto(t, "vote")
     /\ batch' = [batch EXCEPT ![t] = << >>]
     /\ fused' = [fused EXCEPT ![t] = FALSE]
     /\ localBins' = localBins

EndFor(t) ==
  /\ pc[t] = "for"
  /\ todo = {}
  /\ LeaveRelaxing(t)
  /\ UNCHANGED <<shared, iter, edge, oldDist, newDist, copyStart>>

-----------------------------------------------------------------------------
(* RelaxEdges(g, u, delta, dist, local_bins) for u = Head(batch[t]) *)

OutEdges(t) == graph.out[Head(batch[t])]
Edge(t)     == OutEdges(t)[edge[t]]

\* old_dist = dist[wn.v] for the next out-edge wn.
NextEdge(t) ==
  /\ pc[t] = "relax"
  /\ edge[t] < Len(OutEdges(t))
  /\ edge' = [edge EXCEPT ![t] = edge[t] + 1]
  /\ oldDist' = [oldDist EXCEPT ![t] = dist[OutEdges(t)[edge[t] + 1].v]]
  /\ Goto(t, "readU")
  /\ UNCHANGED <<shared, iter, localBins, batch, fused, newDist, copyStart>>

\* The test of the retry loop, for the value of dist[wn.v] last read.
Improves(t, old, new) ==
  IF new < old
  THEN /\ Goto(t, "cas")
       /\ oldDist' = [oldDist EXCEPT ![t] = old]
       /\ newDist' = [newDist EXCEPT ![t] = new]
  ELSE /\ Goto(t, "relax")
       /\ oldDist' = [oldDist EXCEPT ![t] = 0]
       /\ newDist' = [newDist EXCEPT ![t] = 0]

\* new_dist = dist[u] + wn.w, read once for all retries.
ReadU(t) ==
  /\ pc[t] = "readU"
  /\ Improves(t, oldDist[t], dist[Head(batch[t])] + Edge(t).w)
  /\ UNCHANGED <<shared, iter, localBins, batch, fused, edge, copyStart>>

Push(t, v) ==
  localBins' = [localBins EXCEPT ![t][newDist[t] \div Delta] = Append(@, v)]

\* Variant: a failed compare_and_swap is not tried again.
NoRetry(t) ==
  /\ pc[t] = "cas"
  /\ LET v == Edge(t).v IN
       IF dist[v] = oldDist[t]
       THEN dist' = [dist EXCEPT ![v] = newDist[t]] /\ Push(t, v)
       ELSE UNCHANGED <<dist, localBins>>
  /\ Goto(t, "relax")
  /\ UNCHANGED <<graph, source, frontier, sharedIndexes, frontierTails, todo, resetDone,
                 iter, batch, fused, edge, oldDist, newDist, copyStart>>

\* compare_and_swap(dist[wn.v], old_dist, new_dist), then either push wn.v to
\* the bin of its new distance or read dist[wn.v] again.
CompareAndSwap(t) ==
  /\ pc[t] = "cas"
  /\ LET v == Edge(t).v IN
       IF dist[v] = oldDist[t]
       THEN /\ dist' = [dist EXCEPT ![v] = newDist[t]]
            /\ Push(t, v)
            /\ Goto(t, "relax")
            /\ oldDist' = [oldDist EXCEPT ![t] = 0]
            /\ newDist' = [newDist EXCEPT ![t] = 0]
       ELSE /\ Improves(t, dist[v], newDist[t])
            /\ UNCHANGED <<dist, localBins>>
  /\ UNCHANGED <<graph, source, frontier, sharedIndexes, frontierTails, todo, resetDone,
                 iter, batch, fused, edge, copyStart>>

\* All edges of u are handled: the next vertex of curr_bin_copy, or the next
\* position of the frontier, or the test of the fusion loop again.
EndRelax(t) ==
  /\ pc[t] = "relax"
  /\ edge[t] = Len(OutEdges(t))
  /\ edge' = [edge EXCEPT ![t] = 0]
  /\ \/ /\ fused[t] /\ Len(batch[t]) = 1
        /\ LeaveRelaxing(t)
     \/ /\ fused[t] /\ Len(batch[t]) > 1
        /\ batch' = [batch EXCEPT ![t] = Tail(batch[t])]
        /\ UNCHANGED <<pc, fused, localBins>>
     \/ /\ ~ fused[t]
        /\ batch' = [batch EXCEPT ![t] = << >>]
        /\ Goto(t, "for")
        /\ UNCHANGED <<fused, localBins>>
  /\ UNCHANGED <<shared, iter, oldDist, newDist, copyStart>>

-----------------------------------------------------------------------------
(* The vote, and the second phase. *)

MinOf(a, b) == IF a < b THEN a ELSE b

FirstBin(t) ==
  LET full == {b \in Bins : b >= CurrBin(t) /\ localBins[t][b] # << >>}
  IN  IF full = {} THEN NoBin ELSE CHOOSE b \in full : \A a \in full : b <= a

\* "omp critical": next_bin_index = min(next_bin_index, i).
Vote(t) ==
  /\ pc[t] = "vote"
  /\ sharedIndexes' = [sharedIndexes EXCEPT ![NextOf(t)] = MinOf(@, FirstBin(t))]
  /\ Goto(t, "barrier1")
  /\ UNCHANGED <<graph, source, dist, frontier, frontierTails, todo, resetDone,
                 iter, localBins, batch, fused, edge, oldDist, newDist, copyStart>>

\* The barrier between the two phases.
Barrier1 ==
  /\ \A t \in Threads : pc[t] = "barrier1"
  /\ pc' = [t \in Threads |-> "single"]
  /\ UNCHANGED <<shared, iter, localBins, batch, fused, edge, oldDist, newDist, copyStart>>

\* Variant: the counters of the next iteration are reset.
SingleResetsNext(t) ==
  /\ pc[t] = "single"
  /\ resetDone' = TRUE
  /\ IF resetDone
     THEN UNCHANGED <<sharedIndexes, frontierTails>>
     ELSE /\ sharedIndexes' = [sharedIndexes EXCEPT ![NextOf(t)] = NoBin]
          /\ frontierTails' = [frontierTails EXCEPT ![NextOf(t)] = 0]
  /\ Goto(t, "claim")
  /\ UNCHANGED <<graph, source, dist, frontier, todo,
                 iter, localBins, batch, fused, edge, oldDist, newDist, copyStart>>

\* Variant: nothing is reset.
SingleForgets(t) ==
  /\ pc[t] = "single"
  /\ resetDone' = TRUE
  /\ Goto(t, "claim")
  /\ UNCHANGED <<graph, source, dist, frontier, sharedIndexes, frontierTails, todo,
                 iter, localBins, batch, fused, edge, oldDist, newDist, copyStart>>

\* "omp single nowait": the first thread to arrive resets the counters of this
\* iteration for the iteration after the next one, the others pass.
Single(t) ==
  /\ pc[t] = "single"
  /\ resetDone' = TRUE
  /\ IF resetDone
     THEN UNCHANGED <<sharedIndexes, frontierTails>>
     ELSE /\ sharedIndexes' = [sharedIndexes EXCEPT ![Curr(t)] = NoBin]
          /\ frontierTails' = [frontierTails EXCEPT ![Curr(t)] = 0]
  /\ Goto(t, "claim")
  /\ UNCHANGED <<graph, source, dist, frontier, todo,
                 iter, localBins, batch, fused, edge, oldDist, newDist, copyStart>>

NextLocalBin(t) == IF NextBin(t) = NoBin THEN << >> ELSE localBins[t][NextBin(t)]

ClaimCells(t, start, cells) ==
  /\ pc[t] = "claim"
  /\ copyStart' = [copyStart EXCEPT ![t] = start]
  /\ frontierTails' = [frontierTails EXCEPT ![NextOf(t)] = @ + cells]
  /\ Goto(t, "copy")
  /\ UNCHANGED <<graph, source, dist, frontier, sharedIndexes, todo, resetDone,
                 iter, localBins, batch, fused, edge, oldDist, newDist>>

\* Variant: the copy begins in the last cell claimed before.
ClaimOverlapping(t) ==
  LET tail == frontierTails[NextOf(t)]
  IN  ClaimCells(t, IF tail = 0 THEN 0 ELSE tail - 1, Len(NextLocalBin(t)))

\* copy_start = fetch_and_add(next_frontier_tail, size); an empty bin claims
\* and copies nothing.
Claim(t) == ClaimCells(t, frontierTails[NextOf(t)], Len(NextLocalBin(t)))

\* copy(bin.begin(), bin.end(), frontier.data() + copy_start); resize(0); iter++.
\* Cells are numbered from 1 here; a cell no thread has written yet holds the
\* source, which stands for whatever the memory holds.
Copy(t) ==
  /\ pc[t] = "copy"
  /\ LET bin == NextLocalBin(t)
         end == copyStart[t] + Len(bin)
         size == IF end > Len(frontier) THEN end ELSE Len(frontier)
     IN  /\ frontier' = [i \in 1 .. size |->
                           IF i \in (copyStart[t] + 1) .. end THEN bin[i - copyStart[t]]
                           ELSE IF i <= Len(frontier) THEN frontier[i] ELSE source]
         /\ localBins' = IF bin = << >> THEN localBins
                         ELSE [localBins EXCEPT ![t][NextBin(t)] = << >>]
  /\ copyStart' = [copyStart EXCEPT ![t] = 0]
  /\ iter' = [iter EXCEPT ![t] = @ + 1]
  /\ Goto(t, "barrier2")
  /\ UNCHANGED <<graph, source, dist, sharedIndexes, frontierTails, todo, resetDone,
                 batch, fused, edge, oldDist, newDist>>

\* The barrier at the end of the iteration; the next "omp for" runs over
\* 0 .. curr_frontier_tail - 1.  Only the parity of iter is ever used.
Barrier2 ==
  /\ \A t \in Threads : pc[t] = "barrier2"
  /\ pc' = [t \in Threads |-> "while"]
  /\ iter' = [t \in Threads |-> iter[t] % 2]
  /\ \E t \in Threads : todo' = 1 .. frontierTails[Curr(t)]
  /\ resetDone' = FALSE
  /\ UNCHANGED <<graph, source, dist, frontier, sharedIndexes, frontierTails,
                 localBins, batch, fused, edge, oldDist, newDist, copyStart>>

Thread(t) == \/ WhileTest(t) \/ CheckStale(t) \/ EndFor(t)
             \/ \E i \in todo : TakeFrontier(t, i)
             \/ NextEdge(t) \/ ReadU(t) \/ CompareAndSwap(t) \/ EndRelax(t)
             \/ Vote(t) \/ Single(t) \/ Claim(t) \/ Copy(t)

Next == (\E t \in Threads : Thread(t)) \/ Barrier1 \/ Barrier2

Spec == Init /\ [][Next]_vars

-----------------------------------------------------------------------------
(* Properties *)

TypeOK ==
  /\ graph.out \in [NodeID -> Seq([v : NodeID, w : Nat])] /\ source \in NodeID
  /\ dist \in [NodeID -> 0 .. DistInf]
  /\ \A i \in 1 .. Len(frontier) : frontier[i] \in NodeID
  /\ sharedIndexes \in [0 .. 1 -> 0 .. NoBin]
  /\ frontierTails \in [0 .. 1 -> Nat]
  /\ todo \subseteq 1 .. Len(frontier)
  /\ resetDone \in BOOLEAN
  /\ pc \in [Threads -> Locations] /\ iter \in [Threads -> 0 .. 2]
  /\ \A t \in Threads, b \in Bins : \A i \in 1 .. Len(localBins[t][b]) :
       localBins[t][b][i] \in NodeID
  /\ \A t \in Threads : \A i \in 1 .. Len(batch[t]) : batch[t][i] \in NodeID
  /\ fused \in [Threads -> BOOLEAN]
  /\ edge \in [Threads -> Nat] /\ copyStart \in [Threads -> Nat]
  /\ oldDist \in [Threads -> 0 .. DistInf] /\ newDist \in [Threads -> 0 .. DistInf]

(***************************************************************************)
(* The oracle of SSSPVerifier: the length of a shortest path, computed     *)
(* here by N rounds over all edges.                                        *)
(***************************************************************************)
Least(S) == CHOOSE x \in S : \A y \in S : x <= y

\* The lengths d leaves for n, by itself or by one edge more.
Reaching(g, d, n) ==
  {d[n]} \union UNION {{d[x] + g.out[x][j].w : j \in {j \in 1 .. Len(g.out[x]) : g.out[x][j].v = n}}
                       : x \in NodeID}

Round(g, d) == [n \in NodeID |-> Least(Reaching(g, d, n))]

OracleDist(g, s) ==
  LET d[i \in 0 .. N] ==
        IF i = 0 THEN [n \in NodeID |-> IF n = s THEN 0 ELSE DistInf] ELSE Round(g, d[i - 1])
  IN  d[N]

Relaxing == {"relax", "readU", "cas"}
Phase1 == Relaxing \union {"for", "check", "vote"}
AllExited == \A t \in Threads : pc[t] = "exit"

SSSPVerifier(dist_to_test) == dist_to_test = OracleDist(graph, source)

(***************************************************************************)
(* The result is the shortest distances although a vertex found in a       *)
(* frontier with too small a distance is ignored and old entries are never *)
(* removed from their bins.                                                *)
(***************************************************************************)
Correct == AllExited => SSSPVerifier(dist)

\* No distance is ever below the shortest one, whatever stale dist[u] or
\* dist[v] a thread computed with.
NeverTooShort == \A n \in NodeID : dist[n] >= OracleDist(graph, source)[n]

\* Distances come down to the shortest ones and stop there, however threads
\* race to improve them.
Distances == Correct /\ NeverTooShort

(***************************************************************************)
(* "without violating the priority-based execution order": a vertex is     *)
(* relaxed only while its distance is in the current bin, from the         *)
(* frontier or by bucket fusion, and nothing is left in a lower bin, so no *)
(* thread's vote can miss work.                                            *)
(***************************************************************************)
PriorityOrder ==
  \A t \in Threads :
    /\ pc[t] \in Relaxing => dist[Head(batch[t])] \div Delta = CurrBin(t)
    /\ pc[t] \in Phase1 \union {"barrier1"} =>
         \A b \in Bins : b < CurrBin(t) => localBins[t][b] = << >>

(***************************************************************************)
(* No edge that could still improve a distance is forgotten: its source is *)
(* in the bin of its distance, in the part of the frontier still to be     *)
(* taken or just copied, or in the hands of a thread that has not looked   *)
(* at the edge yet or is about to write the improvement.                   *)
(***************************************************************************)
InBin(x) == \E t \in Threads : \E i \in 1 .. Len(localBins[t][dist[x] \div Delta]) :
              localBins[t][dist[x] \div Delta][i] = x

InFrontier(x) ==
  \/ \E i \in todo : frontier[i] = x /\ \E t \in Threads :
        sharedIndexes[Curr(t)] = dist[x] \div Delta
  \/ \E t \in Threads : pc[t] = "barrier2" /\ CurrBin(t) = dist[x] \div Delta /\
       \E i \in 1 .. frontierTails[Curr(t)] : frontier[i] = x

InHand(x, j) ==
  \E t \in Threads :
    \/ /\ pc[t] \in {"check"} \union Relaxing
       /\ \E i \in 1 .. Len(batch[t]) :
            batch[t][i] = x /\ (i > 1 \/ edge[t] < j)
    \/ pc[t] = "readU" /\ Head(batch[t]) = x /\ edge[t] = j
    \/ pc[t] = "cas" /\ Head(batch[t]) = x /\ edge[t] = j
         /\ newDist[t] = dist[x] + Edge(t).w

NoEdgeForgotten ==
  \A x \in NodeID : \A j \in 1 .. Len(graph.out[x]) :
    dist[x] + graph.out[x][j].w < dist[graph.out[x][j].v]
      => InBin(x) \/ InFrontier(x) \/ InHand(x, j)

(***************************************************************************)
(* The double buffering: once a thread is past the first barrier, neither  *)
(* the reset by "omp single nowait" nor a vote of a faster thread changes  *)
(* the next bin it copies from, until it has copied.                       *)
(***************************************************************************)
VoteIsKept ==
  \A t \in Threads : pc[t] \in {"single", "claim", "copy"} =>
    sharedIndexes'[NextOf(t)] = sharedIndexes[NextOf(t)]

VoteIsFinal == [][VoteIsKept]_vars

(***************************************************************************)
(* No frontier cell is overwritten before the thread that takes it read    *)
(* it, and two threads never copy to one cell.                             *)
(***************************************************************************)
CellsNotShared ==
  /\ \A t \in Threads : pc[t] = "copy" => todo = {}
  /\ \A s, t \in Threads :
       s # t /\ pc[s] = "copy" /\ pc[t] = "copy" =>
         (copyStart[s] + 1 .. copyStart[s] + Len(NextLocalBin(s))) \intersect
         (copyStart[t] + 1 .. copyStart[t] + Len(NextLocalBin(t))) = {}

(***************************************************************************)
(* What the distances rest on: a vertex is relaxed only while its distance *)
(* is in the current bin and nothing is left in a lower one, no edge that  *)
(* could still improve a distance is forgotten, and no cell of the shared  *)
(* frontier is overwritten before it was read or copied to by two threads. *)
(***************************************************************************)
NoLostWork == TypeOK /\ PriorityOrder /\ NoEdgeForgotten /\ CellsNotShared

(***************************************************************************)
(* "each thread copies its selected thread-local bin into the shared bin": *)
(* the frontier, allocated with num_edges_directed() cells, has room for   *)
(* what the threads copy.                                                  *)
(***************************************************************************)
FrontierFits == \A i \in 0 .. 1 : frontierTails[i] <= graph.m
-----------------------------------------------------------------------------
(* Graphs for TLC, given by the list of their edges <<u, v, w>>, in the    *)
(* order of the neighbour lists.                                           *)

FromEdges(es) ==
  [out |-> [n \in 0 .. (N - 1) |->
              LET mine == SelectSeq(es, LAMBDA e : e[1] = n)
              IN  [i \in 1 .. Len(mine) |-> [v |-> mine[i][2], w |-> mine[i][3]]]],
   m |-> Len(es)]

\* The edge x -> y absent, or with one of the weights W.
Maybe(x, y, W) == {<< >>} \union {<< <<x, y, w>> >> : w \in W}

\* Two vertices of one bin, or of two, whose edges meet in vertex 3, which one
\* of them may reach in a lower bin than the other did, or in the same bin.
Diamonds ==
  {FromEdges(a \o b \o c \o f) : a \in Maybe(0, 1, {1, 3}), b \in Maybe(0, 2, {1, 3}),
                                c \in Maybe(1, 3, {1, 2, 3}), f \in Maybe(2, 3, {1, 2, 3})}

\* A vertex (1) that is improved twice while in bin 0, and its fan-out.
Fan == {FromEdges(<< <<0, 1, 10>>, <<0, 2, 1>>, <<2, 1, 1>>,
                     <<1, 3, 16>>, <<1, 4, 16>>, <<1, 5, 16>>, <<1, 6, 16>> >>)}

\* A longer graph: a vertex is improved while others hold its old distance.
Ladder == {FromEdges(<< <<0, 1, 3>>, <<0, 2, 1>>, <<2, 1, 1>>, <<1, 3, 1>>, <<2, 3, 4>> >>)}

SomeGraphs == Diamonds \union Ladder
=============================================================================
