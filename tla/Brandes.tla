------------------------------ MODULE Brandes ------------------------------
(***************************************************************************)
(* bench/src/bc.cc: betweenness centrality.  For every source, PBFS counts *)
(* the shortest paths to each vertex while it searches level by level      *)
(* through a SlidingQueue, and marks the edges they use in succ; Brandes   *)
(* then adds up the dependencies from the last level to the first.  The    *)
(* containers are reused for the next source.                              *)
(*                                                                         *)
(* The scores are fractions <<numerator, denominator>>, so that the sums   *)
(* are exact; the normalisation by the biggest one is left out.  A vertex  *)
(* of the window is taken at a time (64 in the code).  set_bit_atomic and  *)
(* the atomic addition to path_counts, which nobody reads before the next  *)
(* barrier, are one step.                                                  *)
(***************************************************************************)
EXTENDS Containers, Integers, Sequences, FiniteSets, FiniteSetsExt, SequencesExt

CONSTANTS
  N,           \* num_nodes()
  Graphs,      \* [NodeID -> Seq(NodeID)], the rows of out_neigh
  Threads,
  BufferSize,  \* cells of a QueueBuffer
  NumIters

NodeID == 0 .. (N - 1)
Unvisited == -1

VARIABLES
  out,                        \* the graph
  sources,                    \* what sp.PickNext() has returned
  depths, path_counts, succ,  \* succ: edges <<u, i>>, the i-th of u's row
  depth_index, queue,
  phase,                      \* "pbfs", "back" or "done"
  next,                       \* the first position of the window nobody has taken
  todo,                       \* vertices of the level being added up
  deltas, scores,
  d,                          \* the level being added up
  th                          \* the threads' locals

search == <<depths, path_counts, succ, depth_index, queue, next, th>>
sums   == <<todo, deltas, scores, d>>
vars   == <<out, sources, phase, search, sums>>

-----------------------------------------------------------------------------
(* Fractions. *)

Zero == <<0, 1>>

gcd[p \in Nat \X Nat] == IF p[2] = 0 THEN p[1] ELSE gcd[<<p[2], p[1] % p[2]>>]

Fraction(a, b) == LET g == gcd[<<a, b>>] IN <<a \div g, b \div g>>
Plus(x, y)  == Fraction(x[1] * y[2] + y[1] * x[2], x[2] * y[2])
Times(x, y) == Fraction(x[1] * y[1], x[2] * y[2])
SumOver(f, S) == FoldSet(LAMBDA i, acc : Plus(f[i], acc), Zero, S)

-----------------------------------------------------------------------------

Idle == [pc |-> "loop", u |-> 0, i |-> 1, depth |-> 1, lqueue |-> << >>, start |-> 0]

\* Variant: succ keeps the edges of the source before.
SuccKept == succ

SuccReset == {}

Start(source) ==
  /\ depths' = [v \in NodeID |-> IF v = source THEN 0 ELSE Unvisited]
  /\ path_counts' = [v \in NodeID |-> IF v = source THEN 1 ELSE 0]
  /\ succ' = SuccReset
  /\ queue' = SlideWindow(PushBack(NewQueue(N), source))
  /\ depth_index' = <<0>>
  /\ next' = 0
  /\ th' = [t \in Threads |-> Idle]

\* PickNonZeroDegree
PickNext(source) ==
  /\ phase = "pick" /\ out[source] # << >>
  /\ Start(source)
  /\ sources' = Append(sources, source)
  /\ phase' = "pbfs"
  /\ UNCHANGED <<out, sums>>

Init ==
  /\ out \in Graphs
  /\ sources = << >> /\ phase = "pick"
  /\ depths = [v \in NodeID |-> Unvisited]
  /\ path_counts = [v \in NodeID |-> 0]
  /\ succ = {} /\ depth_index = << >> /\ queue = NewQueue(N)
  /\ next = 0 /\ todo = {} /\ d = 0
  /\ deltas = [v \in NodeID |-> Zero] /\ scores = deltas
  /\ th = [t \in Threads |-> Idle]

-----------------------------------------------------------------------------
(* PBFS *)

Local(t, r) == th' = [th EXCEPT ![t] = r]
Goto(t, pc) == Local(t, [th[t] EXCEPT !.pc = pc])
V(t) == out[th[t].u][th[t].i]

TakeVertex(t) ==
  /\ phase = "pbfs" /\ th[t].pc = "loop"
  /\ IF next < queue.end
     THEN /\ next' = next + 1
          /\ Local(t, [th[t] EXCEPT !.pc = "edge", !.u = queue.shared[next], !.i = 1])
     ELSE next' = next /\ Goto(t, "lastFlush")
  /\ UNCHANGED <<out, sources, phase, depths, path_counts, succ, depth_index, queue, sums>>

\* if (depths[v] == -1)
Visit(t) ==
  /\ th[t].pc = "edge"
  /\ Goto(t, IF th[t].i > Len(out[th[t].u]) THEN "loop"
             ELSE IF depths[V(t)] = Unvisited THEN "claim" ELSE "count")
  /\ UNCHANGED <<out, sources, phase, depths, path_counts, succ, depth_index, queue, next, sums>>

\* compare_and_swap(depths[v], -1, depth); a full buffer is flushed before v is
\* appended.
Claim(t) ==
  /\ th[t].pc = "claim"
  /\ IF depths[V(t)] # Unvisited
     THEN Goto(t, "count") /\ depths' = depths
     ELSE /\ depths' = [depths EXCEPT ![V(t)] = th[t].depth]
          /\ IF Len(th[t].lqueue) = BufferSize
             THEN Goto(t, "flush")
             ELSE Local(t, [th[t] EXCEPT !.pc = "count", !.lqueue = Append(@, V(t))])
  /\ UNCHANGED <<out, sources, phase, path_counts, succ, depth_index, queue, next, sums>>

Flush(t) ==
  /\ th[t].pc \in {"flush", "lastFlush"}
  /\ queue' = FlushClaim(queue, th[t].lqueue)
  /\ Local(t, [th[t] EXCEPT !.start = queue.in,
                            !.pc = IF @ = "flush" THEN "copy" ELSE "lastCopy"])
  /\ UNCHANGED <<out, sources, phase, depths, path_counts, succ, depth_index, next, sums>>

Copy(t) ==
  /\ th[t].pc \in {"copy", "lastCopy"}
  /\ queue' = FlushCopy(queue, th[t].start, th[t].lqueue, N)
  /\ Local(t, IF th[t].pc = "copy"
              THEN [th[t] EXCEPT !.pc = "count", !.lqueue = <<V(t)>>, !.start = 0]
              ELSE [th[t] EXCEPT !.pc = "barrier", !.lqueue = << >>, !.start = 0])
  /\ UNCHANGED <<out, sources, phase, depths, path_counts, succ, depth_index, next, sums>>

\* if (depths[v] == depth)
OnNextLevel(t) == depths[V(t)] = th[t].depth

CountPaths(t) ==
  /\ th[t].pc = "count"
  /\ IF OnNextLevel(t)
     THEN /\ succ' = succ \union {<<th[t].u, th[t].i>>}
          /\ path_counts' = [path_counts EXCEPT ![V(t)] = @ + path_counts[th[t].u]]
     ELSE UNCHANGED <<succ, path_counts>>
  /\ Local(t, [th[t] EXCEPT !.pc = "edge", !.i = @ + 1])
  /\ UNCHANGED <<out, sources, phase, depths, depth_index, queue, next, sums>>

\* The barrier and what "omp single" does; the loop ends with an empty window.
EndLevel ==
  LET slid  == SlideWindow(queue)
      index == Append(depth_index, queue.start)
  IN  /\ phase = "pbfs" /\ \A t \in Threads : th[t].pc = "barrier"
      /\ queue' = slid
      /\ next' = slid.start
      /\ IF slid.start < slid.end
         THEN /\ depth_index' = index
              /\ th' = [t \in Threads |-> [Idle EXCEPT !.depth = th[t].depth + 1]]
              /\ UNCHANGED <<phase, sums>>
         ELSE /\ depth_index' = Append(index, slid.start)
              /\ th' = [t \in Threads |-> Idle]
              /\ phase' = "back"
              /\ d' = Len(depth_index) + 2 /\ todo' = {}
              /\ deltas' = [v \in NodeID |-> Zero]
              /\ UNCHANGED scores
      /\ UNCHANGED <<out, sources, depths, path_counts, succ>>

-----------------------------------------------------------------------------
(* Back-propagation.  d counts down over depth_index from 1 on. *)

Segment(k) == {queue.shared[i] : i \in depth_index[k] .. (depth_index[k + 1] - 1)}

NextDepth ==
  /\ phase = "back" /\ todo = {}
  /\ IF d > 1
     THEN d' = d - 1 /\ todo' = Segment(d - 1) /\ phase' = phase
     ELSE d' = 0 /\ todo' = {} /\ phase' = IF Len(sources) < NumIters THEN "pick" ELSE "done"
  /\ UNCHANGED <<out, sources, search, deltas, scores>>

\* Each vertex is handled by one thread, which writes its cells only.
AddUp(u) ==
  /\ phase = "back" /\ u \in todo
  /\ LET edges == {i \in 1 .. Len(out[u]) : <<u, i>> \in succ}
         part  == [i \in edges |->
                     LET v == out[u][i]
                     IN  Times(Fraction(path_counts[u], path_counts[v]), Plus(<<1, 1>>, deltas[v]))]
     IN  /\ deltas' = [deltas EXCEPT ![u] = SumOver(part, edges)]
         /\ scores' = [scores EXCEPT ![u] = Plus(@, SumOver(part, edges))]
  /\ todo' = todo \ {u}
  /\ UNCHANGED <<out, sources, phase, search, d>>

Thread(t) ==
  TakeVertex(t) \/ Visit(t) \/ Claim(t) \/ Flush(t) \/ Copy(t) \/ CountPaths(t)

\* The rest, of which AddUp is spread over the threads as well.
Serial == EndLevel \/ NextDepth \/ \E v \in NodeID : PickNext(v) \/ AddUp(v)

Next == Serial \/ \E t \in Threads : Thread(t)

Spec == Init /\ [][Next]_vars

-----------------------------------------------------------------------------
(* What BCVerifier computes, from the definitions of betweenness. *)

Source == Last(sources)

\* All shortest paths from s to v, as sequences of edges taken.
Successors(u) == {out[u][i] : i \in 1 .. Len(out[u])}
Walks(s) ==
  LET walk[k \in 0 .. (N - 1)] ==
        IF k = 0 THEN {<<s>>}
        ELSE UNION {{Append(w, v) : v \in Successors(Last(w))} : w \in walk[k - 1]}
  IN  walk
Distance(s, v) ==
  LET ks == {k \in 0 .. (N - 1) : \E w \in Walks(s)[k] : Last(w) = v}
  IN  IF ks = {} THEN Unvisited ELSE Min(ks)
ShortestPaths(s, v) ==
  IF Distance(s, v) = Unvisited THEN {}
  ELSE {w \in Walks(s)[Distance(s, v)] : Last(w) = v}

\* The dependency of s on u: over all targets, the share of the shortest paths
\* that lead through u, or start there.
Dependency(s, u) ==
  LET share == [v \in NodeID |->
                  IF v = u \/ ShortestPaths(s, v) = {} THEN Zero
                  ELSE Fraction(Cardinality({w \in ShortestPaths(s, v) : \E k \in DOMAIN w : w[k] = u}),
                                Cardinality(ShortestPaths(s, v)))]
  IN  SumOver(share, NodeID)

\* After the search every vertex has its depth and the number of its shortest
\* paths, succ holds exactly the edges they use, and the segments between the
\* entries of depth_index are the levels, whatever the threads raced for and
\* whatever the source before left behind.
PathsCounted ==
  phase = "back" /\ d = Len(depth_index) =>
    /\ \A v \in NodeID : /\ depths[v] = Distance(Source, v)
                         /\ path_counts[v] = Cardinality(ShortestPaths(Source, v))
    /\ \A u \in NodeID : \A i \in 1 .. Len(out[u]) :
         <<u, i>> \in succ <=> /\ depths[u] # Unvisited
                               /\ depths[out[u][i]] = depths[u] + 1
    /\ \A k \in 2 .. (Len(depth_index) - 1) : Segment(k) = {v \in NodeID : depths[v] = k - 2}
    /\ Segment(1) = {}

\* The scores it compares with, to which each source adds its dependencies; both
\* are divided by their largest value first, which is left out on both sides.
BCVerifier(scores_to_test) ==
  \A u \in NodeID :
    scores_to_test[u] = SumOver([k \in DOMAIN sources |-> Dependency(sources[k], u)], DOMAIN sources)

\* The verifier accepts the scores: dependencies are added up level by level
\* from edges and path counts that are used again for every source.
ScoresExact == phase = "done" => BCVerifier(scores)
=============================================================================
