------------------------------- MODULE Leiden -------------------------------
(***************************************************************************)
(* leidenInvokeOmp of bench/include/leiden/leiden.hxx as leidenStaticOmp   *)
(* and GenerateLeidenMapping (bench/include/gapbs/builder.h) call it.      *)
(* Every pass moves vertices to the communities of neighbours until        *)
(* nothing improves, splits the communities found into single vertices and *)
(* merges those again within their old community (refinement), and makes   *)
(* the refined communities the vertices of the next, smaller graph.        *)
(*                                                                         *)
(* Threads read memberships and community weights while others change      *)
(* them.  Which community gains most is floating point arithmetic on such  *)
(* reads: Choose lets any community seen, or none, be the best.  Community *)
(* 0 is never moved to, since a choice of 0 means "none" (leiden.hxx 753). *)
(* Weights of vertices and communities are exact.  Renumbering, the lists  *)
(* of members and the aggregated edges are loops over disjoint cells, or   *)
(* with atomic counters, that end in a barrier: one step (EndPass).        *)
(***************************************************************************)
EXTENDS Integers, Sequences, FiniteSets, FiniteSetsExt

CONSTANTS
  N,              \* x.span()
  Inputs,         \* symmetric weights [0 .. N-1 -> [0 .. N-1 -> Nat]]
  Threads,
  Chunk,          \* vertices a thread takes at once (2048 in the code)
  MaxIterations,  \* L
  MaxPasses       \* P

Span == 0 .. (N - 1)
NoCommunity == 0     \* K()

LeidenAssumption ==
  /\ N \in Nat \ {0} /\ Chunk \in Nat \ {0}
  /\ MaxIterations \in Nat \ {0} /\ MaxPasses \in Nat \ {0}
  /\ Inputs \subseteq [Span -> [Span -> Nat]]
  /\ \A x \in Inputs : \A u, v \in Span : x[u][v] = x[v][u]

VARIABLES
  x,               \* the graph given
  y, n,            \* the graph of this pass: its weights, and its vertices 0 .. n-1
  p, l, m, el,     \* passes, iterations, iterations of this pass, anything gained
  phase,           \* "move", "refine", "pass" or "done"
  vcom, vcob,      \* community and bound of each vertex of y
  vtot, ctot,      \* weight of each vertex and of each community
  vaff,            \* affected: to be looked at again
  ucom,            \* vertex of y that stands for each vertex of x
  mappings,        \* communityMappingPerPass
  next,            \* first vertex of the parallel loop nobody has taken
  th               \* the threads' locals

graph  == <<x, y, n, p, vtot>>
passes == <<l, m, ucom, mappings, phase, vcob>>
vars   == <<graph, passes, el, vcom, ctot, vaff, next, th>>

Sum(f, S) == FoldSet(LAMBDA i, acc : f[i] + acc, 0, S)
VertexWeights(g) == [u \in Span |-> Sum(g[u], Span)]
Idle == [pc |-> "idle", u |-> 0, end |-> 0, rest |-> {}, seen |-> {}, c |-> NoCommunity]
Identity == [u \in Span |-> u]
Order == 0 .. (n - 1)

\* What leidenStaticOmp has it start from: fi and fm.
Initialized ==
  /\ vtot = VertexWeights(x) /\ ctot = vtot
  /\ vcom = Identity
  /\ vaff = [u \in Span |-> TRUE]

Init ==
  /\ x \in Inputs /\ y = x /\ n = N
  /\ Initialized
  /\ p = 0 /\ l = 0 /\ m = 0 /\ el = FALSE
  /\ phase = IF Sum(vtot, Span) > 0 THEN "move" ELSE "done"    \* M > 0
  /\ vcob = [u \in Span |-> NoCommunity]
  /\ ucom = Identity /\ mappings = << >>
  /\ next = 0
  /\ th = [t \in Threads |-> Idle]

-----------------------------------------------------------------------------
(* One vertex u in leidenMoveOmpW.  In the refinement every vertex comes   *)
(* once and is marked affected before, so that the flags play no part.     *)

refining == phase = "refine"
Local(t, r) == th' = [th EXCEPT ![t] = r]
Goto(t, pc) == Local(t, [th[t] EXCEPT !.pc = pc])

\* The next vertex of the thread's chunk.
Advance(t) == IF th[t].u + 1 < th[t].end
              THEN Local(t, [Idle EXCEPT !.pc = "test", !.u = th[t].u + 1, !.end = th[t].end])
              ELSE Local(t, Idle)

TakeChunk(t) ==
  /\ phase \in {"move", "refine"} /\ th[t].pc = "idle" /\ next < n
  /\ Local(t, [Idle EXCEPT !.pc = "test", !.u = next, !.end = Min({next + Chunk, n})])
  /\ next' = next + Chunk
  /\ UNCHANGED <<graph, passes, el, vcom, ctot, vaff>>

Scanned(u) == {v \in Order \ {u} : y[u][v] > 0 /\ (refining => vcob[v] = vcob[u])}

Test(t) ==
  /\ th[t].pc = "test"
  /\ LET u == th[t].u
     IN  IF ~ vaff[u] \/ (refining /\ ctot[vcom[u]] > vtot[u])
         THEN Advance(t)
         ELSE Local(t, [th[t] EXCEPT !.pc = "scan", !.rest = Scanned(u)])
  /\ UNCHANGED <<graph, passes, el, vcom, ctot, vaff, next>>

Scan(t) ==
  /\ th[t].pc = "scan" /\ th[t].rest # {}
  /\ LET v == Min(th[t].rest)
     IN  Local(t, [th[t] EXCEPT !.rest = @ \ {v}, !.seen = @ \union {vcom[v]}])
  /\ UNCHANGED <<graph, passes, el, vcom, ctot, vaff, next>>

\* A gain is counted also if the move is not made.
Choose(t) ==
  /\ th[t].pc = "scan" /\ th[t].rest = {}
  /\ \/ Goto(t, "reset") /\ UNCHANGED el
     \/ \E c \in th[t].seen \ {vcom[th[t].u]} :
          /\ el' = TRUE
          /\ Local(t, [th[t] EXCEPT !.pc = IF c = NoCommunity THEN "reset" ELSE "leave",
                                    !.c = c, !.seen = {}])
  /\ UNCHANGED <<graph, passes, vcom, ctot, vaff, next>>

-----------------------------------------------------------------------------
(* leidenChangeCommunityOmpW *)

\* The value captured with the subtraction.
Alone(u) == refining => ctot[vcom[u]] <= vtot[u]

Leave(t) ==
  /\ th[t].pc = "leave"
  /\ LET u == th[t].u
     IN  /\ ctot' = [ctot EXCEPT ![vcom[u]] = @ - vtot[u]]
         /\ Goto(t, IF Alone(u) THEN "join" ELSE "restore")
  /\ UNCHANGED <<graph, passes, el, vcom, vaff, next>>

\* Variant: the weight taken away for the test is not given back.
Unrestored(u) == ctot

Restored(u) == [ctot EXCEPT ![vcom[u]] = @ + vtot[u]]

Restore(t) ==
  /\ th[t].pc = "restore"
  /\ ctot' = Restored(th[t].u)
  /\ Goto(t, "reset")
  /\ UNCHANGED <<graph, passes, el, vcom, vaff, next>>

Join(t) ==
  /\ th[t].pc = "join"
  /\ ctot' = [ctot EXCEPT ![th[t].c] = @ + vtot[th[t].u]]
  /\ Goto(t, "set")
  /\ UNCHANGED <<graph, passes, el, vcom, vaff, next>>

SetCommunity(t) ==
  /\ th[t].pc = "set"
  /\ vcom' = [vcom EXCEPT ![th[t].u] = th[t].c]
  /\ Goto(t, "wake")
  /\ UNCHANGED <<graph, passes, el, ctot, vaff, next>>

Wake(t) ==
  /\ th[t].pc = "wake"
  /\ vaff' = [v \in Span |-> vaff[v] \/ (v \in Order /\ y[th[t].u][v] > 0)]
  /\ Goto(t, "reset")
  /\ UNCHANGED <<graph, passes, el, vcom, ctot, next>>

\* A neighbour that moved since u was scanned may have marked it: that is lost.
Reset(t) ==
  /\ th[t].pc = "reset"
  /\ vaff' = [vaff EXCEPT ![th[t].u] = refining]
  /\ Advance(t)
  /\ UNCHANGED <<graph, passes, el, vcom, ctot, next>>

-----------------------------------------------------------------------------
(* The loops around it. *)

Barrier == next >= n /\ \A t \in Threads : th[t].pc = "idle"

\* A bound for every vertex, and every vertex on its own again.
StartRefinement ==
  /\ phase' = "refine"
  /\ vcob' = vcom
  /\ vcom' = [u \in Span |-> IF u \in Order THEN u ELSE vcom[u]]
  /\ ctot' = [u \in Span |-> IF u \in Order THEN vtot[u] ELSE ctot[u]]
  /\ vaff' = [u \in Span |-> u \in Order \/ vaff[u]]

EndIteration ==
  /\ phase = "move" /\ Barrier
  /\ next' = 0 /\ el' = FALSE
  /\ IF el /\ m + 1 < MaxIterations
     THEN m' = m + 1 /\ UNCHANGED <<phase, vcob, vcom, ctot, vaff>>
     ELSE m' = (IF m > 0 \/ el THEN m + 1 ELSE 0) /\ StartRefinement
  /\ UNCHANGED <<graph, l, ucom, mappings, th>>

EndRefinement ==
  /\ phase = "refine" /\ Barrier
  /\ phase' = "pass"
  /\ UNCHANGED <<graph, l, m, ucom, mappings, vcob, el, vcom, ctot, vaff, next, th>>

Communities == {vcom[u] : u \in Order}

\* exclusiveScanOmpW over the flags of the communities that exist.
Renumbered(u) == Cardinality({c \in Communities : c < vcom[u]})

Members(c) == {u \in Order : Renumbered(u) = c}

\* The weight of the edges from the members of c to those of d.
WeightBetween(c, d) == Sum([u \in Span |-> Sum(y[u], Members(d))], Members(c))

Aggregated == [c \in Span |-> [d \in Span |-> WeightBetween(c, d)]]

\* Membership of the vertices of x: in the first pass vcom is ucom.
Lookup(com) == [u \in Span |-> com[ucom[u]]]

Converged == m <= 1 \/ p + 1 >= MaxPasses \/ 5 * Cardinality(Communities) >= 4 * n

EndPass ==
  /\ phase = "pass"
  /\ mappings' = Append(mappings, IF p = 0 THEN vcom ELSE ucom)
  /\ l' = l + Max({m, 1}) /\ p' = p + 1
  /\ m' = 0 /\ el' = FALSE /\ next' = 0
  /\ IF Converged
     THEN /\ phase' = "done"
          /\ ucom' = Lookup(vcom)
          /\ UNCHANGED <<y, n, vtot, vcom, ctot, vaff>>
     ELSE LET weights == Aggregated
          IN  /\ phase' = "move"
              /\ ucom' = Lookup([u \in Span |-> IF u \in Order THEN Renumbered(u) ELSE 0])
              /\ n' = Cardinality(Communities)
              /\ y' = weights
              /\ vtot' = VertexWeights(weights)
              /\ vcom' = Identity /\ ctot' = VertexWeights(weights)
              /\ vaff' = [u \in Span |-> u < Cardinality(Communities)]
  /\ UNCHANGED <<x, vcob, th>>

Thread(t) ==
  \/ TakeChunk(t) \/ Test(t) \/ Scan(t) \/ Choose(t)
  \/ Leave(t) \/ Restore(t) \/ Join(t) \/ SetCommunity(t) \/ Wake(t) \/ Reset(t)

\* leidenInvokeOmp has returned.
Finished == phase = "done" /\ UNCHANGED vars

Next == (\E t \in Threads : Thread(t)) \/ EndIteration \/ EndRefinement \/ EndPass \/ Finished

Spec == Init /\ [][Next]_vars

-----------------------------------------------------------------------------
(* GenerateLeidenMapping: rows <<vertex, degree, mappings...>>, in a stable *)
(* sort by the last column.                                                *)

Degree(v) == Cardinality({u \in Span : x[v][u] > 0})
LastColumn(v) == IF mappings = << >> THEN Degree(v) ELSE mappings[Len(mappings)][v]

new_ids == [v \in Span |-> Cardinality({u \in Span : \/ LastColumn(u) < LastColumn(v)
                                                     \/ LastColumn(u) = LastColumn(v) /\ u < v})]

-----------------------------------------------------------------------------

\* The weight of a community is at every moment that of its members, less those
\* that have left and not yet joined, plus those that have joined and not yet
\* said so: racing moves and moves that were taken back lose nothing.
Leaving(c) == {u \in Order : vcom[u] = c /\ \E t \in Threads : th[t].u = u /\ th[t].pc \in {"restore", "join", "set"}}
Arriving(c) == {u \in Order : \E t \in Threads : th[t].u = u /\ th[t].pc = "set" /\ th[t].c = c}

WeightsBalance ==
  \A c \in Order : ctot[c] = Sum(vtot, {u \in Order : vcom[u] = c} \ Leaving(c)) + Sum(vtot, Arriving(c))

\* A refined community lies within one community of the move phase, although
\* its members chose it from memberships that were changing.
RefinedWithinBounds ==
  phase \in {"refine", "pass"} => \A u \in Order : vcob[vcom[u]] = vcob[u]

\* The graph of a pass is the graph given, its vertices grouped by ucom: no edge
\* is lost or counted twice over any number of passes.
AggregateExact ==
  p > 0 /\ phase # "done" =>
    /\ \A u \in Span : ucom[u] \in Order
    /\ \A c, d \in Order :
         y[c][d] = Sum([u \in Span |-> Sum(x[u], {v \in Span : ucom[v] = d})], {u \in Span : ucom[u] = c})

\* Communities are only ever joined from one pass to the next: of two mappings
\* pushed the later one is coarser, and the final membership coarser than all.
Coarser(f, g) == \A u, v \in Span : f[u] = f[v] => g[u] = g[v]

MappingsNest ==
  /\ \A i, j \in 1 .. Len(mappings) : i < j => Coarser(mappings[i], mappings[j])
  /\ p > 0 => \A i \in 1 .. Len(mappings) : Coarser(mappings[i], ucom)

\* The ids of a community of the last mapping follow one another.
OrderedByCommunity ==
  phase = "done" =>
    /\ {new_ids[v] : v \in Span} = Span
    /\ \A u, v, w \in Span : new_ids[u] < new_ids[v] /\ new_ids[v] < new_ids[w]
                             /\ LastColumn(u) = LastColumn(w) => LastColumn(v) = LastColumn(u)

Hierarchy == RefinedWithinBounds /\ AggregateExact /\ MappingsNest /\ OrderedByCommunity

\* In the refinement a vertex leaves its community only if no other one is in
\* it: the captured weight says so, however long ago the first test was.
LeavesAlone ==
  \A t \in Threads : refining /\ th[t].pc = "leave" /\ th'[t].pc = "join" =>
    \A v \in Order \ {th[t].u} : vcom[v] # vcom[th[t].u]
=============================================================================
