------------------------------- MODULE Rabbit -------------------------------
(***************************************************************************)
(* Rabbit Order: bench/include/rabbit/rabbit_order.hpp and what            *)
(* bench/include/gapbs/builder.h does around it.  Threads merge vertices   *)
(* into communities without locks.  Vertex v is closed by setting its      *)
(* strength to -1; it is merged into u by one compare-and-swap of u's pair *)
(* (strength, last child), which fails if u is closed or has changed, and  *)
(* is then tried again later.  A merged vertex stays closed for good.      *)
(*                                                                         *)
(* Which neighbour improves the modularity most is a matter of floating    *)
(* point numbers read one by one while others change them: FindBest lets   *)
(* any neighbour, or none, be the best.  trace_com is one step for its     *)
(* walk, which takes effect with its last read, and one for its store.     *)
(* What only the thread that merges v accesses (its edges, united_child,   *)
(* its sibling before the compare-and-swap) shares a step with the shared  *)
(* access next to it.                                                      *)
(***************************************************************************)
EXTENDS Integers, Sequences, FiniteSets, FiniteSetsExt, SequencesExt

CONSTANTS
  N,          \* g.n(), the greatest vertex id of the edges plus one
  Inputs,     \* sets of edges <<source, target, weight>> read off a CSR graph
  Threads     \* thread ids 0 .. omp_get_max_threads() - 1

Vertices == 0 .. (N - 1)
NumThreads == Cardinality(Threads)
vmax == N     \* no vertex

RabbitAssumption ==
  /\ N \in Nat \ {0}
  /\ NumThreads \in Nat \ {0} /\ Threads = 0 .. (NumThreads - 1)
  /\ \A E \in Inputs :
       IsFiniteSet(E) /\ E \subseteq Vertices \X Vertices \X (Nat \ {0})

VARIABLES
  edges,                 \* the argument
  ord,                   \* the vertices in the order they are tried
  coms,                  \* vertex -> community: itself or an ancestor
  str, child,            \* the atom of a vertex
  sibling, united_child,
  es,                    \* es[v][u]: the weight of v's edges to community u
  th,                    \* the threads' locals
  perm                   \* the result, << >> before

shared == <<coms, str, child, sibling, united_child, es>>
vars   == <<edges, ord, shared, th, perm>>

Sum(f, S) == FoldSet(LAMBDA x, acc : f[x] + acc, 0, S)

-----------------------------------------------------------------------------
(* Edges in both directions, without loops, parallel ones added up. *)

Weight(s, t) == LET w == [e \in edges |-> e[3]]
                IN  Sum(w, {e \in edges : <<e[1], e[2]>> \in {<<s, t>>, <<t, s>>}})

AdjacencyList == [s \in Vertices |-> [t \in Vertices |-> IF s = t THEN 0 ELSE Weight(s, t)]]

Strength(list) == Sum(list, Vertices)
Targets(list) == {u \in Vertices : list[u] > 0}

NoEdges == [u \in Vertices |-> 0]

\* A degree in merge_order is the number of neighbours, ties in any order.
IsMergeOrder(seq, lists) ==
  /\ \A i, j \in 1 .. N : i < j => /\ seq[i] # seq[j]
                                   /\ Cardinality(Targets(lists[seq[i]])) <= Cardinality(Targets(lists[seq[j]]))

Idle == [pc |-> "loop", vstr |-> -1, nbrs |-> NoEdges, src |-> vmax, rest |-> {},
         c |-> vmax, u |-> vmax, ua |-> <<0, vmax>>]

\* s with the fields of r.
Set(s, r) == [f \in DOMAIN s \union DOMAIN r |-> IF f \in DOMAIN r THEN r[f] ELSE s[f]]

Init ==
  /\ edges \in Inputs
  /\ es = AdjacencyList
  /\ ord \in {seq \in [1 .. N -> Vertices] : IsMergeOrder(seq, es)}
  /\ coms = [v \in Vertices |-> v]
  /\ str = [v \in Vertices |-> Strength(es[v])]
  /\ child = [v \in Vertices |-> vmax]
  /\ sibling = [v \in Vertices |-> vmax]
  /\ united_child = [v \in Vertices |-> vmax]
  /\ th = [t \in Threads |-> Set(Idle, [part |-> "for", i |-> t + 1, queue |-> << >>,
                                        pends |-> << >>, tops |-> << >>])]
  /\ perm = << >>

-----------------------------------------------------------------------------
(* The loop of aggregate: thread t tries its pending vertices and then the *)
(* next one of the order; those left over are merged one thread at a time. *)

\* The vertex being merged.
V(t) == Head(th[t].queue)

Update(t, r) == th' = [th EXCEPT ![t] = Set(@, r)]

NextIteration(t) ==
  /\ th[t].pc = "loop" /\ th[t].queue = << >> /\ th[t].part = "for"
  /\ IF th[t].i <= N
     THEN Update(t, [queue |-> Append(th[t].pends, ord[th[t].i]), pends |-> << >>,
                     i |-> th[t].i + NumThreads])
     ELSE Update(t, [part |-> "barrier"])
  /\ UNCHANGED <<edges, ord, shared, perm>>

EnterCritical(t) ==
  /\ th[t].part = "barrier"
  /\ \A s \in Threads : th[s].part \in {"barrier", "end"}
  /\ Update(t, [part |-> "critical", queue |-> th[t].pends, pends |-> << >>])
  /\ UNCHANGED <<edges, ord, shared, perm>>

LeaveCritical(t) ==
  /\ th[t].part = "critical" /\ th[t].pc = "loop" /\ th[t].queue = << >>
  /\ Update(t, [part |-> "end"])
  /\ UNCHANGED <<edges, ord, shared, perm>>

\* What the loop does with the value merge(v) returns.
Return(t, result) ==
  Update(t, Set(Idle,
    [queue |-> Tail(th[t].queue),
     tops  |-> IF result = V(t) THEN Append(th[t].tops, V(t)) ELSE th[t].tops,
     pends |-> IF result = vmax THEN Append(th[t].pends, V(t)) ELSE th[t].pends]))

-----------------------------------------------------------------------------
(* unite(v): the edges of v and of the vertices merged into it since the   *)
(* last time, their targets replaced by the communities they are in now.   *)

PushEdges(t, w, c) == Update(t, [pc |-> "trace", src |-> w, rest |-> Targets(es[w]), c |-> c])

Merge(t) ==
  /\ th[t].pc = "loop" /\ th[t].queue # << >>
  /\ PushEdges(t, V(t), th[t].c)
  /\ UNCHANGED <<edges, ord, shared, perm>>

Community(x) == LET walk[y \in Vertices] == IF coms[y] = y THEN y ELSE walk[coms[y]] IN walk[x]

TraceCom(t) ==
  /\ th[t].pc = "trace" /\ th[t].rest # {}
  /\ LET x   == Min(th[t].rest)
         com == Community(x)
         nbrs == IF com = V(t) THEN th[t].nbrs
                 ELSE [th[t].nbrs EXCEPT ![com] = @ + es[th[t].src][x]]
     IN  Update(t, IF x = com THEN [nbrs |-> nbrs, rest |-> th[t].rest \ {x}]
                   ELSE [nbrs |-> nbrs, pc |-> "shorten", u |-> com])
  /\ UNCHANGED <<edges, ord, shared, perm>>

\* The community traced may have been merged meanwhile: an old value is stored.
Shorten(t) ==
  /\ th[t].pc = "shorten"
  /\ coms' = [coms EXCEPT ![Min(th[t].rest)] = th[t].u]
  /\ Update(t, [pc |-> "trace", u |-> vmax, rest |-> th[t].rest \ {Min(th[t].rest)}])
  /\ UNCHANGED <<edges, ord, str, child, sibling, united_child, es, perm>>

\* The next vertex of the list of children to be united, if any.
NextChild(t) ==
  LET w == sibling[th[t].src]
  IN  IF th[t].src = V(t) \/ w = united_child[V(t)] THEN vmax ELSE w

\* After the list from c on, its head is noted; the head may have changed since.
United(t) == IF th[t].src = V(t) THEN united_child
             ELSE [united_child EXCEPT ![V(t)] = th[t].c]

UniteChildren(t) ==
  /\ th[t].pc = "trace" /\ th[t].rest = {}
  /\ IF NextChild(t) # vmax
     THEN /\ PushEdges(t, NextChild(t), th[t].c)
          /\ UNCHANGED <<united_child, es>>
     ELSE /\ united_child' = United(t)
          /\ IF United(t)[V(t)] # child[V(t)]
             THEN /\ PushEdges(t, child[V(t)], child[V(t)])
                  /\ UNCHANGED es
             ELSE /\ es' = [es EXCEPT ![V(t)] = th[t].nbrs]
                  /\ Update(t, [nbrs |-> NoEdges, src |-> vmax, c |-> vmax,
                                pc |-> IF th[t].vstr < 0 THEN "lock" ELSE "find"])
  /\ UNCHANGED <<edges, ord, coms, str, child, sibling, perm>>

-----------------------------------------------------------------------------
(* merge(v), from the lock on. *)

Lock(t) ==
  /\ th[t].pc = "lock"
  /\ str' = [str EXCEPT ![V(t)] = -1]
  /\ Update(t, [pc |-> "recheck", vstr |-> str[V(t)]])
  /\ UNCHANGED <<edges, ord, coms, child, sibling, united_child, es, perm>>

\* Variant: vertices merged between unite() and the lock are overlooked.
NoRecheck(t) ==
  /\ th[t].pc = "recheck"
  /\ Update(t, [pc |-> "find"])
  /\ UNCHANGED <<edges, ord, shared, perm>>

Recheck(t) ==
  /\ th[t].pc = "recheck"
  /\ IF child[V(t)] # united_child[V(t)]
     THEN PushEdges(t, V(t), th[t].c)
     ELSE Update(t, [pc |-> "find"])
  /\ UNCHANGED <<edges, ord, shared, perm>>

NoneIsBetter(t) ==
  /\ th[t].pc = "find"
  /\ str' = [str EXCEPT ![V(t)] = th[t].vstr]
  /\ Return(t, V(t))
  /\ UNCHANGED <<edges, ord, coms, child, sibling, united_child, es, perm>>

\* Variant: a strength of -1 is taken for a small one.
IsLockedUnseen(atom) == FALSE

IsLocked(atom) == atom[1] < 0

FindBest(t) ==
  /\ th[t].pc = "find"
  /\ \E u \in Targets(es[V(t)]) :
       LET ua == <<str[u], child[u]>>
       IN  IF IsLocked(ua)
           THEN /\ Update(t, [pc |-> "undo"])
                /\ UNCHANGED sibling
           ELSE /\ sibling' = [sibling EXCEPT ![V(t)] = child[u]]
                /\ Update(t, [pc |-> "cas", u |-> u, ua |-> ua])
  /\ UNCHANGED <<edges, ord, coms, str, child, united_child, es, perm>>

SiblingUndone(t) == [sibling EXCEPT ![V(t)] = vmax]

\* compare_exchange_weak without the failures a processor may add.
CompareExchange(t) ==
  /\ th[t].pc = "cas"
  /\ LET u == th[t].u  ua == th[t].ua
     IN  IF <<str[u], child[u]>> = ua
         THEN /\ str' = [str EXCEPT ![u] = ua[1] + th[t].vstr]
              /\ child' = [child EXCEPT ![u] = V(t)]
              /\ Update(t, [pc |-> "com"])
              /\ UNCHANGED sibling
         ELSE /\ sibling' = SiblingUndone(t)
              /\ Update(t, [pc |-> "undo", u |-> vmax, ua |-> Idle.ua])
              /\ UNCHANGED <<str, child>>
  /\ UNCHANGED <<edges, ord, coms, united_child, es, perm>>

Undo(t) ==
  /\ th[t].pc = "undo"
  /\ str' = [str EXCEPT ![V(t)] = th[t].vstr]
  /\ Return(t, vmax)
  /\ UNCHANGED <<edges, ord, coms, child, sibling, united_child, es, perm>>

SetCommunity(t) ==
  /\ th[t].pc = "com"
  /\ coms' = [coms EXCEPT ![V(t)] = th[t].u]
  /\ Return(t, th[t].u)
  /\ UNCHANGED <<edges, ord, str, child, sibling, united_child, es, perm>>

-----------------------------------------------------------------------------
(* compute_perm: the communities one after the other, each in the order in *)
(* which a stack of the lines of descent is emptied.                       *)

Descendants(v) ==
  LET line[w \in Vertices] == IF child[w] = vmax THEN <<w>> ELSE <<w>> \o line[child[w]]
  IN  line[v]

Popped(v) ==
  LET pop[stack \in Seq(Vertices)] ==
        IF stack = << >> THEN << >>
        ELSE <<Last(stack)>> \o pop[Front(stack) \o (IF sibling[Last(stack)] = vmax THEN << >>
                                                     ELSE Descendants(sibling[Last(stack)]))]
  IN  pop[Descendants(v)]

\* join(topss)
tops == FoldLeft(LAMBDA acc, t : acc \o th[t].tops, << >>, [i \in 1 .. NumThreads |-> i - 1])

ComputePerm ==
  /\ \A t \in Threads : th[t].part = "end"
  /\ perm = << >>
  /\ LET order == FoldLeft(LAMBDA acc, v : acc \o Popped(v), << >>, tops)
     IN  perm' = [v \in Vertices |-> IF \E i \in 1 .. Len(order) : order[i] = v
                                     THEN (CHOOSE i \in 1 .. Len(order) : order[i] = v) - 1
                                     ELSE vmax]
  /\ UNCHANGED <<edges, ord, shared, th>>

Thread(t) ==
  \/ NextIteration(t) \/ EnterCritical(t) \/ LeaveCritical(t)
  \/ Merge(t) \/ TraceCom(t) \/ Shorten(t) \/ UniteChildren(t)
  \/ Lock(t) \/ Recheck(t) \/ NoneIsBetter(t) \/ FindBest(t)
  \/ CompareExchange(t) \/ Undo(t) \/ SetCommunity(t)

Next == (\E t \in Threads : Thread(t)) \/ ComputePerm

Spec == Init /\ [][Next]_vars

-----------------------------------------------------------------------------
(* The dendrogram: v, its children, the siblings of those, and so on. *)

Grow(S, v) == S \union (({child[x] : x \in S} \union {sibling[x] : x \in S \ {v}}) \ {vmax})

Members(v) == LET step[k \in 0 .. N] == IF k = 0 THEN {v} ELSE Grow(step[k - 1], v) IN step[N]

Merging(v) == {t \in Threads : th[t].queue # << >> /\ V(t) = v /\ th[t].pc # "loop"}

\* The compare-and-swap on another vertex succeeded.
Merged(v) == str[v] < 0 /\ \A t \in Merging(v) : th[t].pc = "com"

\* Every vertex has one place in the dendrogram, whatever merges raced: the
\* members of the vertices that are not merged are a partition, and tracing a
\* community leads up the dendrogram, never round in a circle.
Dendrogram ==
  LET members == [v \in Vertices |-> Members(v)]
      roots   == {v \in Vertices : ~ Merged(v)}
  IN  /\ UNION {members[v] : v \in roots} = Vertices
      /\ \A u, v \in roots : u # v => members[u] \intersect members[v] = {}
      /\ \A v \in Vertices : v \in members[coms[v]]

\* The strength of a community is the sum of those of its members, also while
\* the merging thread holds it and after a merge was rolled back.
StrengthsAddUp ==
  LET lists    == AdjacencyList
      strength == [x \in Vertices |-> Strength(lists[x])]
  IN  \A v \in Vertices :
        ~ Merged(v) =>
          LET held == {t \in Merging(v) : th[t].vstr >= 0}
              now  == IF str[v] >= 0 THEN str[v] ELSE th[CHOOSE t \in held : TRUE].vstr
          IN  /\ str[v] < 0 => held # {}
              /\ now = Sum(strength, Members(v))

\* The vertices merged into v whose edges are not yet among v's.
Pending(v) ==
  LET from[k \in 0 .. N] == IF k = 0 THEN child[v]
                            ELSE IF from[k - 1] \in {united_child[v], vmax} THEN vmax
                            ELSE sibling[from[k - 1]]
  IN  {from[k] : k \in 0 .. N} \ {vmax, united_child[v]}

\* No edge is lost: the edges of a community to another one weigh what the edges
\* of the graph between their members do, counting those of the members not yet
\* united; unite() may be overtaken by merges, and is then repeated.
EdgesAddUp ==
  LET graph   == AdjacencyList
      members == [v \in Vertices |-> Members(v)]
      roots   == {v \in Vertices : ~ Merged(v)}
      Between(lists, S, T) == Sum([w \in Vertices |-> Sum(lists[w], T)], S)
  IN  \A v \in roots :
        (\A t \in Merging(v) : th[t].pc \notin {"trace", "shorten"}) =>
          \A x \in roots \ {v} :
            Between(es, {v} \union Pending(v), members[x]) = Between(graph, members[v], members[x])

\* Once FindBest looks for the best neighbour, nothing is pending any more.
UnitedBeforeFind == \A t \in Threads : th[t].pc \in {"find", "cas", "com"} => Pending(V(t)) = {}

CommunitiesAddUp == Dendrogram /\ StrengthsAddUp /\ EdgesAddUp /\ UnitedBeforeFind

\* "The merge never fails" (the assertion in the critical section), the
\* assertions at the end of merge and those of check_result: every vertex is
\* top-level or merged, and tops holds the top-level ones, each once.  The
\* result numbers all vertices, each community's in a row.
IsTopLevel(v) == str[v] >= 0 /\ sibling[v] = vmax /\ coms[v] = v
IsMerged(v)   == str[v] < 0 /\ coms[v] # v

AssertionsHold ==
  /\ \A t \in Threads : th[t].part \in {"critical", "end"} => th[t].pends = << >>
  /\ \A t \in Threads : \A i \in 1 .. Len(th[t].tops) : IsTopLevel(th[t].tops[i])
  /\ (\A t \in Threads : th[t].part = "end") =>
       /\ \A v \in Vertices : IsTopLevel(v) \/ IsMerged(v)
       /\ {v \in Vertices : IsTopLevel(v)} = {tops[i] : i \in 1 .. Len(tops)}
       /\ \A i, j \in 1 .. Len(tops) : tops[i] = tops[j] => i = j

PermutationByCommunity ==
  perm # << >> =>
    /\ {perm[v] : v \in Vertices} = Vertices
    /\ \A u, v, w \in Vertices : perm[u] < perm[v] /\ perm[v] < perm[w] /\ Community(u) = Community(w)
                                 => Community(v) = Community(u)

ResultChecked == AssertionsHold /\ PermutationByCommunity

\* "The vertices in the list connected by sibling are already merged, and hence
\* they are never be modified by the other threads": what unite() reads of a
\* merged vertex stays as it is.
MergedIsFrozen ==
  \A v \in Vertices :
    Merged(v) => Merged(v)' /\ UNCHANGED <<str[v], child[v], sibling[v], es[v]>>
=============================================================================
