------------------------------- MODULE GOrder -------------------------------
(***************************************************************************)
(* GenerateGOrderMapping and GenerateRCMOrderMapping of                    *)
(* bench/include/gapbs/builder.h over bench/include/gorder/GoGraph.h.      *)
(* Both relabel the graph by reverse Cuthill-McKee (Transform); "rcm" then *)
(* runs RCMOrder again on the result, "gorder" runs GorderGreedy: it takes *)
(* from the heap the vertex that shares most with the last Window ones.    *)
(* The new ids are the composition of the two orders.                      *)
(*                                                                         *)
(* The rows of outedge and inedge are sorted by id, so sets stand for      *)
(* them.  One step of RCMOrder takes one vertex from its queue, whose      *)
(* content is what visit holds from cell head on; one step of GorderGreedy *)
(* is one DecreaseTop of ExtractMax or one turn of the loop.  overrun says *)
(* that IncrementKey has written behind the header; nothing is said of     *)
(* what the program does then.                                             *)
(***************************************************************************)
EXTENDS Integers, FiniteSets, SequencesExt, FiniteSetsExt, TLC

CONSTANTS N,        \* vsize
          Graphs,   \* the graphs ordered: out neighbours of each vertex
          Kinds,    \* a subset of {"gorder", "rcm"}
          Ties,     \* permutations: how std::sort may rank equal keys
          Window,   \* the literal 7 of GenerateGOrderMapping
          Before    \* the int in memory where LinkedList[-1].key would be

Vertices == 0 .. (N - 1)

GOrderAssumption ==
  /\ N \in Nat /\ N > 1 /\ Window \in Nat \ {0} /\ Before \in Int
  /\ Graphs \subseteq [Vertices -> SUBSET Vertices]
  /\ Kinds \subseteq {"gorder", "rcm"}
  /\ Ties \subseteq [Vertices -> Vertices]

VARIABLES phase, kind,
          input,      \* the graph of the caller
          out,        \* the graph in ids after Transform
          visit, head,
          order_l1,
          heap, order, zero, overrun,
          new_ids

vars == <<phase, kind, input, out, visit, head, order_l1, heap, order, zero, overrun, new_ids>>

In(g, v) == {u \in Vertices : v \in g[u]}
OutDegree(g, v) == Cardinality(g[v])
InDegree(g, v) == Cardinality(In(g, v))

InIdOrder(S) == SelectSeq([i \in 1 .. N |-> i - 1], LAMBDA v : v \in S)

-----------------------------------------------------------------------------
(***************************************************************************)
(* bench/include/gorder/GoUnitHeap.h: a priority queue of 0 .. size - 1    *)
(* whose priorities change by one.  The elements form one doubly linked    *)
(* list in descending order of their keys; Header[k] has the first and the *)
(* last element with key k.  The key is an upper bound: update[i], never   *)
(* positive for an element of the list, is what it exceeds the priority    *)
(* by, and is made good when the element is on top.                        *)
(*                                                                         *)
(* A heap is the record [key, prev, next, update, first, second, top].     *)
(* Cell -1 of the list arrays is the memory in front of LinkedList, which  *)
(* DecreaseTop reads when the top has no next element; Before is the key   *)
(* it holds.                                                               *)
(***************************************************************************)
Nil == -1
Huge == 1000       \* INT_MAX / 2: the update of what has left the list

Larger(a, b) == IF a > b THEN a ELSE b

\* C++ division by two rounds towards zero.
Half(n) == IF n >= 0 THEN n \div 2 ELSE -((-n) \div 2)

Keys(h) == DOMAIN h.first

(***************************************************************************)
(* The constructor followed by new keys, -keys as updates and ReConstruct. *)
(* The elements are listed by descending key; std::sort leaves open in     *)
(* which order those of equal keys come: it is that of their ties.         *)
(***************************************************************************)
ReConstruct(size, keys, tie, before) ==
  LET sorted == SortSeq([i \in 1 .. size |-> i - 1],
                  LAMBDA a, b : keys[a] > keys[b] \/ (keys[a] = keys[b] /\ tie[a] < tie[b]))
      at(i) == CHOOSE p \in 1 .. size : sorted[p] = i
      block(k) == {p \in 1 .. size : keys[sorted[p]] = k}
      headers == 0 .. (Larger(keys[sorted[1]] + 1, Larger(size \div 16, 4)) - 1)
      cells == -1 .. (size - 1)
  IN  [key    |-> [i \in cells |-> IF i = -1 THEN before ELSE keys[i]],
       prev   |-> [i \in cells |-> IF i = -1 \/ at(i) = 1 THEN Nil ELSE sorted[at(i) - 1]],
       next   |-> [i \in cells |-> IF i = -1 \/ at(i) = size THEN Nil ELSE sorted[at(i) + 1]],
       update |-> [i \in 0 .. (size - 1) |-> -keys[i]],
       first  |-> [k \in headers |-> IF block(k) = {} THEN Nil
                                     ELSE sorted[CHOOSE p \in block(k) : \A q \in block(k) : p <= q]],
       second |-> [k \in headers |-> IF block(k) = {} THEN Nil
                                     ELSE sorted[CHOOSE p \in block(k) : \A q \in block(k) : p >= q]],
       top    |-> sorted[1]]

\* What DeleteElement and IncrementKey do to Header[key] when index leaves it.
Unheaded(h, index, key) ==
  IF h.first[key] = h.second[key] THEN [h EXCEPT !.first[key] = Nil, !.second[key] = Nil]
  ELSE IF h.first[key] = index THEN [h EXCEPT !.first[key] = h.next[index]]
  ELSE IF h.second[key] = index THEN [h EXCEPT !.second[key] = h.prev[index]]
  ELSE h

\* next[a] = b and prev[b] = a, where they exist.
Linked(h, a, b) ==
  [h EXCEPT !.next = IF a >= 0 THEN [@ EXCEPT ![a] = b] ELSE @,
            !.prev = IF b >= 0 THEN [@ EXCEPT ![b] = a] ELSE @]

\* Variant: the header of the key is left alone.
DeleteUnheaded(h, index) ==
  LET cut == Linked(h, h.prev[index], h.next[index])
  IN  [cut EXCEPT !.top = IF @ = index THEN h.next[index] ELSE @,
                  !.prev[index] = Nil, !.next[index] = Nil]

DeleteElement(h, index) ==
  LET headers == Unheaded(h, index, h.key[index])
      cut     == Linked(h, h.prev[index], h.next[index])
  IN  [cut EXCEPT !.first = headers.first, !.second = headers.second,
                  !.top = IF @ = index THEN h.next[index] ELSE @,
                  !.prev[index] = Nil, !.next[index] = Nil]

\* The key after half of the update is made good.
NewKey(h) == LET u == h.update[h.top] IN h.key[h.top] + u - Half(u)

\* The last block, from that of key on, whose elements are not below newkey.
LastNotBelow(h, key, newkey) ==
  LET after(p) == h.next[h.second[p]]
      reached[i \in 0 .. Cardinality(Keys(h))] ==
        IF i = 0 THEN key
        ELSE LET p == reached[i - 1]
             IN  IF after(p) >= 0 /\ h.key[after(p)] >= newkey THEN h.key[after(p)] ELSE p
  IN  reached[Cardinality(Keys(h))]

\* Whether DecreaseTop moves the top down; otherwise it changes nothing.
Sinks(h) == h.update[h.top] < 0 /\ NewKey(h) < h.key[h.next[h.top]]

DecreaseTop(h) ==
  LET t == h.top
      key == h.key[t]
      next == h.next[t]
      newkey == NewKey(h)
      psecond == h.second[LastNotBelow(h, key, newkey)]
      tailnext == h.next[psecond]
      moved == Linked(Linked([h EXCEPT !.prev[next] = Nil], psecond, t), t, tailnext)
      headers == IF h.first[key] = h.second[key]
                 THEN [h EXCEPT !.first[key] = Nil, !.second[key] = Nil]
                 ELSE [h EXCEPT !.first[key] = next]
  IN  [moved EXCEPT !.top = next, !.key[t] = newkey, !.update[t] = Half(@),
                    !.first = [headers.first EXCEPT ![newkey] = IF @ < 0 THEN t ELSE @],
                    !.second = [headers.second EXCEPT ![newkey] = t]]

\* IncrementKey writes Header[key + 1], which may be behind its last cell.
Overruns(h, index) == h.key[index] + 1 \notin Keys(h)

Resized(header, key) ==
  LET size == Cardinality(DOMAIN header)
  IN  IF key + 4 >= size
      THEN [k \in 0 .. ((3 * size) \div 2 - 1) |-> IF k < size THEN header[k] ELSE Nil]
      ELSE header

IncrementKey(h, index) ==
  LET key   == h.key[index]
      leader == h.first[key]
      moved == IF leader = index THEN h
               ELSE LET cut == Linked(h, h.prev[index], h.next[index])
                    IN  Linked(Linked(cut, cut.prev[leader], index), index, leader)
      old   == Unheaded(h, index, key)
      first == [old.first EXCEPT ![key + 1] = IF @ < 0 THEN index ELSE @]
  IN  [moved EXCEPT !.key[index] = key + 1,
                    !.first = Resized(first, key + 1),
                    !.second = Resized([old.second EXCEPT ![key + 1] = index], key + 1),
                    !.top = IF h.key[@] < key + 1 /\ @ # index THEN index ELSE @]

-----------------------------------------------------------------------------
(* What the class keeps up for the elements of the set live. *)

ListFrom(h, live) ==
  LET list[i \in 0 .. Cardinality(live)] ==
        IF i = 0 THEN << >>
        ELSE LET last == IF i = 1 THEN h.top ELSE h.next[list[i - 1][i - 1]]
             IN  IF Len(list[i - 1]) < i - 1 \/ last < 0 THEN list[i - 1] ELSE Append(list[i - 1], last)
  IN  list[Cardinality(live)]

IsHeapOf(h, live) ==
  LET list == ListFrom(h, live)
      n    == Cardinality(live)
  IN  /\ Len(list) = n /\ {list[i] : i \in 1 .. n} = live
      /\ n > 0 => h.next[list[n]] = Nil
      /\ \A i \in 1 .. n : h.prev[list[i]] = (IF i = 1 THEN Nil ELSE list[i - 1])
      /\ \A i \in 1 .. (n - 1) : h.key[list[i]] >= h.key[list[i + 1]]
      /\ \A k \in Keys(h) :
           LET block == {i \in 1 .. n : h.key[list[i]] = k}
           IN  IF block = {} THEN h.first[k] = Nil /\ h.second[k] = Nil
               ELSE /\ h.first[k]  = list[CHOOSE i \in block : \A j \in block : i <= j]
                    /\ h.second[k] = list[CHOOSE i \in block : \A j \in block : i >= j]

-----------------------------------------------------------------------------
(* RCMOrder.                                                               *)

\* stable_sort by the sum of the degrees of what was in the order of the ids.
ByDegree(g, S) ==
  LET degree(v) == OutDegree(g, v) + InDegree(g, v)
      before(a, b) == degree(a) < degree(b) \/ (degree(a) = degree(b) /\ a < b)
  IN  SortSeq(InIdOrder(S), before)

NextVisit(g, seen, at) ==
  LET fresh(S) == ByDegree(g, S \ ToSet(seen))
  IN  IF at = Len(seen) THEN << Head(fresh(Vertices)) >> ELSE fresh(g[seen[at + 1]])

Reversed(seen) == [v \in Vertices |-> N - (CHOOSE i \in 1 .. Len(seen) : seen[i] = v)]

Relabelled(g, r) == [v \in Vertices |-> {r[w] : w \in UNION {g[u] : u \in {x \in Vertices : r[x] = v}}}]

-----------------------------------------------------------------------------
(* GorderGreedy.                                                           *)

HugeVertex == CHOOSE r \in 0 .. N : r * r <= N /\ (r + 1) * (r + 1) > N

Small(g, u) == OutDegree(g, u) <= HugeVertex
HasSiblings(g, u) == OutDegree(g, u) > 1

Touch(h, w) ==
  IF h.over THEN h
  ELSE IF h.heap.update[w] # 0 THEN [h EXCEPT !.heap.update[w] = @ + 1]
  ELSE IF Overruns(h.heap, w) THEN [h EXCEPT !.over = TRUE]
  ELSE [h EXCEPT !.heap = IncrementKey(@, w)]

\* Whom a vertex placed in the order raises, one entry for each time.
RaisedOut(g, v) == IF Small(g, v) THEN InIdOrder(g[v]) ELSE << >>

Siblings(g, u, settled) == IF u \notin settled /\ HasSiblings(g, u) THEN InIdOrder(g[u]) ELSE << >>

RaisedIn(g, v, settled) ==
  LET sources == InIdOrder({u \in In(g, v) : Small(g, u)})
  IN  FlattenSeq([i \in 1 .. Len(sources) |-> <<sources[i]>> \o Siblings(g, sources[i], settled)])

Raise(h, touched) == FoldLeft(Touch, [heap |-> h, over |-> FALSE], touched)

\* The sources of popv which point to v too: leaving and entering cancel out.
Settled(g, popv, v) == {u \in In(g, popv) \cap In(g, v) : Small(g, u) /\ HasSiblings(g, u)}

\* What popv leaving the window takes from the update of w.
Lowered(g, popv, settled, w) ==
  LET sources == {u \in In(g, popv) : Small(g, u)}
      once(b) == IF b THEN 1 ELSE 0
  IN  once(Small(g, popv) /\ w \in g[popv]) + once(w \in sources)
        + Cardinality({u \in sources \ settled : HasSiblings(g, u) /\ w \in g[u]})

Lower(h, g, popv, settled) ==
  [h EXCEPT !.update = [w \in Vertices |-> @[w] - Lowered(g, popv, settled, w)]]

\* The first vertex with most predecessors opens the order.
First(g) ==
  LET most == Max({InDegree(g, v) : v \in Vertices})
  IN  Min({v \in Vertices : InDegree(g, v) = most})

\* Vertex 0 is never set aside, nor is one that is the first with most.
Zeros(g) == {v \in Vertices \ {0} : g[v] = {} /\ In(g, v) = {}}

Discard(h, v) == DeleteElement([h EXCEPT !.update[v] = Huge], v)

Opened(g, tie) ==
  LET keys == [v \in Vertices |-> InDegree(g, v)]
  IN  FoldLeft(Discard, ReConstruct(N, keys, tie, Before), InIdOrder(Zeros(g)) \o <<First(g)>>)

Placed == ToSet(order)
Live == Vertices \ (Placed \cup Zeros(out))
Count == Len(order) - 1

-----------------------------------------------------------------------------
Unset == [v \in Vertices |-> Nil]
NoHeap == << >>

Init == /\ phase = "first"
        /\ kind \in Kinds
        /\ input \in Graphs
        /\ out = input
        /\ visit = << >> /\ head = 0
        /\ order_l1 = Unset
        /\ heap = NoHeap /\ order = << >> /\ zero = << >> /\ overrun = FALSE
        /\ new_ids = Unset

\* The outer loop of RCMOrder enters a vertex, or the inner one takes one.
Visit ==
  /\ phase \in {"first", "second"}
  /\ head < N
  /\ visit' = visit \o NextVisit(out, visit, head)
  /\ head' = IF head = Len(visit) THEN head ELSE head + 1
  /\ UNCHANGED <<phase, kind, input, out, order_l1, heap, order, zero, overrun, new_ids>>

Transformed ==
  /\ phase = "first" /\ head = N
  /\ order_l1' = Reversed(visit)
  /\ out' = Relabelled(out, order_l1')
  /\ visit' = << >> /\ head' = 0

\* Transform, then the second RCMOrder begins.
TransformForRCM ==
  /\ kind = "rcm"
  /\ Transformed
  /\ phase' = "second"
  /\ UNCHANGED <<kind, input, heap, order, zero, overrun, new_ids>>

\* Transform, then GorderGreedy up to its loop.
TransformForGreedy ==
  /\ kind = "gorder"
  /\ Transformed
  /\ \E tie \in Ties :
       LET first == First(out')
           h == Raise(Opened(out', tie), RaisedIn(out', first, {}) \o RaisedOut(out', first))
       IN  /\ order' = <<first>>
           /\ heap' = h.heap /\ overrun' = h.over
  /\ zero' = InIdOrder(Zeros(out'))
  /\ phase' = "greedy"
  /\ UNCHANGED <<kind, input, new_ids>>

Sink ==
  /\ phase = "greedy" /\ ~overrun
  /\ Count < N - 1 - Len(zero)
  /\ Sinks(heap)
  /\ heap' = DecreaseTop(heap)
  /\ UNCHANGED <<phase, kind, input, out, visit, head, order_l1, order, zero, overrun, new_ids>>

\* The rest of the loop's body, once ExtractMax has found the top stable.
Place ==
  /\ phase = "greedy" /\ ~overrun
  /\ Count < N - 1 - Len(zero)
  /\ ~Sinks(heap)
  /\ LET v == heap.top
         grown == Append(order, v)
         leaving == Len(grown) > Window
         popv == grown[Len(grown) - Window]
         settled == IF leaving THEN Settled(out, popv, v) ELSE {}
         taken == Discard(heap, v)
         left == IF leaving THEN Lower(taken, out, popv, settled) ELSE taken
         h == Raise(left, RaisedOut(out, v) \o RaisedIn(out, v, settled))
     IN  /\ order' = grown
         /\ heap' = h.heap /\ overrun' = h.over
  /\ UNCHANGED <<phase, kind, input, out, visit, head, order_l1, zero, new_ids>>

\* The vertices without edges go in front of the last one.
Completed(placed, isolated) == Front(placed) \o isolated \o <<Last(placed)>>

Inverted(seq) == [v \in Vertices |-> IF v \in ToSet(seq) THEN (CHOOSE i \in 1 .. Len(seq) : seq[i] = v) - 1 ELSE 0]

Composed(second) == [v \in Vertices |-> second[order_l1[v]]]

FinishGreedy ==
  /\ phase = "greedy" /\ ~overrun
  /\ Count = N - 1 - Len(zero)
  /\ order' = Completed(order, zero)
  /\ new_ids' = Composed(Inverted(order'))
  /\ phase' = "done"
  /\ UNCHANGED <<kind, input, out, visit, head, order_l1, heap, zero, overrun>>

FinishRCM ==
  /\ phase = "second" /\ head = N
  /\ new_ids' = Composed(Reversed(visit))
  /\ phase' = "done"
  /\ UNCHANGED <<kind, input, out, visit, head, order_l1, heap, order, zero, overrun>>

Finished == phase = "done" /\ UNCHANGED vars

Next == Visit \/ TransformForRCM \/ TransformForGreedy \/ Sink \/ Place
          \/ FinishGreedy \/ FinishRCM \/ Finished

Spec == Init /\ [][Next]_vars

-----------------------------------------------------------------------------
(* Reverse Cuthill-McKee: nobody is entered twice, and the entries are     *)
(* generations of a breadth-first search: of two vertices, the one whose   *)
(* first visited predecessor is earlier comes first, and of two with the   *)
(* same one that of the smaller degree; no vertex enters as a root while   *)
(* a visited one still leads to it.                                        *)
CuthillMcKee ==
  LET n == Len(visit)
      from(i) == {j \in 1 .. (i - 1) : visit[i] \in out[visit[j]]}
      degree(i) == OutDegree(out, visit[i]) + InDegree(out, visit[i])
  IN  /\ IsInjective(visit)
      /\ \A i, j \in 1 .. n :
           i < j /\ from(j) # {} /\ Min(from(j)) < i =>
             /\ from(i) # {}
             /\ \/ Min(from(i)) < Min(from(j))
                \/ Min(from(i)) = Min(from(j)) /\ degree(i) <= degree(j)

(* The heap stays one list, sorted by keys, with the header of each key    *)
(* about its first and last element, whatever DeleteElement, DecreaseTop   *)
(* and IncrementKey do to it; and key + update is the score of the vertex, *)
(* the edges it shares with the last Window vertices of the order and the  *)
(* predecessors it has in common with them, huge ones left out.            *)
Score(g, window, w) ==
  LET common(p) == {u \in In(g, p) \cap In(g, w) : Small(g, u)}
      shared(p) == (IF w \in g[p] /\ Small(g, p) THEN 1 ELSE 0)
                     + (IF p \in g[w] /\ Small(g, w) THEN 1 ELSE 0)
                     + Cardinality(common(p))
  IN  SumFunction([p \in window |-> shared(p)])

HeapKept == phase = "greedy" /\ ~overrun => IsHeapOf(heap, Live)

ScoreKept ==
  phase = "greedy" /\ ~overrun =>
    LET window == ToSet(SubSeq(order, Larger(1, Len(order) - Window + 1), Len(order)))
    IN  \A w \in Live : /\ heap.update[w] <= 0
                        /\ heap.key[w] + heap.update[w] = Score(out, window, w)

(* What the callers relabel the graph by is a permutation.                 *)
Permutation == phase = "done" => {new_ids[v] : v \in Vertices} = Vertices

(* IncrementKey: "key+1>=Header.size()" would be an error, says the check  *)
(* that is compiled out of a Release build.                                *)
HeaderFits == ~overrun
=============================================================================
