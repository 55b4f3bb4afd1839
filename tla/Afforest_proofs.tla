-------------------------- MODULE Afforest_proofs --------------------------
(***************************************************************************)
(* Proofs of the properties of Afforest, for every number of vertices, set *)
(* of graphs, set of threads and number of sampling rounds.                *)
(***************************************************************************)
EXTENDS Afforest, CommonFacts

\* The neighbour lists of the graph.
LEMMA Lists ==
  ASSUME TypeOK, NEW n \in NodeID
  PROVE  /\ OutNeigh(graph, n) \in Seq(NodeID) /\ InNeigh(graph, n) \in Seq(NodeID)
         /\ OutDegree(graph, n) \in Nat /\ InDegree(graph, n) \in Nat
         /\ ~ graph.directed => InNeigh(graph, n) = OutNeigh(graph, n)
<1>1. IsGraph(graph)
  BY DEF TypeOK
<1>2. OutNeigh(graph, n) \in Seq(NodeID) /\ InNeigh(graph, n) \in Seq(NodeID)
  BY <1>1 DEF IsGraph, OutNeigh, InNeigh
<1>3. ~ graph.directed => InNeigh(graph, n) = OutNeigh(graph, n)
  BY <1>1 DEF IsGraph, OutNeigh, InNeigh
<1> QED BY <1>2, <1>3 DEF OutDegree, InDegree

\* Positions in the neighbour lists of the loop being executed.
LEMMA NeighborPositions ==
  ASSUME TypeOK, NEW n \in NodeID
  PROVE  /\ FirstNeighbor(n) \in Nat
         /\ LastNeighbor(n) \in Nat
         /\ FirstNeighbor(n) <= LastNeighbor(n)
         /\ \A i \in 1 .. LastNeighbor(n) :
              /\ Neighbor(n, i) \in NodeID
              /\ Adjacent(graph, n, Neighbor(n, i))
<1>1. r \in Nat /\ NeighborRounds \in Nat
  BY RoundsAssumption DEF TypeOK
<1>2. /\ FirstNeighbor(n) \in Nat /\ LastNeighbor(n) \in Nat
      /\ FirstNeighbor(n) <= LastNeighbor(n)
      /\ LastNeighbor(n) <= OutDegree(graph, n) + InDegree(graph, n)
  BY <1>1, Lists DEF FirstNeighbor, LastNeighbor, StartOffset
<1>3. ASSUME NEW i \in 1 .. LastNeighbor(n)
      PROVE  Neighbor(n, i) \in NodeID /\ Adjacent(graph, n, Neighbor(n, i))
  <2>1. CASE i <= OutDegree(graph, n)
    <3>1. i \in 1 .. Len(OutNeigh(graph, n))
      BY <1>2, <2>1, Lists DEF OutDegree
    <3> QED BY <2>1, <3>1, Lists DEF Neighbor, Adjacent, Occurs
  <2>2. CASE i > OutDegree(graph, n)
    <3> DEFINE j == i - OutDegree(graph, n)
    <3>1. j \in 1 .. InDegree(graph, n)
      BY <1>2, <2>2, Lists
    <3>2. Neighbor(n, i) = InNeigh(graph, n)[j]
      BY <1>2, <2>2, Lists DEF Neighbor
    <3> HIDE DEF j
    <3>3. InNeigh(graph, n)[j] \in NodeID /\ Occurs(InNeigh(graph, n)[j], InNeigh(graph, n))
      BY <3>1, Lists DEF Occurs, InDegree
    <3>4. Occurs(n, OutNeigh(graph, InNeigh(graph, n)[j]))
      BY <3>3, TypeOK DEF TypeOK, IsGraph
    <3> QED BY <3>2, <3>3, <3>4 DEF Adjacent
  <2> QED BY <1>2, <2>1, <2>2, Lists
<1> QED BY <1>2, <1>3

\* High and Low order p1 and p2.
LEMMA HighLow ==
  ASSUME TypeOK, NEW t \in Threads
  PROVE  /\ High(t) \in NodeID /\ Low(t) \in NodeID
         /\ \/ High(t) = p1[t] /\ Low(t) = p2[t]
            \/ High(t) = p2[t] /\ Low(t) = p1[t]
         /\ p1[t] # p2[t] => Low(t) < High(t)
<1>1. p1[t] \in NodeID /\ p2[t] \in NodeID
  BY DEF TypeOK
<1> QED BY <1>1 DEF High, Low, NodeID

-----------------------------------------------------------------------------
(* What a step does to comp. *)

\* The next neighbour of a thread inside Link.
LEMMA LinkedEdge ==
  ASSUME Inv, NEW t \in Threads, pc[t] \in {"readP2"} \union LinkBody
  PROVE  /\ u[t] \in NodeID /\ Neighbor(u[t], k[t]) \in NodeID
         /\ Adjacent(graph, u[t], Neighbor(u[t], k[t]))
<1>1. TypeOK /\ LinkInv(t)
  BY DEF Inv
<1>2. u[t] \in NodeID
  BY <1>1 DEF TypeOK
<1>3. k[t] \in 1 .. LastNeighbor(u[t])
  BY <1>1, <1>2, NeighborPositions DEF LinkInv
<1> QED BY <1>1, <1>2, <1>3, NeighborPositions

\* A successful compare_and_swap hooks a root of one end of the edge below a
\* smaller vertex of the tree of the other end.
LEMMA HookStep ==
  ASSUME Inv, NEW t \in Threads, CompareAndSwap(t), comp[High(t)] = High(t)
  PROVE  /\ comp' = [comp EXCEPT ![High(t)] = Low(t)]
         /\ Low(t) < High(t)
         /\ SameComponent(graph, High(t), Low(t))
<1>1. TypeOK /\ LinkInv(t) /\ Sound /\ pc[t] = "cas"
  BY DEF Inv, CompareAndSwap
<1> DEFINE v == Neighbor(u[t], k[t])
<1>3. SameComponent(graph, u[t], v)
  BY <1>1, LinkedEdge, EdgeConnects DEF LinkBody
<1>4. p1[t] # p2[t] /\ Ends(t)
  BY <1>1 DEF LinkInv, LinkBody
<1>5. \A x, y : SameTree(comp, x, y) => SameComponent(graph, x, y)
  BY <1>1, TreeConnects DEF Sound
<1>6. SameComponent(graph, p1[t], p2[t])
  <2>1. \/ SameComponent(graph, p1[t], u[t]) /\ SameComponent(graph, p2[t], v)
        \/ SameComponent(graph, p1[t], v) /\ SameComponent(graph, p2[t], u[t])
    BY <1>4, <1>5 DEF Ends
  <2> HIDE DEF v
  <2> QED BY <1>3, <2>1, SameComponentEquivalence
<1>7. SameComponent(graph, High(t), Low(t))
  BY <1>1, <1>6, HighLow, SameComponentEquivalence
<1> QED BY <1>1, <1>4, <1>7, HighLow DEF CompareAndSwap

\* A step either leaves comp alone, or hooks, or stores a shortcut.
LEMMA CompStep ==
  ASSUME Inv, [Next]_vars
  PROVE  \/ comp' = comp
         \/ \E t \in Threads : /\ CompareAndSwap(t) /\ comp[High(t)] = High(t)
         \/ \E t \in Threads : Store(t)
  BY DEF Next, vars, shared, locals, Thread, LinkStep, CompressStep,
         TakeIteration, SkipLargest, NoMoreNeighbors, ReadP1, ReadP2, ReadHigh,
         CompareAndSwap, ReadParent, ReadGrandparent, RereadLow, Crawl, Reread,
         Store, Barrier, SampleFrequentElement

\* No step separates two vertices of a tree, not even for the parents below
\* some m only; parents only move down, within the connected component.
LEMMA CompGrows ==
  ASSUME Inv, [Next]_vars
  PROVE  /\ comp' \in [NodeID -> NodeID]
         /\ \A n \in NodeID : comp'[n] <= comp[n]
         /\ \A S \in SUBSET NodeID, m \in Nat :
              RespectsBelow(comp', S, m) => RespectsBelow(comp, S, m)
         /\ \A n \in NodeID : SameComponent(graph, n, comp'[n])
<1>0. TypeOK /\ Sound /\ comp \in [NodeID -> NodeID]
  BY DEF Inv, TypeOK
<1>1. CASE comp' = comp
  BY <1>0, <1>1 DEF Sound, NodeID
<1>2. ASSUME NEW t \in Threads, CompareAndSwap(t), comp[High(t)] = High(t)
      PROVE  /\ comp' \in [NodeID -> NodeID]
             /\ \A n \in NodeID : comp'[n] <= comp[n]
             /\ \A S \in SUBSET NodeID, m \in Nat :
                  RespectsBelow(comp', S, m) => RespectsBelow(comp, S, m)
             /\ \A n \in NodeID : SameComponent(graph, n, comp'[n])
  <2>1. High(t) \in NodeID /\ Low(t) \in NodeID
    BY <1>0, HighLow
  <2>2. /\ comp' = [comp EXCEPT ![High(t)] = Low(t)] /\ Low(t) < High(t)
        /\ SameComponent(graph, High(t), Low(t))
    BY <1>2, HookStep
  <2>3. \A S \in SUBSET NodeID, m \in Nat :
          RespectsBelow(comp', S, m) => RespectsBelow(comp, S, m)
    BY <1>0, <1>2, <2>1, <2>2, HookRespects
  <2>4. \A n \in NodeID : comp'[n] <= comp[n]
    BY <1>0, <1>2, <2>1, <2>2 DEF NodeID
  <2> QED BY <1>0, <2>1, <2>2, <2>3, <2>4 DEF Sound
<1>3. ASSUME NEW t \in Threads, Store(t)
      PROVE  /\ comp' \in [NodeID -> NodeID]
             /\ \A n \in NodeID : comp'[n] <= comp[n]
             /\ \A S \in SUBSET NodeID, m \in Nat :
                  RespectsBelow(comp', S, m) => RespectsBelow(comp, S, m)
             /\ \A n \in NodeID : SameComponent(graph, n, comp'[n])
  <2>1. /\ u[t] \in NodeID /\ tmp[t] \in NodeID
        /\ comp' = [comp EXCEPT ![u[t]] = tmp[t]]
    BY <1>0, <1>3 DEF Store, TypeOK
  <2>2. /\ tmp[t] <= comp[u[t]]
        /\ \A S \in SUBSET NodeID :
             RespectsBelow(comp, S, u[t]) => (comp[u[t]] \in S <=> tmp[t] \in S)
    BY <1>3 DEF Inv, CompressInv, Store
  <2>3. \A S \in SUBSET NodeID, m \in Nat :
          RespectsBelow(comp', S, m) => RespectsBelow(comp, S, m)
    BY <1>0, <2>1, <2>2, ShortcutRespects
  <2>4. \A n \in NodeID : comp'[n] <= comp[n]
    BY <1>0, <2>1, <2>2 DEF NodeID
  <2>5. SameTree(comp, comp[u[t]], tmp[t])
    <3>1. \A S \in SUBSET NodeID : Respects(comp, S) => RespectsBelow(comp, S, u[t])
      BY <2>1, NAssumption DEF Respects, RespectsBelow, NodeID
    <3> QED BY <2>2, <3>1 DEF SameTree
  <2>6. SameComponent(graph, u[t], tmp[t])
    BY <1>0, <2>1, <2>5, TreeConnects, SameComponentEquivalence DEF Sound
  <2> QED BY <1>0, <2>1, <2>3, <2>4, <2>6 DEF Sound
<1> QED BY <1>1, <1>2, <1>3, CompStep

\* What a thread knows about the trees stays true.
LEMMA TreesGrow ==
  ASSUME Inv, [Next]_vars, NEW x, NEW y, SameTree(comp, x, y)
  PROVE  SameTree(comp', x, y)
<1>1. \A S \in SUBSET NodeID : Respects(comp', S) => Respects(comp, S)
  BY CompGrows, NAssumption DEF Respects
<1> QED BY <1>1, SameTreeGrows

-----------------------------------------------------------------------------
LEMMA StepTypeOK ==
  ASSUME Inv, [Next]_vars
  PROVE  TypeOK'
<1> USE DEF shared, locals
<1>0. /\ TypeOK /\ (\A t \in Threads : LinkInv(t))
      /\ comp' \in [NodeID -> NodeID] /\ r \in Nat /\ NeighborRounds \in Nat
  BY CompGrows, RoundsAssumption DEF Inv, TypeOK
<1>z. 0 \in NodeID
  BY NAssumption DEF NodeID
<1>1. CASE UNCHANGED vars
  BY <1>0, <1>1 DEF vars, TypeOK
<1>2. ASSUME NEW t \in Threads, NEW n \in NodeID, TakeIteration(t, n)  PROVE TypeOK'
  <2>1. FirstNeighbor(n) \in Nat
    BY <1>0, NeighborPositions
  <2> QED BY <1>0, <1>2, <2>1 DEF TakeIteration, Goto, TypeOK, Locations
<1>3. ASSUME NEW t \in Threads, SkipLargest(t) \/ NoMoreNeighbors(t) \/ Crawl(t)
      PROVE  TypeOK'
  BY <1>0, <1>3, <1>z
    DEF SkipLargest, NoMoreNeighbors, Crawl, EndIteration, Goto, TypeOK, Locations
<1>4. ASSUME NEW t \in Threads, ReadP1(t) \/ ReadHigh(t) \/ CompareAndSwap(t)
      PROVE  TypeOK'
  BY <1>0, <1>4, <1>z
    DEF ReadP1, ReadHigh, CompareAndSwap, Return, Goto, TypeOK, Locations
<1>5. ASSUME NEW t \in Threads, ReadP2(t)  PROVE TypeOK'
  <2>1. comp[Neighbor(u[t], k[t])] \in NodeID /\ p1[t] \in NodeID
    BY <1>0, <1>5, LinkedEdge DEF ReadP2, TypeOK
  <2> QED BY <1>0, <1>5, <1>z, <2>1 DEF ReadP2, Test, Return, Goto, TypeOK, Locations
<1>6. ASSUME NEW t \in Threads, ReadParent(t) \/ ReadGrandparent(t) \/ RereadLow(t)
      PROVE  TypeOK'
  <2>1. /\ comp[High(t)] \in NodeID /\ comp[Low(t)] \in NodeID
        /\ tmp[t] \in NodeID /\ comp[tmp[t]] \in NodeID
    BY <1>0, HighLow DEF TypeOK
  <2> QED
    BY <1>0, <1>6, <1>z, <2>1
    DEF ReadParent, ReadGrandparent, RereadLow, Test, Return, Goto, TypeOK, Locations
<1>7. ASSUME NEW t \in Threads, Reread(t) \/ Store(t)  PROVE TypeOK'
  <2>1. comp[comp[u[t]]] \in NodeID
    BY <1>0 DEF TypeOK
  <2> QED BY <1>0, <1>7, <1>z, <2>1 DEF Reread, Store, Goto, TypeOK, Locations
<1>8. CASE Barrier
  BY <1>0, <1>8 DEF Barrier, TypeOK, Phases
<1>9. CASE SampleFrequentElement
  BY <1>0, <1>9 DEF SampleFrequentElement, TypeOK, Phases
<1> QED
  BY <1>1, <1>2, <1>3, <1>4, <1>5, <1>6, <1>7, <1>8, <1>9
  DEF Next, Thread, LinkStep, CompressStep

LEMMA StepPlaced ==
  ASSUME Inv, [Next]_vars
  PROVE  Placed'
<1> USE DEF shared, locals, LinkLocations, LinkBody, CompressLocations
<1>0. TypeOK /\ Placed
  BY DEF Inv
<1>1. CASE UNCHANGED vars
  BY <1>0, <1>1 DEF vars, Placed
<1>2. ASSUME NEW t \in Threads, NEW n \in NodeID, TakeIteration(t, n)  PROVE Placed'
  <2>1. \A s \in Threads : pc[s] # "idle" => u[s] # n
    BY <1>0, <1>2 DEF TakeIteration, Placed
  <2> QED BY <1>0, <1>2, <2>1 DEF TakeIteration, Goto, Placed, TypeOK
<1>3. ASSUME NEW t \in Threads, SkipLargest(t) \/ NoMoreNeighbors(t) \/ Crawl(t)
      PROVE  Placed'
  <2>1. CASE EndIteration(t) /\ UNCHANGED <<phase, todo>>
    BY <1>0, <2>1 DEF EndIteration, Goto, Placed, TypeOK
  <2>2. CASE pc[t] = "skip" /\ Goto(t, "next") /\ UNCHANGED <<phase, todo, u>>
    BY <1>0, <2>2 DEF Goto, Placed, TypeOK
  <2>3. CASE pc[t] = "crawl" /\ Goto(t, "reread") /\ UNCHANGED <<phase, todo, u>>
    BY <1>0, <2>3 DEF Goto, Placed, TypeOK
  <2> QED BY <1>3, <2>1, <2>2, <2>3 DEF SkipLargest, NoMoreNeighbors, Crawl
<1>4. ASSUME NEW t \in Threads, LinkStep(t)  PROVE Placed'
  <2>1. /\ UNCHANGED <<phase, todo, u>>
        /\ \E l \in LinkLocations : pc' = [pc EXCEPT ![t] = l]
        /\ pc[t] \in LinkLocations
    BY <1>0, <1>4
    DEF LinkStep, ReadP1, ReadP2, ReadHigh, CompareAndSwap, ReadParent,
        ReadGrandparent, RereadLow, Test, Return, Goto
  <2> QED BY <1>0, <2>1 DEF Placed, TypeOK
<1>5. ASSUME NEW t \in Threads, Reread(t) \/ Store(t)  PROVE Placed'
  BY <1>0, <1>5 DEF Reread, Store, Goto, Placed, TypeOK
<1>6. CASE Barrier \/ SampleFrequentElement
  <2>1. \A t \in Threads : pc[t] = "idle"
    BY <1>0, <1>6
    DEF Barrier, LoopDone, SampleFrequentElement, Placed, TypeOK, Locations
  <2>2. UNCHANGED pc
    BY <1>6 DEF Barrier, SampleFrequentElement
  <2> QED BY <2>1, <2>2 DEF Placed
<1> QED BY <1>1, <1>2, <1>3, <1>4, <1>5, <1>6 DEF Next, Thread, CompressStep

-----------------------------------------------------------------------------
(* Link *)

\* A step that leaves the locals of t alone.
LEMMA LinkFrame ==
  ASSUME Inv, [Next]_vars, NEW t \in Threads,
         UNCHANGED <<graph, phase, r, pc[t], u[t], k[t], p1[t], p2[t], tmp[t]>>
  PROVE  LinkInv(t)'
<1>1. LinkInv(t)
  BY DEF Inv
<1>2. \A x, y : SameTree(comp, x, y) => SameTree(comp', x, y)
  BY TreesGrow
<1> QED
  BY <1>1, <1>2
  DEF LinkInv, LinkedUpTo, Ends, FirstNeighbor, LastNeighbor, Neighbor, High

\* Link returns: the edge is in the trees.
LEMMA LinkReturn ==
  ASSUME Inv, [Next]_vars, NEW t \in Threads,
         pc[t] \in {"readP2"} \union LinkBody,
         UNCHANGED <<graph, phase, r, u, k>>, Return(t),
         SameTree(comp', u[t], Neighbor(u[t], k[t]))
  PROVE  LinkInv(t)'
<1> DEFINE n == u[t]  m == k[t]
<1>1. LinkInv(t) /\ TypeOK
  BY DEF Inv
<1>2. n \in NodeID /\ m \in (FirstNeighbor(n) + 1) .. LastNeighbor(n)
  BY <1>1 DEF LinkInv, TypeOK
<1>3. FirstNeighbor(n) \in Nat /\ LastNeighbor(n) \in Nat
  BY <1>1, <1>2, NeighborPositions
<1>4. /\ pc'[t] = "next" /\ u'[t] = n /\ k'[t] = m
      /\ FirstNeighbor(n)' = FirstNeighbor(n) /\ LastNeighbor(n)' = LastNeighbor(n)
      /\ \A i : Neighbor(n, i)' = Neighbor(n, i)
  BY <1>1 DEF Return, Goto, TypeOK, FirstNeighbor, LastNeighbor, Neighbor
<1>5. \A i \in (FirstNeighbor(n) + 1) .. (m - 1) : SameTree(comp', n, Neighbor(n, i))
  BY <1>1, TreesGrow DEF LinkInv, LinkedUpTo
<1>6. \A i \in (FirstNeighbor(n) + 1) .. m : SameTree(comp', n, Neighbor(n, i))
  BY <1>2, <1>3, <1>5
<1>7. LinkedUpTo(u[t], k[t])'
  BY <1>4, <1>6 DEF LinkedUpTo
<1>8. k'[t] \in FirstNeighbor(u[t])' .. LastNeighbor(u[t])'
  BY <1>2, <1>3, <1>4
<1> HIDE DEF n, m
<1> QED BY <1>4, <1>7, <1>8 DEF LinkInv, LinkBody

\* Link goes on with the same edge: what is known of its ends and of the
\* neighbours before it stays known.
LEMMA LinkContinue ==
  ASSUME Inv, [Next]_vars, NEW t \in Threads, NEW l \in LinkBody,
         pc[t] \in {"readP2"} \union LinkBody, Goto(t, l),
         UNCHANGED <<graph, phase, r, u, k>>,
         p1'[t] # p2'[t], Ends(t)',
         l \in {"readGrandparent", "rereadLow"} => SameTree(comp, tmp[t], High(t))'
  PROVE  LinkInv(t)'
<1>1. LinkInv(t) /\ TypeOK
  BY DEF Inv
<1>2. /\ k[t] \in (FirstNeighbor(u[t]) + 1) .. LastNeighbor(u[t])
      /\ LinkedUpTo(u[t], k[t] - 1)
  BY <1>1 DEF LinkInv
<1>3. pc'[t] = l /\ l \notin {"skip", "next", "readP2"}
  BY <1>1 DEF Goto, TypeOK, LinkBody
<1>4. LinkedUpTo(u[t], k[t] - 1)'
  BY <1>2, TreesGrow DEF LinkedUpTo, FirstNeighbor, Neighbor
<1>5. (k[t] \in (FirstNeighbor(u[t]) + 1) .. LastNeighbor(u[t]))'
  BY <1>2 DEF FirstNeighbor, LastNeighbor
<1> QED BY <1>3, <1>4, <1>5 DEF LinkInv

\* The loop test, on values from the trees of the two ends of the edge.
LEMMA LinkTest ==
  ASSUME Inv, [Next]_vars, NEW t \in Threads,
         pc[t] \in {"readP2"} \union LinkBody, UNCHANGED <<shared, u, k>>,
         NEW a, NEW b, Test(t, a, b),
         LET v == Neighbor(u[t], k[t]) IN
           \/ SameTree(comp, a, u[t]) /\ SameTree(comp, b, v)
           \/ SameTree(comp, a, v) /\ SameTree(comp, b, u[t])
  PROVE  LinkInv(t)'
<1> DEFINE v == Neighbor(u[t], k[t])
<1>1. comp' = comp /\ UNCHANGED <<graph, phase, r>> /\ TypeOK
  BY DEF shared, Inv
<1>2. CASE a = b
  <2>1. SameTree(comp, u[t], v)
    BY <1>2, SameTreeSymmetric, SameTreeTransitive
  <2> QED BY <1>1, <1>2, <2>1, LinkReturn DEF Test
<1>3. CASE a # b
  <2>1. p1'[t] = a /\ p2'[t] = b /\ Goto(t, "readHigh")
    BY <1>1, <1>3 DEF Test, TypeOK
  <2>2. Ends(t)'
    BY <1>1, <2>1 DEF Ends, Neighbor
  <2> QED BY <1>1, <1>3, <2>1, <2>2, LinkContinue DEF LinkBody
<1> QED BY <1>2, <1>3

LEMMA StepLink ==
  ASSUME Inv, [Next]_vars
  PROVE  \A t \in Threads : LinkInv(t)'
<1>0. TypeOK /\ (\A t \in Threads : LinkInv(t))
  BY DEF Inv
<1>1. ASSUME NEW t \in Threads,
             UNCHANGED vars \/ (\E s \in Threads : s # t /\ Thread(s))
      PROVE  LinkInv(t)'
  <2>1. UNCHANGED <<graph, phase, r, pc[t], u[t], k[t], p1[t], p2[t], tmp[t]>>
    BY <1>0, <1>1
    DEF vars, shared, locals, Thread, LinkStep, CompressStep, TakeIteration,
        SkipLargest, NoMoreNeighbors, ReadP1, ReadP2, ReadHigh, CompareAndSwap,
        ReadParent, ReadGrandparent, RereadLow, Crawl, Reread, Store,
        Test, Return, EndIteration, Goto, TypeOK
  <2> QED BY <2>1, LinkFrame
<1>2. ASSUME NEW t \in Threads, NEW n \in NodeID, TakeIteration(t, n)
      PROVE  LinkInv(t)'
  <2>1. FirstNeighbor(n) \in Nat /\ LastNeighbor(n) \in Nat
        /\ FirstNeighbor(n) <= LastNeighbor(n)
    BY <1>0, NeighborPositions
  <2>2. /\ u'[t] = n /\ pc'[t] \in {"next", "skip", "crawl"}
        /\ pc'[t] \in {"next", "skip"} => k'[t] = FirstNeighbor(n)
        /\ FirstNeighbor(n)' = FirstNeighbor(n) /\ LastNeighbor(n)' = LastNeighbor(n)
    BY <1>0, <1>2
    DEF TakeIteration, Goto, TypeOK, FirstNeighbor, LastNeighbor
  <2> QED BY <2>1, <2>2 DEF LinkInv, LinkedUpTo, LinkBody
<1>3. ASSUME NEW t \in Threads,
             \/ pc[t] # "skip" /\ EndIteration(t)
             \/ SkipLargest(t) /\ comp[u[t]] = c
             \/ CompressStep(t)
      PROVE  LinkInv(t)'
  <2>1. pc'[t] \in {"idle", "crawl", "reread", "store"}
    BY <1>0, <1>3
    DEF EndIteration, SkipLargest, CompressStep, Crawl, Reread, Store, Goto, TypeOK
  <2> QED BY <2>1 DEF LinkInv, LinkBody
<1>4. ASSUME NEW t \in Threads, SkipLargest(t), comp[u[t]] # c
      PROVE  LinkInv(t)'
  <2>1. u[t] \in NodeID /\ k[t] = FirstNeighbor(u[t])
    BY <1>0, <1>4 DEF SkipLargest, LinkInv, TypeOK
  <2>2. FirstNeighbor(u[t]) \in Nat /\ LastNeighbor(u[t]) \in Nat
        /\ FirstNeighbor(u[t]) <= LastNeighbor(u[t])
    BY <1>0, <2>1, NeighborPositions
  <2>3. /\ pc'[t] = "next" /\ k' = k /\ u' = u
        /\ FirstNeighbor(u[t])' = FirstNeighbor(u[t])
        /\ LastNeighbor(u[t])' = LastNeighbor(u[t])
    BY <1>0, <1>4
    DEF SkipLargest, Goto, TypeOK, FirstNeighbor, LastNeighbor, shared
  <2> QED BY <2>1, <2>2, <2>3 DEF LinkInv, LinkedUpTo, LinkBody
<1>5. ASSUME NEW t \in Threads, ReadP1(t)
      PROVE  LinkInv(t)'
  <2>1. u[t] \in NodeID /\ k[t] \in FirstNeighbor(u[t]) .. LastNeighbor(u[t])
        /\ LinkedUpTo(u[t], k[t]) /\ k[t] < LastNeighbor(u[t])
    BY <1>0, <1>5 DEF ReadP1, LinkInv, TypeOK
  <2>2. FirstNeighbor(u[t]) \in Nat /\ LastNeighbor(u[t]) \in Nat
    BY <1>0, <2>1, NeighborPositions
  <2>3. /\ pc'[t] = "readP2" /\ k'[t] = k[t] + 1 /\ u' = u /\ p1'[t] = comp[u[t]]
        /\ UNCHANGED <<comp, graph, phase, r>>
    BY <1>0, <1>5 DEF ReadP1, Goto, TypeOK, shared
  <2>4. LinkedUpTo(u[t], k[t] - 1)'
    BY <2>1, <2>2, <2>3 DEF LinkedUpTo, FirstNeighbor, Neighbor
  <2>5. (k[t] \in (FirstNeighbor(u[t]) + 1) .. LastNeighbor(u[t]))'
    <3>1. /\ FirstNeighbor(u[t])' = FirstNeighbor(u[t])
          /\ LastNeighbor(u[t])' = LastNeighbor(u[t])
      BY <2>3 DEF FirstNeighbor, LastNeighbor
    <3> QED BY <2>1, <2>2, <2>3, <3>1
  <2>6. SameTree(comp, p1[t], u[t])'
    BY <2>1, <2>3, SameTreeParent, SameTreeSymmetric
  <2> QED BY <2>3, <2>4, <2>5, <2>6 DEF LinkInv, LinkBody
<1>6. ASSUME NEW t \in Threads, ReadP2(t)
      PROVE  LinkInv(t)'
  <2> DEFINE v == Neighbor(u[t], k[t])
  <2>1. pc[t] = "readP2" /\ UNCHANGED <<shared, u, k>> /\ Test(t, p1[t], comp[v])
    BY <1>6 DEF ReadP2
  <2>2. SameTree(comp, p1[t], u[t])
    BY <1>0, <2>1 DEF LinkInv
  <2>3. SameTree(comp, comp[v], v)
    BY <2>1, LinkedEdge, SameTreeParent, SameTreeSymmetric
  <2> QED BY <2>1, <2>2, <2>3, LinkTest
<1>7. ASSUME NEW t \in Threads, ReadHigh(t)
      PROVE  LinkInv(t)'
  <2>1. /\ pc[t] = "readHigh" /\ UNCHANGED <<shared, u, k>>
        /\ pc[t] \in LinkBody /\ p1[t] # p2[t] /\ Ends(t)
    BY <1>0, <1>7 DEF ReadHigh, LinkInv, LinkBody
  <2>2. CASE comp[High(t)] = Low(t) /\ Return(t)
    <3>1. SameTree(comp, High(t), Low(t))
      BY <1>0, <2>2, HighLow, SameTreeParent
    <3>2. SameTree(comp, u[t], Neighbor(u[t], k[t]))
      BY <1>0, <2>1, <3>1, HighLow, SameTreeSymmetric, SameTreeTransitive DEF Ends
    <3> QED BY <2>1, <2>2, <3>2, LinkReturn DEF shared
  <2>3. CASE UNCHANGED <<p1, p2, tmp>> /\ (Goto(t, "cas") \/ Goto(t, "readParent"))
    <3>1. Ends(t)' /\ p1'[t] # p2'[t]
      BY <2>1, <2>3 DEF Ends, Neighbor, shared
    <3> QED BY <2>1, <2>3, <3>1, LinkContinue DEF shared, LinkBody
  <2> QED BY <1>7, <2>2, <2>3 DEF ReadHigh
<1>8. ASSUME NEW t \in Threads, CompareAndSwap(t)
      PROVE  LinkInv(t)'
  <2>1. /\ pc[t] = "cas" /\ UNCHANGED <<graph, phase, r, u, k>>
        /\ pc[t] \in LinkBody /\ p1[t] # p2[t] /\ Ends(t)
    BY <1>0, <1>8 DEF CompareAndSwap, LinkInv, LinkBody
  <2>2. CASE comp[High(t)] = High(t)
    <3>1. High(t) \in NodeID /\ comp'[High(t)] = Low(t)
      BY <1>0, <2>2, <1>8, HookStep, HighLow DEF TypeOK
    <3>2. SameTree(comp', High(t), Low(t))
      BY <3>1, SameTreeParent
    <3>3. LET v == Neighbor(u[t], k[t]) IN
            \/ SameTree(comp', p1[t], u[t]) /\ SameTree(comp', p2[t], v)
            \/ SameTree(comp', p1[t], v) /\ SameTree(comp', p2[t], u[t])
      BY <2>1, TreesGrow DEF Ends
    <3>4. SameTree(comp', u[t], Neighbor(u[t], k[t]))
      BY <1>0, <3>2, <3>3, HighLow, SameTreeSymmetric, SameTreeTransitive
    <3> QED BY <1>8, <2>1, <2>2, <3>4, LinkReturn DEF CompareAndSwap
  <2>3. CASE comp[High(t)] # High(t)
    <3>1. Goto(t, "readParent") /\ UNCHANGED <<comp, p1, p2, tmp>>
      BY <1>8, <2>3 DEF CompareAndSwap
    <3>2. Ends(t)' /\ p1'[t] # p2'[t]
      BY <2>1, <3>1 DEF Ends, Neighbor
    <3> QED BY <2>1, <3>1, <3>2, LinkContinue DEF LinkBody
  <2> QED BY <2>2, <2>3
<1>9. ASSUME NEW t \in Threads, ReadParent(t) \/ ReadGrandparent(t)
      PROVE  LinkInv(t)'
  <2>1. /\ UNCHANGED <<shared, u, k, p1, p2>> /\ UNCHANGED <<graph, phase, r, comp>>
        /\ pc[t] \in LinkBody /\ p1[t] # p2[t] /\ Ends(t)
    BY <1>0, <1>9 DEF ReadParent, ReadGrandparent, LinkInv, LinkBody, shared
  <2>2. Ends(t)' /\ p1'[t] # p2'[t] /\ High(t)' = High(t)
    BY <2>1 DEF Ends, Neighbor, High
  <2>3. High(t) \in NodeID /\ tmp[t] \in NodeID
    BY <1>0, HighLow DEF TypeOK
  <2>4. SameTree(comp, tmp'[t], High(t))
    <3>1. CASE ReadParent(t)
      BY <1>0, <2>3, <3>1, SameTreeParent, SameTreeSymmetric DEF ReadParent, TypeOK
    <3>2. CASE ReadGrandparent(t)
      <4>1. tmp'[t] = comp[tmp[t]] /\ SameTree(comp, tmp[t], High(t))
        BY <1>0, <3>2 DEF ReadGrandparent, TypeOK, LinkInv
      <4>2. SameTree(comp, comp[tmp[t]], tmp[t])
        BY <2>3, SameTreeParent, SameTreeSymmetric
      <4> QED BY <4>1, <4>2, SameTreeTransitive
    <3> QED BY <1>9, <3>1, <3>2
  <2>5. SameTree(comp, tmp[t], High(t))'
    BY <2>1, <2>2, <2>4
  <2> QED
    BY <1>9, <2>1, <2>2, <2>5, LinkContinue
    DEF ReadParent, ReadGrandparent, LinkBody
<1>10. ASSUME NEW t \in Threads, RereadLow(t)
       PROVE  LinkInv(t)'
  <2>1. /\ pc[t] = "rereadLow" /\ UNCHANGED <<shared, u, k>>
        /\ pc[t] \in LinkBody /\ Ends(t) /\ Test(t, tmp[t], comp[Low(t)])
        /\ SameTree(comp, tmp[t], High(t))
    BY <1>0, <1>10 DEF RereadLow, LinkInv, LinkBody
  <2>2. SameTree(comp, comp[Low(t)], Low(t))
    BY <1>0, HighLow, SameTreeParent, SameTreeSymmetric
  <2>3. LET v == Neighbor(u[t], k[t]) IN
          \/ SameTree(comp, tmp[t], u[t]) /\ SameTree(comp, comp[Low(t)], v)
          \/ SameTree(comp, tmp[t], v) /\ SameTree(comp, comp[Low(t)], u[t])
    BY <1>0, <2>1, <2>2, HighLow, SameTreeTransitive DEF Ends
  <2> QED BY <2>1, <2>3, LinkTest
<1>11. ASSUME NEW t \in Threads, Barrier \/ SampleFrequentElement
       PROVE  LinkInv(t)'
  <2>1. Placed /\ UNCHANGED pc
    BY <1>11 DEF Inv, Barrier, SampleFrequentElement, locals
  <2>2. pc'[t] = "idle"
    BY <1>0, <1>11, <2>1
    DEF Barrier, LoopDone, SampleFrequentElement, Placed, TypeOK, Locations,
        LinkLocations, LinkBody, CompressLocations
  <2> QED BY <2>2 DEF LinkInv, LinkBody
<1> QED
  BY <1>1, <1>2, <1>3, <1>4, <1>5, <1>6, <1>7, <1>8, <1>9, <1>10, <1>11
  DEF Next, Thread, LinkStep, NoMoreNeighbors, SkipLargest

-----------------------------------------------------------------------------
(* Compress *)

LEMMA StepCompress ==
  ASSUME Inv, [Next]_vars
  PROVE  \A t \in Threads : CompressInv(t)'
<1>0. /\ TypeOK /\ Placed /\ Descends
      /\ \A t \in Threads : CompressInv(t)
      /\ comp \in [NodeID -> NodeID] /\ u \in [Threads -> NodeID]
  BY DEF Inv, TypeOK
<1>1. ASSUME NEW t \in Threads,
             UNCHANGED <<pc[t], u[t], tmp[t]>>,
             pc[t] \in {"reread", "store"} => comp'[u[t]] = comp[u[t]]
      PROVE  CompressInv(t)'
  <2>1. CompressInv(t) /\ u[t] \in NodeID /\ u[t] \in Nat
    BY <1>0 DEF NodeID
  <2>2. \A S \in SUBSET NodeID :
          RespectsBelow(comp', S, u[t]) => RespectsBelow(comp, S, u[t])
    BY <2>1, CompGrows
  <2> QED BY <1>1, <2>1, <2>2 DEF CompressInv
<1>2. CASE UNCHANGED vars
  BY <1>1, <1>2 DEF vars, shared, locals
<1>3. ASSUME NEW t \in Threads, NEW s \in Threads, s # t, Thread(s)
      PROVE  CompressInv(t)'
  <2>1. UNCHANGED <<pc[t], u[t], tmp[t]>>
    BY <1>0, <1>3
    DEF Thread, LinkStep, CompressStep, TakeIteration, SkipLargest,
        NoMoreNeighbors, ReadP1, ReadP2, ReadHigh, CompareAndSwap, ReadParent,
        ReadGrandparent, RereadLow, Crawl, Reread, Store, Test, Return,
        EndIteration, Goto, TypeOK, shared
  <2>2. ASSUME pc[t] \in {"reread", "store"}  PROVE comp'[u[t]] = comp[u[t]]
    <3>1. phase \in {"compress", "finalCompress"}
      BY <1>0, <2>2 DEF Placed, CompressLocations
    <3>2. CASE comp' = comp
      BY <3>2
    <3>3. CASE CompareAndSwap(s)
      BY <1>0, <3>1, <3>3 DEF CompareAndSwap, Placed, LinkLocations, LinkBody
    <3>4. CASE Store(s)
      <4>1. u[s] # u[t]
        BY <1>0, <1>3, <2>2, <3>4 DEF Store, Placed
      <4> QED BY <1>0, <3>4, <4>1 DEF Store
    <3> QED
      BY <1>3, <3>2, <3>3, <3>4
      DEF Thread, LinkStep, CompressStep, TakeIteration, SkipLargest,
          NoMoreNeighbors, ReadP1, ReadP2, ReadHigh, ReadParent,
          ReadGrandparent, RereadLow, Crawl, Reread, shared
  <2> QED BY <1>1, <2>1, <2>2
<1>4. ASSUME NEW t \in Threads, pc'[t] \notin {"reread", "store"}
      PROVE  CompressInv(t)'
  BY <1>4 DEF CompressInv
<1>5. ASSUME NEW t \in Threads, Crawl(t)
      PROVE  CompressInv(t)'
  <2>1. CASE comp[u[t]] = comp[comp[u[t]]]
    BY <1>0, <1>4, <1>5, <2>1 DEF Crawl, EndIteration, Goto, TypeOK
  <2>2. CASE comp[u[t]] # comp[comp[u[t]]]
    BY <1>0, <1>5, <2>2 DEF Crawl, Goto, TypeOK, CompressInv, shared
  <2> QED BY <2>1, <2>2
<1>6. ASSUME NEW t \in Threads, Reread(t)
      PROVE  CompressInv(t)'
  <2> DEFINE n == u[t]
  <2>1. n \in NodeID /\ comp[n] \in NodeID /\ comp[comp[n]] \in NodeID
    BY <1>0
  <2>2. comp[n] < n
    BY <1>0, <1>6, <2>1 DEF Reread, CompressInv, Descends, NodeID
  <2>3. comp[comp[n]] <= comp[n]
    BY <1>0, <2>1 DEF Descends
  <2>4. /\ u' = u /\ comp' = comp /\ pc'[t] = "store" /\ tmp'[t] = comp[comp[n]]
    BY <1>0, <1>6 DEF Reread, Goto, TypeOK, shared
  <2>5. \A S \in SUBSET NodeID :
          RespectsBelow(comp, S, n) => (comp[n] \in S <=> comp[comp[n]] \in S)
    BY <2>1, <2>2 DEF RespectsBelow
  <2>6. comp[n] # n
    BY <2>1, <2>2 DEF NodeID
  <2> QED BY <2>3, <2>4, <2>5, <2>6 DEF CompressInv
<1>7. ASSUME NEW t \in Threads,
             \/ LinkStep(t) \/ Store(t) \/ NoMoreNeighbors(t) \/ SkipLargest(t)
             \/ \E n \in NodeID : TakeIteration(t, n)
      PROVE  CompressInv(t)'
  <2>1. pc'[t] \notin {"reread", "store"}
    BY <1>0, <1>7
    DEF LinkStep, TakeIteration, SkipLargest, NoMoreNeighbors, ReadP1, ReadP2,
        ReadHigh, CompareAndSwap, ReadParent, ReadGrandparent, RereadLow, Store,
        Test, Return, EndIteration, Goto, TypeOK
  <2> QED BY <1>4, <2>1
<1>8. CASE Barrier \/ SampleFrequentElement
  BY <1>1, <1>8 DEF Barrier, SampleFrequentElement, locals
<1> QED
  BY <1>2, <1>3, <1>5, <1>6, <1>7, <1>8 DEF Next, Thread, CompressStep

-----------------------------------------------------------------------------
(* The loops *)

\* A vertex becomes finished when the thread that took it ends its iteration.
LEMMA FinishedStep ==
  ASSUME Inv, NEW t \in Threads, Thread(t), NEW n \in NodeID, Finished(n)'
  PROVE  /\ UNCHANGED <<graph, phase, r, c>>
         /\ \/ Finished(n)
            \/ /\ EndIteration(t) /\ u[t] = n
               /\ SkipLargest(t) \/ NoMoreNeighbors(t) \/ Crawl(t)
<1>0. TypeOK
  BY DEF Inv
<1>1. ASSUME NEW m \in NodeID, TakeIteration(t, m)
      PROVE  UNCHANGED <<graph, phase, r, c>> /\ Finished(n)
  BY <1>0, <1>1 DEF TakeIteration, Goto, Finished, TypeOK
<1>2. ASSUME EndIteration(t), UNCHANGED shared
      PROVE  UNCHANGED <<graph, phase, r, c>> /\ (Finished(n) \/ u[t] = n)
  BY <1>0, <1>2 DEF EndIteration, Goto, Finished, TypeOK, shared
<1>3. ASSUME pc[t] # "idle", pc'[t] # "idle",
             UNCHANGED <<u, todo, graph, phase, r, c>>,
             \A s \in Threads : s # t => pc'[s] = pc[s]
      PROVE  UNCHANGED <<graph, phase, r, c>> /\ Finished(n)
  BY <1>0, <1>3 DEF Finished
<1>4. CASE SkipLargest(t) \/ NoMoreNeighbors(t) \/ Crawl(t)
  <2>1. CASE EndIteration(t) /\ UNCHANGED shared
    BY <1>2, <1>4, <2>1
  <2>2. CASE ~ EndIteration(t)
    BY <1>0, <1>3, <1>4, <2>2
    DEF SkipLargest, NoMoreNeighbors, Crawl, Goto, TypeOK, shared
  <2> QED BY <1>4, <2>1, <2>2 DEF SkipLargest, NoMoreNeighbors, Crawl
<1>5. CASE LinkStep(t) \/ Reread(t) \/ Store(t)
  BY <1>0, <1>3, <1>5
  DEF LinkStep, ReadP1, ReadP2, ReadHigh, CompareAndSwap, ReadParent,
      ReadGrandparent, RereadLow, Reread, Store, Test, Return, Goto, TypeOK, shared
<1> QED BY <1>1, <1>4, <1>5 DEF Thread, CompressStep

\* At a barrier every vertex is finished, and afterwards no vertex of a new
\* loop is.
LEMMA BarrierFinished ==
  ASSUME Inv, Barrier, NEW n \in NodeID
  PROVE  /\ Finished(n) /\ comp' = comp /\ graph' = graph
         /\ phase' # "done" /\ phase' # "sample" => ~ Finished(n)'
  BY DEF Barrier, LoopDone, Finished

\* The neighbours at the offsets of the sampling rounds are linked.
LEMMA SampledGrows ==
  ASSUME Inv, [Next]_vars, NEW n \in NodeID, NEW i \in Nat, NEW j \in Nat,
         graph' = graph, j <= i, Sampled(n, i)
  PROVE  Sampled(n, j)'
<1>1. TypeOK
  BY DEF Inv
<1>2. StartOffset(graph, n, j) <= StartOffset(graph, n, i)
      /\ StartOffset(graph, n, j) \in Nat /\ StartOffset(graph, n, i) \in Nat
  BY <1>1, Lists DEF StartOffset
<1> HIDE DEF StartOffset
<1>3. \A m \in 1 .. StartOffset(graph, n, j) : SameTree(comp', n, OutNeigh(graph, n)[m])
  BY <1>2, TreesGrow DEF Sampled
<1> QED BY <1>3 DEF Sampled

\* When the loop over the neighbours of u is exhausted, all of them are linked.
LEMMA AllNeighborsLinked ==
  ASSUME Inv, NEW t \in Threads, NoMoreNeighbors(t)
  PROVE  LinkedUpTo(u[t], LastNeighbor(u[t])) /\ u[t] \in NodeID
<1>1. TypeOK /\ LinkInv(t)
  BY DEF Inv
<1>2. /\ u[t] \in NodeID
      /\ k[t] \in FirstNeighbor(u[t]) .. LastNeighbor(u[t])
      /\ k[t] >= LastNeighbor(u[t])
      /\ LinkedUpTo(u[t], k[t])
  BY <1>1 DEF NoMoreNeighbors, LinkInv, TypeOK
<1>3. FirstNeighbor(u[t]) \in Nat /\ LastNeighbor(u[t]) \in Nat
  BY <1>1, <1>2, NeighborPositions
<1>4. k[t] = LastNeighbor(u[t])
  BY <1>2, <1>3
<1> QED BY <1>2, <1>4

LEMMA StepSampled ==
  ASSUME Inv, [Next]_vars
  PROVE  SampledInv'
<1>0. /\ TypeOK /\ Placed /\ SampledInv /\ r \in Nat /\ r + 1 \in Nat
      /\ NeighborRounds \in Nat /\ r + 1 <= NeighborRounds
  BY RoundsAssumption DEF Inv, TypeOK
<1> SUFFICES ASSUME NEW n \in NodeID  PROVE Sampled(n, RoundsDone(n))'
  BY DEF SampledInv
<1>1. Sampled(n, RoundsDone(n))
  BY <1>0 DEF SampledInv
<1>2. ASSUME NEW i \in Nat, RoundsDone(n)' <= i, RoundsDone(n)' \in Nat,
             Sampled(n, i), graph' = graph
      PROVE  Sampled(n, RoundsDone(n))'
  <2>1. \A j \in Nat : j <= i => Sampled(n, j)'
    BY <1>2, SampledGrows
  <2> QED BY <1>2, <2>1 DEF Sampled
<1>3. CASE UNCHANGED vars
  BY <1>1, <1>3 DEF vars, shared, locals, Sampled, RoundsDone, Finished
<1>4. ASSUME NEW t \in Threads, Thread(t)
      PROVE  Sampled(n, RoundsDone(n))'
  <2>1. UNCHANGED <<graph, phase, r, c>>
    BY <1>0, <1>4
    DEF Thread, LinkStep, CompressStep, TakeIteration, SkipLargest,
        NoMoreNeighbors, ReadP1, ReadP2, ReadHigh, CompareAndSwap, ReadParent,
        ReadGrandparent, RereadLow, Crawl, Reread, Store, shared
  <2>2. CASE phase # "link" \/ Finished(n) \/ ~ Finished(n)'
    <3>1. /\ RoundsDone(n)' \in Nat /\ RoundsDone(n) \in Nat
          /\ RoundsDone(n)' <= RoundsDone(n)
      BY <1>0, <2>1, <2>2 DEF RoundsDone
    <3> QED BY <1>1, <1>2, <2>1, <3>1
  <2>3. CASE phase = "link" /\ ~ Finished(n) /\ Finished(n)'
    <3>1. u[t] = n /\ NoMoreNeighbors(t)
      BY <1>0, <1>4, <2>3, FinishedStep
      DEF SkipLargest, Crawl, Placed, CompressLocations
    <3>2. LinkedUpTo(n, StartOffset(graph, n, r + 1))
      BY <2>3, <3>1, AllNeighborsLinked DEF LastNeighbor
    <3>3. Sampled(n, r)
      BY <1>1, <2>3 DEF RoundsDone
    <3>4. FirstNeighbor(n) = StartOffset(graph, n, r)
      BY <2>3 DEF FirstNeighbor
    <3>5. /\ StartOffset(graph, n, r) \in Nat /\ StartOffset(graph, n, r + 1) \in Nat
          /\ StartOffset(graph, n, r) <= OutDegree(graph, n)
          /\ StartOffset(graph, n, r + 1) <= OutDegree(graph, n)
          /\ OutDegree(graph, n) \in Nat
      BY <1>0, Lists DEF StartOffset
    <3>6. Sampled(n, r + 1)
      BY <3>2, <3>3, <3>4, <3>5 DEF Sampled, LinkedUpTo, Neighbor
    <3>7. RoundsDone(n)' = r + 1
      BY <2>1, <2>3 DEF RoundsDone
    <3> QED BY <1>0, <1>2, <2>1, <3>6, <3>7
  <2> QED BY <2>2, <2>3
<1>5. CASE Barrier
  <2>1. /\ Finished(n) /\ graph' = graph
        /\ phase' = "link" => ~ Finished(n)'
    BY <1>5, BarrierFinished
  <2>2. RoundsDone(n)' \in Nat /\ RoundsDone(n) \in Nat /\ RoundsDone(n)' <= RoundsDone(n)
    BY <1>0, <1>5, <2>1 DEF Barrier, RoundsDone, TypeOK, Phases
  <2> QED BY <1>1, <1>2, <2>1, <2>2
<1>6. CASE SampleFrequentElement
  <2>1. RoundsDone(n) = NeighborRounds /\ RoundsDone(n)' = NeighborRounds
    BY <1>6 DEF SampleFrequentElement, RoundsDone
  <2> QED BY <1>0, <1>1, <1>2, <1>6, <2>1 DEF SampleFrequentElement
<1> QED BY <1>3, <1>4, <1>5, <1>6 DEF Next

LEMMA StepFinal ==
  ASSUME Inv, [Next]_vars
  PROVE  FinalInv'
<1>0. TypeOK /\ Placed /\ FinalInv
  BY DEF Inv
<1> SUFFICES ASSUME phase' = "final", NEW n \in NodeID, Finished(n)'
             PROVE  SameTree(comp, n, c)' \/ LinkedUpTo(n, LastNeighbor(n))'
  BY DEF FinalInv
<1>1. ASSUME UNCHANGED <<graph, phase, r, c>>,
             SameTree(comp, n, c) \/ LinkedUpTo(n, LastNeighbor(n))
      PROVE  SameTree(comp, n, c)' \/ LinkedUpTo(n, LastNeighbor(n))'
  BY <1>1, TreesGrow DEF LinkedUpTo, FirstNeighbor, LastNeighbor, Neighbor
<1>2. CASE UNCHANGED vars
  <2>1. Finished(n) /\ phase = "final" /\ UNCHANGED <<graph, phase, r, c>>
    BY <1>2 DEF vars, shared, locals, Finished
  <2> QED BY <1>0, <1>1, <2>1 DEF FinalInv
<1>3. ASSUME NEW t \in Threads, Thread(t)
      PROVE  SameTree(comp, n, c)' \/ LinkedUpTo(n, LastNeighbor(n))'
  <2>1. UNCHANGED <<graph, phase, r, c>>
    BY <1>3, FinishedStep
  <2>2. CASE Finished(n)
    BY <1>0, <1>1, <2>1, <2>2 DEF FinalInv
  <2>3. CASE u[t] = n /\ NoMoreNeighbors(t)
    BY <1>1, <2>1, <2>3, AllNeighborsLinked
  <2>4. CASE u[t] = n /\ SkipLargest(t) /\ EndIteration(t)
    <3>1. comp[n] = c
      BY <1>0, <2>4 DEF SkipLargest, EndIteration, Goto, TypeOK
    <3> QED BY <1>1, <2>1, <3>1, SameTreeParent
  <2>5. CASE Crawl(t)
    BY <1>0, <2>1, <2>5 DEF Crawl, Placed, CompressLocations
  <2> QED BY <1>3, <2>2, <2>3, <2>4, <2>5, FinishedStep
<1>4. CASE Barrier
  BY <1>4 DEF Barrier
<1>5. CASE SampleFrequentElement
  BY <1>5 DEF SampleFrequentElement, Finished
<1> QED BY <1>2, <1>3, <1>4, <1>5 DEF Next

\* Both ends of an edge are finished in the final phase: one of them linked
\* the edge, now or in a sampling round, or both are in the tree of c.
LEMMA FinalEdges ==
  ASSUME Inv, phase = "final", NEW x \in NodeID, NEW y \in NodeID,
         Adjacent(graph, x, y), Finished(x), Finished(y)
  PROVE  SameTree(comp, x, y)
<1>0. TypeOK /\ SampledInv /\ FinalInv /\ NeighborRounds \in Nat /\ IsGraph(graph)
  BY RoundsAssumption DEF Inv, TypeOK
<1>1. ASSUME NEW m \in NodeID
      PROVE  /\ Sampled(m, NeighborRounds)
             /\ FirstNeighbor(m) = StartOffset(graph, m, NeighborRounds)
             /\ FirstNeighbor(m) \in Nat /\ FirstNeighbor(m) <= OutDegree(graph, m)
             /\ LastNeighbor(m) = OutDegree(graph, m)
                  + (IF graph.directed THEN InDegree(graph, m) ELSE 0)
             /\ OutDegree(graph, m) \in Nat /\ InDegree(graph, m) \in Nat
  <2>1. Sampled(m, NeighborRounds)
    BY <1>0 DEF SampledInv, RoundsDone
  <2> QED BY <1>0, <2>1, Lists DEF FirstNeighbor, LastNeighbor, StartOffset
\* The out-neighbours of a vertex that was not skipped are linked with it.
<1>2. ASSUME NEW m \in NodeID, LinkedUpTo(m, LastNeighbor(m)),
             NEW i \in 1 .. OutDegree(graph, m)
      PROVE  SameTree(comp, m, OutNeigh(graph, m)[i])
  <2>1. CASE i <= FirstNeighbor(m)
    BY <1>1, <2>1 DEF Sampled
  <2>2. CASE i > FirstNeighbor(m)
    <3>1. i \in (FirstNeighbor(m) + 1) .. LastNeighbor(m)
      BY <1>1, <2>2
    <3> QED BY <1>1, <1>2, <3>1 DEF LinkedUpTo, Neighbor
  <2> QED BY <1>1, <2>1, <2>2
\* So are its in-neighbours.
<1>3. ASSUME NEW m \in NodeID, LinkedUpTo(m, LastNeighbor(m)),
             NEW j \in 1 .. InDegree(graph, m)
      PROVE  SameTree(comp, m, InNeigh(graph, m)[j])
  <2>1. CASE graph.directed
    <3> DEFINE i == OutDegree(graph, m) + j
    <3>1. i \in (FirstNeighbor(m) + 1) .. LastNeighbor(m)
      BY <1>1, <2>1
    <3>2. Neighbor(m, i) = InNeigh(graph, m)[j]
      BY <1>1 DEF Neighbor
    <3> HIDE DEF i
    <3> QED BY <1>3, <3>1, <3>2 DEF LinkedUpTo
  <2>2. CASE ~ graph.directed
    BY <1>0, <1>2, <1>3, <2>2, Lists DEF OutDegree, InDegree
  <2> QED BY <2>1, <2>2
<1>4. ASSUME NEW a \in NodeID, NEW b \in NodeID, Finished(a), Finished(b),
             Occurs(b, OutNeigh(graph, a))
      PROVE  SameTree(comp, a, b)
  <2>1. PICK i \in 1 .. OutDegree(graph, a) : OutNeigh(graph, a)[i] = b
    BY <1>4 DEF Occurs, OutDegree
  <2>2. PICK j \in 1 .. InDegree(graph, b) : InNeigh(graph, b)[j] = a
    BY <1>0, <1>4 DEF IsGraph, Occurs, InDegree
  <2>3. CASE LinkedUpTo(a, LastNeighbor(a))
    BY <1>2, <2>1, <2>3
  <2>4. CASE LinkedUpTo(b, LastNeighbor(b))
    BY <1>3, <2>2, <2>4, SameTreeSymmetric
  <2>5. CASE SameTree(comp, a, c) /\ SameTree(comp, b, c)
    BY <2>5, SameTreeSymmetric, SameTreeTransitive
  <2> QED BY <1>0, <1>4, <2>3, <2>4, <2>5 DEF FinalInv
<1> QED BY <1>4, SameTreeSymmetric DEF Adjacent

LEMMA StepLinked ==
  ASSUME Inv, [Next]_vars
  PROVE  LinkedInv'
<1>0. LinkedInv
  BY DEF Inv
<1> SUFFICES ASSUME phase' \in {"finalCompress", "done"},
                    NEW x \in NodeID, NEW y \in NodeID, Adjacent(graph', x, y)
             PROVE  SameTree(comp', x, y)
  BY DEF LinkedInv
<1>1. CASE phase \in {"finalCompress", "done"} /\ graph' = graph
  BY <1>0, <1>1, TreesGrow DEF LinkedInv
<1>2. CASE phase = "final" /\ Barrier
  BY <1>2, BarrierFinished, FinalEdges
<1>3. CASE UNCHANGED <<graph, phase>>
  BY <1>1, <1>3
<1> QED
  BY <1>1, <1>2, <1>3
  DEF Next, Thread, LinkStep, CompressStep, TakeIteration, SkipLargest,
      NoMoreNeighbors, ReadP1, ReadP2, ReadHigh, CompareAndSwap, ReadParent,
      ReadGrandparent, RereadLow, Crawl, Reread, Store, Barrier,
      SampleFrequentElement, shared, vars

LEMMA StepFlat ==
  ASSUME Inv, [Next]_vars
  PROVE  FlatInv'
<1>0. /\ TypeOK /\ Placed /\ FlatInv /\ comp \in [NodeID -> NodeID]
      /\ \A t \in Threads : CompressInv(t)
  BY DEF Inv, TypeOK
<1> SUFFICES ASSUME NEW n \in NodeID,
                    \/ phase' \in {"compress", "finalCompress"} /\ Finished(n)'
                    \/ phase' = "done"
             PROVE  comp'[comp'[n]] = comp'[n]
  BY DEF FlatInv
<1>1. CASE UNCHANGED vars
  <2>1. UNCHANGED <<comp, phase>> /\ (Finished(n)' => Finished(n))
    BY <1>1 DEF vars, shared, locals, Finished
  <2> QED BY <1>0, <2>1 DEF FlatInv
<1>2. CASE Barrier
  <2>1. phase = "finalCompress" /\ phase' = "done"
    BY <1>2, BarrierFinished DEF Barrier
  <2> QED BY <1>0, <1>2, <2>1, BarrierFinished DEF FlatInv
<1>3. CASE SampleFrequentElement
  BY <1>3 DEF SampleFrequentElement
<1>4. ASSUME NEW t \in Threads, Thread(t)
      PROVE  comp'[comp'[n]] = comp'[n]
  <2>1. UNCHANGED phase
    BY <1>4
    DEF Thread, LinkStep, CompressStep, TakeIteration, SkipLargest,
        NoMoreNeighbors, ReadP1, ReadP2, ReadHigh, CompareAndSwap, ReadParent,
        ReadGrandparent, RereadLow, Crawl, Reread, Store, shared
  <2>2. phase # "done" /\ phase # "sample"
    BY <1>0, <1>4
    DEF Thread, LinkStep, CompressStep, TakeIteration, SkipLargest,
        NoMoreNeighbors, ReadP1, ReadP2, ReadHigh, CompareAndSwap, ReadParent,
        ReadGrandparent, RereadLow, Crawl, Reread, Store, Placed, TypeOK,
        LinkLocations, LinkBody, CompressLocations
  <2>3. phase \in {"compress", "finalCompress"} /\ Finished(n)'
    BY <2>1, <2>2
  <2>4. CASE Finished(n) /\ Store(t)
    <3>1. /\ u[t] \in NodeID /\ comp[u[t]] # u[t] /\ pc[t] # "idle"
          /\ comp' = [comp EXCEPT ![u[t]] = tmp[t]]
      BY <1>0, <2>4 DEF Store, CompressInv, TypeOK
    <3>2. comp[comp[n]] = comp[n]
      BY <1>0, <2>3, <2>4 DEF FlatInv
    <3>3. u[t] # n
      BY <2>4, <3>1 DEF Finished
    <3> QED BY <1>0, <3>1, <3>2, <3>3
  <2>5. CASE Finished(n) /\ comp' = comp
    BY <1>0, <2>3, <2>5 DEF FlatInv
  <2>6. CASE u[t] = n /\ Crawl(t) /\ EndIteration(t)
    <3>1. comp[n] = comp[comp[n]] /\ comp' = comp
      BY <1>0, <2>6 DEF Crawl, EndIteration, Goto, TypeOK, shared
    <3> QED BY <3>1
  <2>7. CASE SkipLargest(t) \/ NoMoreNeighbors(t) \/ CompareAndSwap(t)
    BY <1>0, <2>3, <2>7
    DEF SkipLargest, NoMoreNeighbors, CompareAndSwap, Placed, LinkLocations, LinkBody
  <2>8. comp' = comp \/ Store(t) \/ CompareAndSwap(t)
    BY <1>4
    DEF Thread, LinkStep, CompressStep, TakeIteration, SkipLargest,
        NoMoreNeighbors, ReadP1, ReadP2, ReadHigh, ReadParent, ReadGrandparent,
        RereadLow, Crawl, Reread, shared
  <2> QED BY <1>4, <2>3, <2>4, <2>5, <2>6, <2>7, <2>8, FinishedStep
<1> QED BY <1>1, <1>2, <1>3, <1>4 DEF Next

-----------------------------------------------------------------------------
(* The invariant, and what follows from it. *)

LEMMA InitInv == Init => Inv
<1> SUFFICES ASSUME Init  PROVE Inv
  OBVIOUS
<1>1. 0 \in NodeID /\ 0 \in 0 .. (NeighborRounds - 1)
  BY NAssumption, RoundsAssumption DEF NodeID
<1>2. TypeOK
  <2>1. IsGraph(graph)
    BY GraphsAssumption DEF Init
  <2> QED BY <1>1, <2>1 DEF Init, TypeOK, Phases, Locations
<1>3. Placed /\ FinalInv /\ LinkedInv /\ FlatInv
  BY DEF Init, Placed, FinalInv, LinkedInv, FlatInv, LinkLocations, LinkBody,
         CompressLocations
<1>4. Descends
  BY DEF Init, Descends, NodeID
<1>5. Sound
  BY SameComponentEquivalence DEF Init, Sound
<1>6. \A t \in Threads : LinkInv(t) /\ CompressInv(t)
  BY DEF Init, LinkInv, CompressInv, LinkBody
<1>7. SampledInv
  <2> SUFFICES ASSUME NEW n \in NodeID  PROVE Sampled(n, RoundsDone(n))
    BY DEF SampledInv
  <2>1. RoundsDone(n) = 0
    BY DEF Init, RoundsDone, Finished
  <2>2. StartOffset(graph, n, 0) = 0
    BY <1>2, Lists DEF StartOffset
  <2> QED BY <2>1, <2>2 DEF Sampled
<1> QED BY <1>2, <1>3, <1>4, <1>5, <1>6, <1>7 DEF Inv

LEMMA StepInv == Inv /\ [Next]_vars => Inv'
<1> SUFFICES ASSUME Inv, [Next]_vars  PROVE Inv'
  OBVIOUS
<1>1. Descends'
  <2>1. \A n \in NodeID : comp[n] <= n /\ comp'[n] <= comp[n]
                          /\ comp[n] \in NodeID /\ comp'[n] \in NodeID
    BY CompGrows DEF Inv, Descends, TypeOK
  <2> QED BY <2>1 DEF Descends, NodeID
<1>2. Sound'
  <2>1. graph' = graph
    BY DEF Next, Thread, LinkStep, CompressStep, TakeIteration, SkipLargest,
           NoMoreNeighbors, ReadP1, ReadP2, ReadHigh, CompareAndSwap, ReadParent,
           ReadGrandparent, RereadLow, Crawl, Reread, Store, Barrier,
           SampleFrequentElement, shared, vars
  <2> QED BY <2>1, CompGrows DEF Sound
<1> QED
  BY <1>1, <1>2, StepTypeOK, StepPlaced, StepLink, StepCompress, StepSampled,
     StepFinal, StepLinked, StepFlat
  DEF Inv

\* The inductive invariant holds in every state.
THEOREM Invariance == Spec => []Inv
  BY InitInv, StepInv, PTL DEF Spec

\* Every variable keeps its type: no index of comp, and no value read through
\* one, is ever outside the vertices.
THEOREM TypeCorrect == Spec => []TypeOK
<1>1. Inv => TypeOK
  BY DEF Inv
<1> QED BY <1>1, Invariance, PTL

\* Link and Compress never connect what the graph does not.
THEOREM Soundness == Spec => []Sound
<1>1. Inv => Sound
  BY DEF Inv
<1> QED BY <1>1, Invariance, PTL

\* When Afforest returns, labels are equal exactly within components, whichever
\* component the sample picked and however the threads interleaved.
THEOREM Correctness == Spec => []Correct
<1>1. Inv => Correct
  <2> SUFFICES ASSUME Inv, phase = "done", NEW x \in NodeID, NEW y \in NodeID
               PROVE  comp[x] = comp[y] <=> SameComponent(graph, x, y)
    BY DEF Correct
  <2>1. /\ Sound /\ comp \in [NodeID -> NodeID]
        /\ \A n \in NodeID : comp[comp[n]] = comp[n]
        /\ \A a, b \in NodeID : Adjacent(graph, a, b) => SameTree(comp, a, b)
    BY DEF Inv, FlatInv, LinkedInv, TypeOK
  <2>2. \A a, b \in NodeID : Adjacent(graph, a, b) => comp[a] = comp[b]
    BY <2>1, FlatTree
  <2> QED BY <2>1, <2>2, LabelsAreComponents DEF Sound
<1> QED BY <1>1, Invariance, PTL

\* CCVerifier accepts the labels, and by VerifierExact it accepts no others that
\* divide the vertices differently.
THEOREM Accepted == Spec => [](phase = "done" => CCVerifier(graph, comp))
<1>1. Correct => (phase = "done" => CCVerifier(graph, comp))
  BY VerifierExact DEF Correct
<1> QED BY <1>1, Correctness, PTL

\* The label of a component is its smallest vertex.
THEOREM LowestLabels == Spec => []LowestLabel
<1>1. Inv /\ Correct => LowestLabel
  BY DEF Inv, Correct, LowestLabel, Descends
<1> QED BY <1>1, Invariance, Correctness, PTL

\* Skipping the vertices of the sampled component loses no edge.
THEOREM SkippingIsSafe == Spec => []SkipIsSafe
<1>1. Inv => SkipIsSafe
  BY FinalEdges DEF SkipIsSafe
<1> QED BY <1>1, Invariance, PTL

\* No stale value moves a parent pointer up.
THEOREM Descent == Spec => ParentsDescend
<1>1. Inv /\ [Next]_vars => [\A n \in NodeID : comp'[n] <= comp[n]]_vars
  BY CompGrows
<1> QED BY <1>1, Invariance, PTL DEF Spec, ParentsDescend

\* Compress leaves trees of depth 1.
THEOREM Flatness == Spec => CompressFlattens
<1>1. Inv /\ [Next]_vars =>
        [(phase \in {"compress", "finalCompress"} /\ phase' # phase)
          => \A n \in NodeID : comp[comp[n]] = comp[n]]_vars
  <2> SUFFICES ASSUME Inv, [Next]_vars, phase \in {"compress", "finalCompress"},
                      phase' # phase, NEW n \in NodeID
               PROVE  comp[comp[n]] = comp[n]
    OBVIOUS
  <2>1. Barrier
    BY DEF Next, Thread, LinkStep, CompressStep, TakeIteration, SkipLargest,
           NoMoreNeighbors, ReadP1, ReadP2, ReadHigh, CompareAndSwap, ReadParent,
           ReadGrandparent, RereadLow, Crawl, Reread, Store,
           SampleFrequentElement, shared, vars
  <2> QED BY <2>1, BarrierFinished DEF Inv, FlatInv
<1> QED BY <1>1, Invariance, PTL DEF Spec, CompressFlattens

-----------------------------------------------------------------------------
(* The refinement of ComponentMerging. *)

\* The classes are the trees.
LEMMA ClassesAreTrees ==
  ASSUME Inv, NEW n \in NodeID
  PROVE  TreeOf(comp, n) = {y \in NodeID : SameTree(comp, n, y)}
  BY TreeOfIsTree DEF Inv, TypeOK, Descends

\* ComponentMerging sees the same graph.
LEMMA SameView ==
  /\ Merging!NodeID = NodeID
  /\ \A g, x, y : Merging!Adjacent(g, x, y) <=> Adjacent(g, x, y)
  BY DEF NodeID, Merging!NodeID, Adjacent, Merging!Adjacent, Occurs, Merging!Occurs,
         OutNeigh, Merging!OutNeigh

\* The trees of the initial array have one vertex each.
LEMMA InitMerges == Init => Merging!CInit
<1> SUFFICES ASSUME Init  PROVE Merging!CInit
  OBVIOUS
<1>1. ASSUME NEW n \in NodeID  PROVE TreeOf(comp, n) = {n}
  <2>1. ASSUME NEW y \in NodeID, SameTree(comp, n, y)  PROVE y = n
    <3>1. Respects(comp, {n}) /\ {n} \in SUBSET NodeID
      BY DEF Init, Respects, RespectsBelow
    <3> QED BY <2>1, <3>1 DEF SameTree
  <2> QED BY <2>1, InitInv, ClassesAreTrees, SameTreeReflexive
<1> QED BY <1>1, SameView DEF Init, Merging!CInit

\* Steps that leave comp alone change no class, and give no answer but at the end.
LEMMA QuietSteps ==
  ASSUME comp' = comp, graph' = graph, phase' = "done" <=> phase = "done"
  PROVE  UNCHANGED Merging!cvars
  BY DEF Merging!cvars, TreeOf, Root, Climb

\* A successful compare_and_swap unites the classes of the ends of the edge.
LEMMA HookMerges ==
  ASSUME Inv, Inv', NEW t \in Threads, CompareAndSwap(t), comp[High(t)] = High(t)
  PROVE  [Merging!CNext]_(Merging!cvars)
<1> DEFINE x == u[t]
           y == Neighbor(u[t], k[t])
           h == High(t)
           low == Low(t)
           both == TreeOf(comp, x) \union TreeOf(comp, y)
<1>1. TypeOK /\ LinkInv(t) /\ Placed /\ comp \in [NodeID -> NodeID] /\ pc[t] = "cas"
  BY DEF Inv, TypeOK, CompareAndSwap
<1>2. /\ x \in NodeID /\ y \in NodeID /\ Adjacent(graph, x, y)
      /\ h \in NodeID /\ low \in NodeID
  BY <1>1, LinkedEdge, HighLow DEF LinkBody
<1>3. comp' = [comp EXCEPT ![h] = low] /\ graph' = graph /\ phase' = phase
  BY HookStep DEF CompareAndSwap
<1>4. phase # "done"
  BY <1>1 DEF Placed, LinkLocations, LinkBody
<1>5. ASSUME NEW z \in NodeID
      PROVE  z \in both <=> SameTree(comp, h, z) \/ SameTree(comp, low, z)
  <2>1. \/ SameTree(comp, h, x) /\ SameTree(comp, low, y)
        \/ SameTree(comp, h, y) /\ SameTree(comp, low, x)
    <3>1. Ends(t)
      BY <1>1 DEF LinkInv, LinkBody
    <3> QED BY <1>1, <3>1, HighLow DEF Ends
  <2>2. z \in both <=> SameTree(comp, x, z) \/ SameTree(comp, y, z)
    BY <1>2, ClassesAreTrees
  <2> HIDE DEF x, y, h, low, both
  <2> QED BY <2>1, <2>2, SameTreeSymmetric, SameTreeTransitive
<1>6. ASSUME NEW n \in NodeID
      PROVE  TreeOf(comp, n)' = IF n \in both THEN both ELSE TreeOf(comp, n)
  <2>1. TreeOf(comp, n)' = {z \in NodeID : SameTree(comp', n, z)}
    <3>1. comp' \in [NodeID -> NodeID] /\ \A m \in NodeID : comp'[m] <= m
      BY DEF Inv, TypeOK, Descends
    <3>2. TreeOf(comp', n) = {z \in NodeID : SameTree(comp', n, z)}
      BY <3>1, TreeOfIsTree
    <3> QED BY <3>2 DEF TreeOf, Root, Climb
  <2>2. \A z \in NodeID : SameTree(comp', n, z) <=>
                            SameTree(comp, n, z) \/ (n \in both /\ z \in both)
    BY <1>1, <1>2, <1>3, <1>5, HookUnites
  <2>3. TreeOf(comp, n) = {z \in NodeID : SameTree(comp, n, z)}
    BY ClassesAreTrees
  <2>4. n \in both => \A z \in NodeID : SameTree(comp, n, z) => z \in both
    <3> HIDE DEF both, x, y, h, low
    <3> QED BY <1>5, SameTreeTransitive
  <2>5. both \subseteq NodeID
    BY DEF TreeOf
  <2> HIDE DEF both, x, y, h, low
  <2> QED BY <2>1, <2>2, <2>3, <2>4, <2>5
<1> DEFINE class == [n \in NodeID |-> TreeOf(comp, n)]
<1>7. class' = [n \in NodeID |-> IF n \in both THEN both ELSE class[n]]
  <2>1. class' = [n \in NodeID |-> TreeOf(comp, n)']
    OBVIOUS
  <2> HIDE DEF both
  <2> QED BY <1>6, <2>1
<1>8. class[x] = TreeOf(comp, x) /\ class[y] = TreeOf(comp, y)
  BY <1>2
<1>9. CASE class[x] # class[y]
  <2>1. Merging!Unite(x, y)
    <3> HIDE DEF x, y
    <3> QED BY <1>3, <1>4, <1>7, <1>8, <1>9, SameView DEF Merging!Unite
  <2> QED BY <1>2, <2>1, SameView DEF Merging!CNext
<1>10. CASE class[x] = class[y]
  <2>1. both = class[x]
    BY <1>8, <1>10
  <2>2. ASSUME NEW n \in NodeID, n \in both  PROVE class[n] = both
    <3>1. SameTree(comp, x, n)
      BY <1>2, <1>8, <2>1, <2>2, ClassesAreTrees
    <3>2. \A z : SameTree(comp, x, z) <=> SameTree(comp, n, z)
      <4> HIDE DEF x
      <4> QED BY <3>1, SameTreeSymmetric, SameTreeTransitive
    <3> QED BY <1>2, <1>8, <2>1, <2>2, <3>2, ClassesAreTrees
  <2>3. class' = class
    <3> HIDE DEF both
    <3> QED BY <1>7, <2>2
  <2> QED BY <1>3, <1>4, <2>3 DEF Merging!cvars
<1> QED BY <1>9, <1>10

\* A store of Compress changes no class.
LEMMA StoreMerges ==
  ASSUME Inv, Inv', NEW t \in Threads, Store(t)
  PROVE  UNCHANGED Merging!cvars
<1>1. comp \in [NodeID -> NodeID] /\ u[t] \in NodeID /\ tmp[t] \in NodeID
  BY DEF Inv, TypeOK
<1>2. /\ comp' = [comp EXCEPT ![u[t]] = tmp[t]] /\ UNCHANGED <<graph, phase>>
      /\ \A S \in SUBSET NodeID :
           RespectsBelow(comp, S, u[t]) => (comp[u[t]] \in S <=> tmp[t] \in S)
  BY DEF Inv, CompressInv, Store
<1>3. ASSUME NEW n \in NodeID  PROVE TreeOf(comp, n)' = TreeOf(comp, n)
  <2>1. comp' \in [NodeID -> NodeID] /\ \A m \in NodeID : comp'[m] <= m
    BY DEF Inv, TypeOK, Descends
  <2>2. TreeOf(comp', n) = {z \in NodeID : SameTree(comp', n, z)}
    BY <2>1, TreeOfIsTree
  <2>3. TreeOf(comp, n)' = TreeOf(comp', n)
    BY DEF TreeOf, Root, Climb
  <2>4. \A z : SameTree(comp', n, z) <=> SameTree(comp, n, z)
    BY <1>1, <1>2, ShortcutKeepsTrees
  <2> QED BY <2>2, <2>3, <2>4, ClassesAreTrees
<1>4. [n \in NodeID |-> TreeOf(comp, n)]' = [n \in NodeID |-> TreeOf(comp, n)]
  <2>1. [n \in NodeID |-> TreeOf(comp, n)]' = [n \in NodeID |-> TreeOf(comp, n)']
    OBVIOUS
  <2> QED BY <1>3, <2>1
<1>5. phase # "done"
  BY DEF Inv, Placed, Store, CompressLocations
<1> QED BY <1>2, <1>4, <1>5 DEF Merging!cvars

\* The last barrier gives the answer.
LEMMA LastBarrierAnswers ==
  ASSUME Inv, Barrier, phase = "finalCompress"
  PROVE  Merging!Answer
<1>1. /\ comp \in [NodeID -> NodeID] /\ Descends /\ LinkedInv
      /\ comp' = comp /\ graph' = graph /\ phase' = "done"
  BY DEF Inv, TypeOK, Barrier
<1>2. \A n \in NodeID : comp[comp[n]] = comp[n]
  BY BarrierFinished DEF Inv, FlatInv
<1> DEFINE class == [n \in NodeID |-> TreeOf(comp, n)]
<1>3. ASSUME NEW a \in NodeID, NEW b \in NodeID, Adjacent(graph, a, b)
      PROVE  class[a] = class[b]
  <2>1. SameTree(comp, a, b)
    BY <1>1, <1>3 DEF LinkedInv
  <2>2. \A z : SameTree(comp, a, z) <=> SameTree(comp, b, z)
    BY <2>1, SameTreeSymmetric, SameTreeTransitive
  <2> QED BY <2>2, ClassesAreTrees
<1>4. ASSUME NEW n \in NodeID  PROVE Merging!Min(class[n]) = comp[n]
  <2>1. comp[n] \in class[n]
    BY <1>1, ClassesAreTrees, SameTreeParent
  <2>2. ASSUME NEW y \in class[n]  PROVE comp[n] <= y /\ y \in NodeID
    <3>1. y \in NodeID /\ SameTree(comp, n, y)
      BY ClassesAreTrees
    <3>2. comp[n] = comp[y]
      BY <1>1, <1>2, <3>1, FlatTree
    <3> QED BY <1>1, <3>1, <3>2 DEF Descends
  <2> HIDE DEF class
  <2>3. \A z \in class[n] : (\A y \in class[n] : z <= y) => z = comp[n]
    <3> TAKE z \in class[n]
    <3> HAVE \A y \in class[n] : z <= y
    <3>1. z \in Int /\ comp[n] \in Int /\ z <= comp[n] /\ comp[n] <= z
      BY <1>1, <2>1, <2>2 DEF NodeID
    <3> QED BY <3>1
  <2> QED BY <2>1, <2>2, <2>3 DEF Merging!Min
<1>5. comp' = [n \in NodeID |-> Merging!Min(class[n])]
  <2> HIDE DEF class
  <2> QED BY <1>1, <1>4
<1>6. class' = class
  BY <1>1 DEF TreeOf, Root, Climb
<1> QED BY <1>1, <1>3, <1>5, <1>6, SameView DEF Merging!Answer

\* Once done, the program does nothing; only the last barrier ends it.
LEMMA DoneStays ==
  ASSUME Inv, [Next]_vars
  PROVE  /\ graph' = graph
         /\ phase = "done" => phase' = "done" /\ comp' = comp
         /\ phase # "done" /\ phase' = "done" => Barrier /\ phase = "finalCompress"
<1>1. Placed /\ phase \in Phases
  BY DEF Inv, TypeOK
<1>2. CASE UNCHANGED vars
  BY <1>2 DEF vars, shared
<1>3. ASSUME NEW t \in Threads, Thread(t)
      PROVE  graph' = graph /\ phase # "done" /\ phase' = phase
  BY <1>1, <1>3
  DEF Thread, LinkStep, CompressStep, TakeIteration, SkipLargest, NoMoreNeighbors, ReadP1,
      ReadP2, ReadHigh, CompareAndSwap, ReadParent, ReadGrandparent, RereadLow, Crawl, Reread,
      Store, Placed, shared, LinkLocations, LinkBody, CompressLocations
<1>4. CASE Barrier \/ SampleFrequentElement
  BY <1>4 DEF Barrier, SampleFrequentElement
<1> QED BY <1>2, <1>3, <1>4 DEF Next

\* Afforest implements ComponentMerging: every successful compare_and_swap
\* unites the classes of the two ends of an edge, nothing else changes a class,
\* and the answer names the smallest vertex of every class when no edge joins
\* two of them.
THEOREM Refinement == Spec => RefinesMerging
<1>1. Inv /\ Inv' /\ [Next]_vars => [Merging!CNext]_(Merging!cvars)
  <2> SUFFICES ASSUME Inv, Inv', [Next]_vars
               PROVE  [Merging!CNext]_(Merging!cvars)
    OBVIOUS
  <2>1. ASSUME NEW t \in Threads, CompareAndSwap(t), comp[High(t)] = High(t)
        PROVE  [Merging!CNext]_(Merging!cvars)
    BY <2>1, HookMerges
  <2>2. ASSUME NEW t \in Threads, Store(t)  PROVE [Merging!CNext]_(Merging!cvars)
    BY <2>2, StoreMerges
  <2>3. CASE comp' = comp /\ (phase' = "done" <=> phase = "done")
    BY <2>3, QuietSteps, DoneStays
  <2>4. CASE phase # "done" /\ phase' = "done"
    BY <2>4, DoneStays, LastBarrierAnswers DEF Merging!CNext
  <2> QED BY <2>1, <2>2, <2>3, <2>4, CompStep, DoneStays
<1> QED BY <1>1, InitMerges, Invariance, PTL DEF Spec, RefinesMerging, Merging!CSpec
=============================================================================
