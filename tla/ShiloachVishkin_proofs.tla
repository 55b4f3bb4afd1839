----------------------- MODULE ShiloachVishkin_proofs -----------------------
(***************************************************************************)
(* Proofs of the properties of ShiloachVishkin, for every number of        *)
(* vertices, set of graphs and set of threads.                             *)
(***************************************************************************)
EXTENDS ShiloachVishkin, CommonFacts

\* The neighbour lists of the graph.
LEMMA Lists ==
  ASSUME TypeOK, NEW n \in NodeID
  PROVE  /\ OutDegree(graph, n) \in Nat
         /\ \A i \in 1 .. OutDegree(graph, n) :
              /\ OutNeigh(graph, n)[i] \in NodeID
              /\ Adjacent(graph, n, OutNeigh(graph, n)[i])
<1>1. OutNeigh(graph, n) \in Seq(NodeID)
  BY DEF TypeOK, IsGraph, OutNeigh
<1>2. OutDegree(graph, n) \in Nat
  BY <1>1 DEF OutDegree
<1>3. ASSUME NEW i \in 1 .. OutDegree(graph, n)
      PROVE  OutNeigh(graph, n)[i] \in NodeID /\ Adjacent(graph, n, OutNeigh(graph, n)[i])
  BY <1>1, <1>3 DEF OutDegree, Adjacent, Occurs
<1> QED BY <1>2, <1>3

\* What the locals of a thread in the first loop stand for.
LEMMA Ends ==
  ASSUME Inv, NEW t \in Threads, pc[t] \in Reading
  PROVE  /\ u[t] \in NodeID /\ k[t] \in 1 .. OutDegree(graph, u[t])
         /\ Neighbor(t) \in NodeID
         /\ SameComponent(graph, u[t], Neighbor(t))
<1>1. TypeOK /\ HookInv(t) /\ u[t] \in NodeID
  BY DEF Inv, TypeOK
<1>2. k[t] \in 1 .. OutDegree(graph, u[t])
  BY <1>1, Lists DEF HookInv, TypeOK
<1>3. Neighbor(t) \in NodeID /\ Adjacent(graph, u[t], Neighbor(t))
  BY <1>1, <1>2, Lists DEF Neighbor
<1> QED BY <1>1, <1>2, <1>3, EdgeConnects

\* High and Low order comp_u and comp_v.
LEMMA HighLow ==
  ASSUME TypeOK, NEW t \in Threads
  PROVE  /\ High(t) \in NodeID /\ Low(t) \in NodeID
         /\ \/ High(t) = comp_u[t] /\ Low(t) = comp_v[t]
            \/ High(t) = comp_v[t] /\ Low(t) = comp_u[t]
         /\ comp_u[t] # comp_v[t] => Low(t) < High(t)
<1>1. comp_u[t] \in NodeID /\ comp_v[t] \in NodeID
  BY DEF TypeOK
<1> QED BY <1>1 DEF High, Low, NodeID

\* A hook joins two connected vertices, the larger below the smaller.
LEMMA HookStepConnects ==
  ASSUME Inv, NEW t \in Threads, pc[t] = "hook"
  PROVE  Low(t) < High(t) /\ SameComponent(graph, High(t), Low(t))
<1>1. TypeOK /\ HookInv(t) /\ pc[t] \in Reading
  BY DEF Inv, Reading
<1>2. /\ SameComponent(graph, u[t], comp_u[t])
      /\ SameComponent(graph, Neighbor(t), comp_v[t])
      /\ comp_u[t] # comp_v[t]
  BY <1>1 DEF HookInv, Reading
<1>3. SameComponent(graph, u[t], Neighbor(t))
  BY <1>1, Ends
<1>4. SameComponent(graph, comp_u[t], comp_v[t])
  BY <1>2, <1>3, SameComponentEquivalence
<1>5. SameComponent(graph, High(t), Low(t))
  BY <1>1, <1>4, HighLow, SameComponentEquivalence
<1> QED BY <1>1, <1>2, <1>5, HighLow

-----------------------------------------------------------------------------
(* What a step does. *)

\* The graph of a run does not change.
LEMMA GraphFixed ==
  ASSUME [Next]_vars  PROVE graph' = graph
  BY DEF Next, Thread, HookStep, CompressStep, TakeIteration, NoMoreNeighbors,
         ReadU, ReadV, ReadHigh, SetChange, Hook, Crawl, Reread, Store,
         EndHooking, EndIterationOrLoop, vars, shared, locals

\* comp is written by Hook and Store only.
LEMMA CompStep ==
  ASSUME [Next]_vars
  PROVE  comp' = comp \/ \E t \in Threads : Hook(t) \/ Store(t)
  BY DEF Next, Thread, HookStep, CompressStep, TakeIteration, NoMoreNeighbors,
         ReadU, ReadV, ReadHigh, SetChange, Crawl, Reread,
         EndHooking, EndIterationOrLoop, vars, shared, locals

\* comp keeps its type, its order and its connections.
LEMMA CompInv ==
  ASSUME Inv, [Next]_vars
  PROVE  /\ comp' \in [NodeID -> NodeID]
         /\ \A n \in NodeID : comp'[n] <= n
         /\ \A n \in NodeID : SameComponent(graph, n, comp'[n])
<1>0. TypeOK /\ Descends /\ Sound /\ comp \in [NodeID -> NodeID]
  BY DEF Inv, TypeOK
<1>1. CASE comp' = comp
  BY <1>0, <1>1 DEF Descends, Sound
<1>2. ASSUME NEW t \in Threads, Hook(t)
      PROVE  /\ comp' \in [NodeID -> NodeID]
             /\ \A n \in NodeID : comp'[n] <= n
             /\ \A n \in NodeID : SameComponent(graph, n, comp'[n])
  <2>1. comp' = [comp EXCEPT ![High(t)] = Low(t)] /\ pc[t] = "hook"
    BY <1>2 DEF Hook
  <2>2. High(t) \in NodeID /\ Low(t) \in NodeID /\ Low(t) <= High(t)
        /\ SameComponent(graph, High(t), Low(t))
    BY <1>0, <2>1, HighLow, HookStepConnects DEF NodeID
  <2>3. \A n \in NodeID : comp'[n] = IF n = High(t) THEN Low(t) ELSE comp[n]
    BY <1>0, <2>1
  <2> QED BY <1>0, <2>1, <2>2, <2>3 DEF Descends, Sound
<1>3. ASSUME NEW t \in Threads, Store(t)
      PROVE  /\ comp' \in [NodeID -> NodeID]
             /\ \A n \in NodeID : comp'[n] <= n
             /\ \A n \in NodeID : SameComponent(graph, n, comp'[n])
  <2>1. comp' = [comp EXCEPT ![u[t]] = tmp[t]] /\ pc[t] = "store"
    BY <1>3 DEF Store
  <2>2. /\ u[t] \in NodeID /\ tmp[t] \in NodeID
        /\ tmp[t] <= comp[u[t]] /\ SameComponent(graph, u[t], tmp[t])
    BY <2>1 DEF Inv, TypeOK, CompressInv
  <2>3. tmp[t] <= u[t]
    BY <1>0, <2>2 DEF Descends, NodeID
  <2>4. \A n \in NodeID : comp'[n] = IF n = u[t] THEN tmp[t] ELSE comp[n]
    BY <1>0, <2>1
  <2> QED BY <1>0, <2>1, <2>2, <2>3, <2>4 DEF Descends, Sound
<1> QED BY <1>1, <1>2, <1>3, CompStep

-----------------------------------------------------------------------------
(* Every conjunct of the invariant is kept. *)

LEMMA InitInv == Init => Inv
<1> SUFFICES ASSUME Init  PROVE Inv
  OBVIOUS
<1>1. IsGraph(graph)
  BY GraphsAssumption DEF Init
<1>2. 0 \in NodeID
  BY NAssumption DEF NodeID
<1>3. TypeOK
  BY <1>1, <1>2 DEF Init, TypeOK, Locations
<1>4. Placed /\ FlatInv
  BY DEF Init, Placed, Reading, FlatInv
<1>5. Descends
  BY DEF Init, Descends, NodeID
<1>6. Sound
  BY SameComponentEquivalence DEF Init, Sound
<1>7. \A t \in Threads : HookInv(t) /\ CompressInv(t)
  BY DEF Init, HookInv, CompressInv, Reading
<1>8. QuietInv
  BY DEF Init, QuietInv, Quiet, Flat, Finished, Reading
<1>9. phase # "done"
  BY DEF Init
<1> QED BY <1>3, <1>4, <1>5, <1>6, <1>7, <1>8, <1>9 DEF Inv

LEMMA StepTypeOK ==
  ASSUME Inv, [Next]_vars  PROVE TypeOK'
<1>0. TypeOK /\ 0 \in NodeID /\ comp' \in [NodeID -> NodeID] /\ graph' = graph
  BY NAssumption, CompInv, GraphFixed DEF Inv, NodeID
<1> USE <1>0 DEF TypeOK
<1>1. ASSUME NEW t \in Threads, NEW n \in NodeID, TakeIteration(t, n)  PROVE TypeOK'
  BY <1>1 DEF TakeIteration, Goto, Locations
<1>2. ASSUME NEW t \in Threads, NoMoreNeighbors(t)  PROVE TypeOK'
  BY <1>2 DEF NoMoreNeighbors, EndIteration, Goto, shared, Locations
<1>3. ASSUME NEW t \in Threads, ReadU(t)  PROVE TypeOK'
  BY <1>3 DEF ReadU, Goto, shared, Locations
<1>4. ASSUME NEW t \in Threads, ReadV(t)  PROVE TypeOK'
  <2>1. Neighbor(t) \in NodeID
    BY <1>4, Ends DEF ReadV, Reading
  <2> QED BY <1>4, <2>1 DEF ReadV, Continue, Goto, shared, Locations
<1>5. ASSUME NEW t \in Threads, ReadHigh(t)  PROVE TypeOK'
  BY <1>5 DEF ReadHigh, Continue, Goto, shared, Locations
<1>6. ASSUME NEW t \in Threads, SetChange(t)  PROVE TypeOK'
  BY <1>6 DEF SetChange, Goto, Locations
<1>7. ASSUME NEW t \in Threads, Hook(t)  PROVE TypeOK'
  BY <1>7 DEF Hook, Continue, Goto, Locations
<1>8. ASSUME NEW t \in Threads, Crawl(t)  PROVE TypeOK'
  BY <1>8 DEF Crawl, EndIteration, Goto, shared, Locations
<1>9. ASSUME NEW t \in Threads, Reread(t)  PROVE TypeOK'
  BY <1>9 DEF Reread, Goto, shared, Locations
<1>10. ASSUME NEW t \in Threads, Store(t)  PROVE TypeOK'
  BY <1>10 DEF Store, Goto, Locations
<1>11. CASE EndHooking
  BY <1>11 DEF EndHooking, locals
<1>12. CASE EndIterationOrLoop
  <2>1. /\ num_iter' \in Nat /\ before' \in [NodeID -> NodeID] /\ todo' \in SUBSET NodeID
        /\ phase' \in {"hook", "compress", "done"}
        /\ UNCHANGED locals
    BY <1>12 DEF EndIterationOrLoop
  <2>2. change' \in BOOLEAN
    BY <1>12 DEF EndIterationOrLoop
  <2> QED BY <2>1, <2>2 DEF locals
<1>13. CASE UNCHANGED vars
  BY <1>13 DEF vars, shared, locals
<1> QED BY <1>1, <1>2, <1>3, <1>4, <1>5, <1>6, <1>7, <1>8, <1>9, <1>10, <1>11, <1>12, <1>13
        DEF Next, Thread, HookStep, CompressStep

LEMMA StepPlaced ==
  ASSUME Inv, [Next]_vars  PROVE Placed'
<1>0. TypeOK /\ Placed
  BY DEF Inv
<1> USE <1>0 DEF TypeOK, Placed, Reading, Locations
<1>1. ASSUME NEW t \in Threads, NEW n \in NodeID, TakeIteration(t, n)  PROVE Placed'
  BY <1>1 DEF TakeIteration, Goto
<1>2. ASSUME NEW t \in Threads, NoMoreNeighbors(t)  PROVE Placed'
  BY <1>2 DEF NoMoreNeighbors, EndIteration, Goto, shared
<1>3. ASSUME NEW t \in Threads, ReadU(t)  PROVE Placed'
  BY <1>3 DEF ReadU, Goto, shared
<1>4. ASSUME NEW t \in Threads, ReadV(t)  PROVE Placed'
  BY <1>4 DEF ReadV, Continue, Goto, shared
<1>5. ASSUME NEW t \in Threads, ReadHigh(t)  PROVE Placed'
  BY <1>5 DEF ReadHigh, Continue, Goto, shared
<1>6. ASSUME NEW t \in Threads, SetChange(t)  PROVE Placed'
  BY <1>6 DEF SetChange, Goto
<1>7. ASSUME NEW t \in Threads, Hook(t)  PROVE Placed'
  BY <1>7 DEF Hook, Continue, Goto
<1>8. ASSUME NEW t \in Threads, Crawl(t)  PROVE Placed'
  BY <1>8 DEF Crawl, EndIteration, Goto, shared
<1>9. ASSUME NEW t \in Threads, Reread(t)  PROVE Placed'
  BY <1>9 DEF Reread, Goto, shared
<1>10. ASSUME NEW t \in Threads, Store(t)  PROVE Placed'
  BY <1>10 DEF Store, Goto
<1>11. CASE EndHooking
  BY <1>11 DEF EndHooking, LoopDone, locals
<1>12. CASE EndIterationOrLoop
  BY <1>12 DEF EndIterationOrLoop, LoopDone, locals
<1>13. CASE UNCHANGED vars
  BY <1>13 DEF vars, shared, locals
<1> QED BY <1>1, <1>2, <1>3, <1>4, <1>5, <1>6, <1>7, <1>8, <1>9, <1>10, <1>11, <1>12, <1>13
        DEF Next, Thread, HookStep, CompressStep

\* A step leaves the locals of the threads that do not take it alone.
LEMMA Others ==
  ASSUME TypeOK, [Next]_vars, NEW s \in Threads, ~ Thread(s)
  PROVE  UNCHANGED <<pc[s], u[s], k[s], comp_u[s], comp_v[s], tmp[s]>>
<1>1. ASSUME NEW t \in Threads, Thread(t)
      PROVE  UNCHANGED <<pc[s], u[s], k[s], comp_u[s], comp_v[s], tmp[s]>>
  <2>1. t # s
    BY <1>1
  <2> QED BY <1>1, <2>1
          DEF TypeOK, Thread, HookStep, CompressStep, TakeIteration, NoMoreNeighbors,
              EndIteration, Continue, Goto, ReadU, ReadV, ReadHigh, SetChange, Hook,
              Crawl, Reread, Store
<1>2. CASE EndHooking \/ EndIterationOrLoop \/ UNCHANGED vars
  BY <1>2 DEF EndHooking, EndIterationOrLoop, vars, locals
<1> QED BY <1>1, <1>2 DEF Next

\* The locals of the first loop.
LEMMA StepHookInv ==
  ASSUME Inv, [Next]_vars, NEW t \in Threads  PROVE HookInv(t)'
<1>0. TypeOK /\ HookInv(t) /\ Sound /\ graph' = graph
  BY GraphFixed DEF Inv
<1>a. u[t] \in NodeID /\ k[t] \in Nat /\ OutDegree(graph, u[t]) \in Nat
  BY <1>0, Lists DEF TypeOK
<1> USE <1>0 DEF HookInv, Reading, Neighbor
<1>1. ASSUME NEW n \in NodeID, TakeIteration(t, n)  PROVE HookInv(t)'
  <2>1. OutDegree(graph, n) \in Nat
    BY Lists
  <2> QED BY <1>1, <2>1 DEF TakeIteration, Goto, TypeOK
<1>2. CASE NoMoreNeighbors(t)
  BY <1>2 DEF NoMoreNeighbors, EndIteration, Goto, TypeOK
<1>3. CASE ReadU(t)
  <2>1. SameComponent(graph, u[t], comp[u[t]])
    BY <1>a DEF Sound
  <2> QED BY <1>a, <1>3, <2>1 DEF ReadU, Goto, TypeOK
<1>4. CASE ReadV(t)
  <2>1. SameComponent(graph, Neighbor(t), comp[Neighbor(t)])
    BY <1>4, Ends DEF ReadV, Sound
  <2> QED BY <1>4, <2>1 DEF ReadV, Continue, Goto, TypeOK
<1>5. CASE ReadHigh(t)
  BY <1>5 DEF ReadHigh, Continue, Goto, TypeOK
<1>6. CASE SetChange(t)
  BY <1>6 DEF SetChange, Goto, TypeOK
<1>7. CASE Hook(t)
  BY <1>7 DEF Hook, Continue, Goto, TypeOK
<1>8. CASE CompressStep(t)
  BY <1>8 DEF CompressStep, Crawl, Reread, Store, EndIteration, Goto, TypeOK
<1>9. CASE ~ Thread(t)
  BY <1>9, Others
<1> QED BY <1>1, <1>2, <1>3, <1>4, <1>5, <1>6, <1>7, <1>8, <1>9 DEF Thread, HookStep

\* comp[n] is written in the second loop by the thread that took n only.
LEMMA OwnVertex ==
  ASSUME Inv, [Next]_vars, NEW t \in Threads, ~ Store(t),
         pc[t] \in {"crawl", "reread", "store"}
  PROVE  comp'[u[t]] = comp[u[t]]
<1>0. TypeOK /\ Placed /\ phase = "compress" /\ u[t] \in NodeID
  BY DEF Inv, Placed, TypeOK
<1>1. ASSUME NEW s \in Threads, Hook(s)  PROVE FALSE
  BY <1>0, <1>1 DEF Placed, Hook, Reading
<1>2. ASSUME NEW s \in Threads, Store(s)  PROVE comp'[u[t]] = comp[u[t]]
  <2>1. u[s] # u[t]
    BY <1>0, <1>2 DEF Placed, Store
  <2> QED BY <1>0, <1>2, <2>1 DEF Store, TypeOK
<1> QED BY <1>1, <1>2, CompStep

\* The locals of the second loop.
LEMMA StepCompressInv ==
  ASSUME Inv, [Next]_vars, NEW t \in Threads  PROVE CompressInv(t)'
<1>0. TypeOK /\ CompressInv(t) /\ Sound /\ Descends /\ graph' = graph /\ u[t] \in NodeID
      /\ comp[u[t]] \in NodeID
  BY GraphFixed DEF Inv, TypeOK
<1> USE <1>0 DEF CompressInv
<1>1. ASSUME NEW n \in NodeID, TakeIteration(t, n)  PROVE CompressInv(t)'
  BY <1>1 DEF TakeIteration, Goto, TypeOK
<1>2. CASE NoMoreNeighbors(t)
  BY <1>2 DEF NoMoreNeighbors, EndIteration, Goto, TypeOK
<1>3. CASE HookStep(t)
  BY <1>3 DEF HookStep, ReadU, ReadV, ReadHigh, SetChange, Hook, Continue, Goto, TypeOK
<1>4. CASE Crawl(t)
  BY <1>4 DEF Crawl, EndIteration, Goto, TypeOK, shared
<1>5. CASE Reread(t)
  <2>1. comp[comp[u[t]]] <= comp[u[t]]
    BY DEF Descends
  <2>2. SameComponent(graph, u[t], comp[comp[u[t]]])
    BY SameComponentEquivalence DEF Sound
  <2> QED BY <1>5, <2>1, <2>2 DEF Reread, Goto, TypeOK, shared
<1>6. CASE Store(t)
  BY <1>6 DEF Store, Goto, TypeOK
<1>7. CASE ~ Thread(t)
  <2>1. ~ Store(t)
    BY <1>7 DEF Thread, CompressStep
  <2> QED BY <1>7, <2>1, Others, OwnVertex
<1> QED BY <1>1, <1>2, <1>3, <1>4, <1>5, <1>6, <1>7 DEF Thread, CompressStep

\* A vertex the second loop is done with stays flat.
LEMMA StepFlatInv ==
  ASSUME Inv, [Next]_vars  PROVE FlatInv'
<1>0. TypeOK /\ Placed /\ FlatInv /\ comp \in [NodeID -> NodeID]
  BY DEF Inv, TypeOK
<1> SUFFICES ASSUME phase' = "compress", NEW n \in NodeID, Finished(n)'
             PROVE  comp'[comp'[n]] = comp'[n]
  BY DEF FlatInv
<1>1. CASE EndHooking
  BY <1>1 DEF EndHooking, Finished
<1>2. ASSUME NEW t \in Threads, Store(t)  PROVE comp'[comp'[n]] = comp'[n]
  <2>1. /\ pc[t] = "store" /\ phase = "compress"
        /\ comp' = [comp EXCEPT ![u[t]] = tmp[t]]
        /\ u[t] \in NodeID /\ comp[u[t]] # u[t]
    BY <1>0, <1>2 DEF Store, Inv, CompressInv, TypeOK
  <2>2. n # u[t] /\ Finished(n)
    BY <1>0, <1>2 DEF Store, Goto, Finished, TypeOK
  <2>3. comp[comp[n]] = comp[n]
    BY <1>0, <2>1, <2>2 DEF FlatInv
  <2> QED BY <1>0, <2>1, <2>2, <2>3
<1>3. ASSUME NEW t \in Threads, Crawl(t), u[t] = n, pc'[t] = "idle"
      PROVE  comp'[comp'[n]] = comp'[n]
  BY <1>0, <1>3 DEF Crawl, Goto, shared, TypeOK
<1>4. CASE /\ ~ EndHooking
           /\ \A t \in Threads : ~ Store(t) /\ ~ (Crawl(t) /\ u[t] = n /\ pc'[t] = "idle")
  <2>1. phase = "compress"
    BY <1>4 DEF Next, Thread, HookStep, CompressStep, TakeIteration, NoMoreNeighbors,
                ReadU, ReadV, ReadHigh, SetChange, Hook, Crawl, Reread,
                EndIterationOrLoop, vars, shared
  <2>2. ASSUME NEW t \in Threads, HookStep(t) \/ NoMoreNeighbors(t)  PROVE FALSE
    BY <1>0, <2>1, <2>2 DEF Placed, HookStep, NoMoreNeighbors, ReadU, ReadV, ReadHigh,
                            SetChange, Hook, Reading
  <2>3. comp' = comp
    BY <1>4, <2>2, CompStep DEF HookStep
  <2>4. Finished(n)
    <3>1. ASSUME NEW t \in Threads, NEW m \in NodeID, TakeIteration(t, m)  PROVE Finished(n)
      BY <1>0, <3>1 DEF TakeIteration, Goto, Finished, TypeOK
    <3>2. ASSUME NEW t \in Threads, Crawl(t)  PROVE Finished(n)
      BY <1>0, <1>4, <3>2 DEF Crawl, EndIteration, Goto, Finished, shared, TypeOK
    <3>3. ASSUME NEW t \in Threads, Reread(t)  PROVE Finished(n)
      BY <1>0, <3>3 DEF Reread, Goto, Finished, shared, TypeOK
    <3>4. CASE EndIterationOrLoop
      BY <2>1, <3>4 DEF EndIterationOrLoop, Finished, LoopDone
    <3>5. CASE UNCHANGED vars
      BY <3>5 DEF vars, shared, locals, Finished
    <3> QED BY <1>4, <2>2, <3>1, <3>2, <3>3, <3>4, <3>5 DEF Next, Thread, CompressStep
  <2> QED BY <1>0, <2>1, <2>3, <2>4 DEF FlatInv
<1> QED BY <1>1, <1>2, <1>3, <1>4

\* Nothing is written while the flag is down.
LEMMA QuietComp ==
  ASSUME Inv, [Next]_vars, ~ change  PROVE comp' = comp
<1>1. \A t \in Threads : pc[t] \notin {"hook", "reread", "store"}
  BY DEF Inv, QuietInv, Quiet
<1> QED BY <1>1, CompStep DEF Hook, Store

\* The flag goes down when every tree is flat and every thread idle.
LEMMA LowerFlag ==
  ASSUME Inv, [Next]_vars, change, ~ change'  PROVE Quiet'
<1>0. TypeOK /\ Placed /\ FlatInv
  BY DEF Inv
<1>1. EndIterationOrLoop
  BY DEF Next, Thread, HookStep, CompressStep, TakeIteration, NoMoreNeighbors,
         ReadU, ReadV, ReadHigh, SetChange, Hook, Crawl, Reread, Store,
         EndHooking, vars, shared
<1>2. /\ phase = "compress" /\ phase' = "hook" /\ LoopDone /\ todo' = NodeID
      /\ comp' = comp /\ pc' = pc
  BY <1>1 DEF EndIterationOrLoop, locals
<1>3. Flat'
  BY <1>0, <1>2 DEF FlatInv, Finished, LoopDone, Flat
<1>4. \A t \in Threads : pc'[t] = "idle"
  BY <1>2 DEF LoopDone
<1>5. \A n \in NodeID : ~ Finished(n)'
  BY <1>2 DEF Finished
<1> QED BY <1>2, <1>3, <1>4, <1>5 DEF Quiet, Reading

\* While it is down, the threads only find equal labels.
LEMMA StayQuiet ==
  ASSUME Inv, [Next]_vars, ~ change, ~ change'  PROVE Quiet'
<1>0. TypeOK /\ Placed /\ Quiet /\ comp' = comp /\ graph' = graph
  BY QuietComp, GraphFixed DEF Inv, QuietInv
<1>1. Flat'
  BY <1>0 DEF Quiet, Flat
<1>2. ASSUME NEW t \in Threads  PROVE pc'[t] \notin {"hook", "reread", "store"}
  <2>0. pc[t] \notin {"hook", "reread", "store"} /\ u[t] \in NodeID
    BY <1>0 DEF Quiet, TypeOK
  <2>1. CASE Thread(t)
    <3>1. ~ SetChange(t)
      BY DEF SetChange
    <3>2. comp[u[t]] = comp[comp[u[t]]]
      BY <1>0, <2>0 DEF Quiet, Flat
    <3> QED BY <1>0, <2>0, <2>1, <3>1, <3>2
            DEF Thread, HookStep, CompressStep, TakeIteration, NoMoreNeighbors, ReadU,
                ReadV, ReadHigh, Hook, Crawl, Reread, Store, Continue, EndIteration,
                Goto, TypeOK
  <2>2. CASE ~ Thread(t)
    BY <1>0, <2>0, <2>2, Others
  <2> QED BY <2>1, <2>2
<1>3. ASSUME phase' = "hook", NEW t \in Threads
      PROVE  /\ pc'[t] = "next" => SameLabels(u[t], k[t])'
             /\ pc'[t] \in Reading => SameLabels(u[t], k[t] - 1)' /\ comp_u'[t] = comp[u'[t]]
             /\ pc'[t] \in Reading \ {"readV"} => comp_v'[t] = comp[Neighbor(t)']
  <2>0. /\ phase = "hook" /\ u[t] \in NodeID
        /\ pc[t] = "next" => SameLabels(u[t], k[t])
        /\ pc[t] \in Reading => SameLabels(u[t], k[t] - 1) /\ comp_u[t] = comp[u[t]]
        /\ pc[t] \in Reading \ {"readV"} => comp_v[t] = comp[Neighbor(t)]
    <3>1. phase = "hook"
      BY <1>3 DEF Next, Thread, HookStep, CompressStep, TakeIteration, NoMoreNeighbors,
                  ReadU, ReadV, ReadHigh, SetChange, Hook, Crawl, Reread, Store,
                  EndHooking, EndIterationOrLoop, vars, shared
    <3> QED BY <1>0, <3>1 DEF Quiet, TypeOK
  <2> USE <1>0, <2>0 DEF SameLabels, Neighbor, Reading, TypeOK
  <2>1. ASSUME NEW n \in NodeID, TakeIteration(t, n)
        PROVE  pc'[t] = "next" /\ SameLabels(u[t], k[t])'
    BY <2>1 DEF TakeIteration, Goto
  <2>2. CASE NoMoreNeighbors(t)
    BY <2>2 DEF NoMoreNeighbors, EndIteration, Goto
  <2>3. CASE ReadU(t)
    BY <2>3 DEF ReadU, Goto
  <2>4. CASE ReadV(t)
    <3>1. k[t] \in 1 .. OutDegree(graph, u[t])
      BY <2>4, Ends DEF ReadV
    <3>2. CASE comp[Neighbor(t)] = comp_u[t]
      <4>1. SameLabels(u[t], k[t])
        BY <2>4, <3>1, <3>2 DEF ReadV
      <4> QED BY <2>4, <3>2, <4>1 DEF ReadV, Continue, Goto, shared
    <3>3. CASE comp[Neighbor(t)] # comp_u[t]
      BY <2>4, <3>3 DEF ReadV, Goto, shared
    <3> QED BY <3>2, <3>3
  <2>5. CASE ReadHigh(t)
    <3>1. Neighbor(t) \in NodeID
      BY <2>5, Ends DEF ReadHigh
    <3>2. comp[High(t)] = High(t)
      BY <2>5, <3>1, HighLow DEF ReadHigh, Quiet, Flat
    <3> QED BY <2>5, <3>2 DEF ReadHigh, Goto, shared
  <2>6. CASE SetChange(t)
    BY <2>6 DEF SetChange
  <2>7. CASE Hook(t) \/ CompressStep(t)
    BY <2>7 DEF Hook, CompressStep, Crawl, Reread, Store, Placed, Quiet
  <2>8. CASE ~ Thread(t)
    BY <2>8, Others
  <2> QED BY <2>1, <2>2, <2>3, <2>4, <2>5, <2>6, <2>7, <2>8 DEF Thread, HookStep
<1>4. ASSUME phase' = "hook", NEW n \in NodeID, Finished(n)'
      PROVE  SameLabels(n, OutDegree(graph, n))'
  <2>0. phase = "hook"
    BY <1>4 DEF Next, Thread, HookStep, CompressStep, TakeIteration, NoMoreNeighbors,
                ReadU, ReadV, ReadHigh, SetChange, Hook, Crawl, Reread, Store,
                EndHooking, EndIterationOrLoop, vars, shared
  <2>1. SameLabels(n, OutDegree(graph, n)) => SameLabels(n, OutDegree(graph, n))'
    BY <1>0 DEF SameLabels
  <2>2. ASSUME NEW t \in Threads, NoMoreNeighbors(t), u[t] = n
        PROVE  SameLabels(n, OutDegree(graph, n))
    BY <1>0, <2>0, <2>2 DEF Quiet, NoMoreNeighbors
  <2>3. CASE \A t \in Threads : ~ (NoMoreNeighbors(t) /\ u[t] = n)
    <3>1. n \notin todo
      BY <1>0, <1>4 DEF Next, Thread, HookStep, CompressStep, TakeIteration, NoMoreNeighbors,
                ReadU, ReadV, ReadHigh, SetChange, Hook, Crawl, Reread, Store, Finished, Goto,
                EndHooking, EndIterationOrLoop, vars, shared, TypeOK
    <3>2. ASSUME NEW t \in Threads, pc[t] # "idle"  PROVE u[t] # n
      <4>1. CASE Thread(t)
        BY <1>0, <1>4, <2>0, <2>3, <3>2, <4>1
           DEF Thread, HookStep, CompressStep, TakeIteration, NoMoreNeighbors, Continue,
               ReadU, ReadV, ReadHigh, SetChange, Hook, Crawl, Reread, Store, Finished,
               Goto, TypeOK, Placed, Reading
      <4>2. CASE ~ Thread(t)
        BY <1>0, <1>4, <3>2, <4>2, Others DEF Finished
      <4> QED BY <4>1, <4>2
    <3>3. Finished(n)
      BY <3>1, <3>2 DEF Finished
    <3> QED BY <1>0, <2>0, <2>1, <3>3 DEF Quiet
  <2> QED BY <2>1, <2>2, <2>3
<1>5. ASSUME phase' # "hook", NEW n \in NodeID  PROVE SameLabels(n, OutDegree(graph, n))'
  <2>1. SameLabels(n, OutDegree(graph, n)) => SameLabels(n, OutDegree(graph, n))'
    BY <1>0 DEF SameLabels
  <2>2. CASE phase # "hook"
    BY <1>0, <2>1, <2>2 DEF Quiet
  <2>3. CASE phase = "hook"
    <3>1. EndHooking
      BY <1>5, <2>3 DEF Next, Thread, HookStep, CompressStep, TakeIteration, NoMoreNeighbors,
                ReadU, ReadV, ReadHigh, SetChange, Hook, Crawl, Reread, Store,
                EndIterationOrLoop, vars, shared
    <3>2. Finished(n)
      BY <3>1 DEF EndHooking, LoopDone, Finished
    <3> QED BY <1>0, <2>1, <2>3, <3>2 DEF Quiet
  <2> QED BY <2>2, <2>3
<1>6. /\ \A n \in NodeID : (Finished(n) => SameLabels(n, OutDegree(graph, n)))'
      /\ \A t \in Threads :
           /\ (pc[t] = "next" => SameLabels(u[t], k[t]))'
           /\ (pc[t] \in Reading => SameLabels(u[t], k[t] - 1) /\ comp_u[t] = comp[u[t]])'
           /\ (pc[t] \in Reading \ {"readV"} => comp_v[t] = comp[Neighbor(t)])'
      \/ phase' # "hook"
  BY <1>0, <1>3, <1>4
<1> QED BY <1>1, <1>2, <1>5, <1>6 DEF Quiet

LEMMA StepInv == Inv /\ [Next]_vars => Inv'
<1> SUFFICES ASSUME Inv, [Next]_vars  PROVE Inv'
  OBVIOUS
<1>1. Descends' /\ Sound'
  BY CompInv, GraphFixed DEF Descends, Sound
<1>2. QuietInv'
  BY LowerFlag, StayQuiet DEF QuietInv
<1>3. (phase = "done" => ~ change)'
  <2>1. phase = "done" => ~ change /\ \A t \in Threads : pc[t] # "setChange"
    BY DEF Inv, Placed, Reading
  <2> QED BY <2>1 DEF Next, Thread, HookStep, CompressStep, TakeIteration, NoMoreNeighbors,
                ReadU, ReadV, ReadHigh, SetChange, Hook, Crawl, Reread, Store,
                EndHooking, EndIterationOrLoop, vars, shared
<1> QED BY <1>1, <1>2, <1>3, StepTypeOK, StepPlaced, StepHookInv, StepCompressInv, StepFlatInv
        DEF Inv

\* The inductive invariant: what the threads know of the trees, and that no
\* edge is missed while the flag is down.
THEOREM Invariance == Spec => []Inv
<1>1. Inv /\ UNCHANGED vars => Inv'
  BY StepInv
<1> QED BY InitInv, StepInv, PTL DEF Spec

\* Every variable keeps its type, so that no read of comp is out of range.
THEOREM TypeCorrect == Spec => []TypeOK
<1>1. Inv => TypeOK
  BY DEF Inv
<1> QED BY <1>1, Invariance, PTL

\* The racy reads and plain stores of cc_sv.cc never connect two vertices the
\* graph does not connect.
THEOREM Soundness == Spec => []Sound
<1>1. Inv => Sound
  BY DEF Inv
<1> QED BY <1>1, Invariance, PTL

\* At the end no edge joins two labels.
LEMMA EdgesJoinLabels ==
  ASSUME Inv, phase = "done", NEW x \in NodeID, NEW y \in NodeID, Adjacent(graph, x, y)
  PROVE  comp[x] = comp[y]
<1>1. Quiet /\ TypeOK
  BY DEF Inv, QuietInv
<1>2. ASSUME NEW a \in NodeID, NEW b \in NodeID, Occurs(b, OutNeigh(graph, a))
      PROVE  comp[a] = comp[b]
  <2>1. SameLabels(a, OutDegree(graph, a))
    BY <1>1 DEF Quiet
  <2> QED BY <1>2, <2>1 DEF SameLabels, Occurs, OutDegree
<1> QED BY <1>2 DEF Adjacent

\* When cc_sv.cc returns, two vertices have one label exactly if they are
\* connected: no hook that was overwritten is missing.
THEOREM Correctness == Spec => []Correct
<1>1. Inv => Correct
  <2> SUFFICES ASSUME Inv, phase = "done", NEW x \in NodeID, NEW y \in NodeID
               PROVE  comp[x] = comp[y] <=> SameComponent(graph, x, y)
    BY DEF Correct
  <2>1. comp \in [NodeID -> NodeID] /\ Sound
    BY DEF Inv, TypeOK
  <2> QED BY <2>1, EdgesJoinLabels, LabelsAreComponents DEF Sound
<1> QED BY <1>1, Invariance, PTL

\* CCVerifier accepts the labels, and by VerifierExact it accepts no others that
\* divide the vertices differently.
THEOREM Accepted == Spec => [](phase = "done" => CCVerifier(graph, comp))
<1>1. Correct => (phase = "done" => CCVerifier(graph, comp))
  BY VerifierExact DEF Correct
<1> QED BY <1>1, Correctness, PTL

\* The label of a component is its smallest vertex, whichever way the edges
\* that connect it point.
THEOREM LowestLabels == Spec => []LowestLabel
<1>1. Inv => LowestLabel
  <2> SUFFICES ASSUME Inv, phase = "done", NEW x \in NodeID, NEW y \in NodeID,
                      SameComponent(graph, x, y)
               PROVE  comp[x] <= y
    BY DEF LowestLabel
  <2>1. comp \in [NodeID -> NodeID] /\ Sound /\ Descends
    BY DEF Inv, TypeOK
  <2>2. comp[x] = comp[y]
    BY <2>1, EdgesJoinLabels, LabelsAreComponents DEF Sound
  <2> QED BY <2>1, <2>2 DEF Descends
<1> QED BY <1>1, Invariance, PTL

\* The second loop of an iteration leaves only trees of depth 1, whatever its
\* threads have read of each other's vertices.
THEOREM Flatness == Spec => CompressFlattens
<1>1. Inv /\ [Next]_vars
        => (phase = "compress" /\ phase' # phase => \A n \in NodeID : comp[comp[n]] = comp[n])
  <2> SUFFICES ASSUME Inv, [Next]_vars, phase = "compress", phase' # phase, NEW n \in NodeID
               PROVE  comp[comp[n]] = comp[n]
    OBVIOUS
  <2>1. LoopDone
    BY DEF Next, Thread, HookStep, CompressStep, TakeIteration, NoMoreNeighbors,
                ReadU, ReadV, ReadHigh, SetChange, Hook, Crawl, Reread, Store,
                EndHooking, EndIterationOrLoop, vars, shared
  <2>2. Finished(n)
    BY <2>1 DEF LoopDone, Finished
  <2> QED BY <2>2 DEF Inv, FlatInv
<1> QED BY <1>1, Invariance, PTL DEF Spec, CompressFlattens

\* A vertex once hooked is no root again.
THEOREM HookedForGood == Spec => RootsDoNotReturn
<1>1. Inv /\ [Next]_vars => (\A n \in NodeID : comp[n] # n => comp'[n] # n)
  <2> SUFFICES ASSUME Inv, [Next]_vars, NEW n \in NodeID, comp[n] # n
               PROVE  comp'[n] # n
    OBVIOUS
  <2>0. TypeOK /\ Descends /\ comp \in [NodeID -> NodeID]
    BY DEF Inv, TypeOK
  <2>1. ASSUME NEW t \in Threads, Hook(t)  PROVE comp'[n] # n
    <3>1. Low(t) < High(t) /\ Low(t) \in NodeID /\ High(t) \in NodeID
      BY <2>0, <2>1, HookStepConnects, HighLow DEF Hook
    <3> QED BY <2>0, <2>1, <3>1 DEF Hook, NodeID
  <2>2. ASSUME NEW t \in Threads, Store(t)  PROVE comp'[n] # n
    <3>1. /\ u[t] \in NodeID /\ tmp[t] \in NodeID /\ comp[u[t]] \in NodeID
          /\ tmp[t] <= comp[u[t]] /\ comp[u[t]] # u[t] /\ comp[u[t]] <= u[t]
      BY <2>0, <2>2 DEF Inv, CompressInv, Store, TypeOK, Descends
    <3>2. tmp[t] # u[t]
      BY <3>1 DEF NodeID
    <3> QED BY <2>0, <2>2, <3>1, <3>2 DEF Store
  <2> QED BY <2>1, <2>2, CompStep
<1> QED BY <1>1, Invariance, PTL DEF Spec, RootsDoNotReturn

-----------------------------------------------------------------------------
(***************************************************************************)
(* What an iteration joins stays joined.  In the first loop only vertices  *)
(* that were roots when it began are hooked, so that a hook overwrites     *)
(* hooks of the same iteration only; in the second loop a stale parent is  *)
(* still joined to the vertex by parents below it.                         *)
(***************************************************************************)
Joined(f, n, d) ==
  \A S \in SUBSET NodeID : RespectsBelow(f, S, n) => (f[n] \in S <=> d \in S)

Roots(f) == {n \in NodeID : f[n] = n}

RootsKept  == \A n \in NodeID : before[n] # n => comp[n] # n

HooksRoots ==
  phase = "hook" =>
    /\ \A n \in NodeID : before[n] # n => comp[n] = before[n]
    /\ \A t \in Threads : pc[t] \in {"setChange", "hook"} => before[High(t)] = High(t)

StoresWithin == \A t \in Threads : pc[t] = "store" => Joined(comp, u[t], tmp[t])

\* The flag is up: a root of the beginning is hooked, or about to be.
HookSeen ==
  change => \/ \E n \in NodeID : before[n] = n /\ comp[n] # n
            \/ \E t \in Threads : pc[t] = "hook"

\* Every iteration but the current one has cost a root.
RootsLost == num_iter - 1 + Cardinality(Roots(before)) <= N

Kept == RootsKept /\ HooksRoots /\ StoresWithin /\ NothingIsSplit /\ HookSeen /\ RootsLost

LEMMA RootsAreFinite ==
  ASSUME NEW f  PROVE IsFiniteSet(Roots(f)) /\ Cardinality(Roots(f)) \in 0 .. N
<1>1. IsFiniteSet(NodeID) /\ Cardinality(NodeID) = N
  BY NAssumption, FS_Interval DEF NodeID
<1>2. Roots(f) \in SUBSET NodeID
  BY DEF Roots
<1>3. IsFiniteSet(Roots(f)) /\ Cardinality(Roots(f)) <= N
  BY <1>1, <1>2, FS_Subset
<1>4. Cardinality(Roots(f)) \in Nat
  BY <1>3, FS_CardinalityType
<1> QED BY <1>3, <1>4, NAssumption

LEMMA InitKept == Init => Kept
<1> SUFFICES ASSUME Init  PROVE Kept
  OBVIOUS
<1>1. RootsKept /\ HooksRoots /\ StoresWithin /\ HookSeen
  BY DEF Init, RootsKept, HooksRoots, StoresWithin, HookSeen
<1>2. NothingIsSplit
  BY SameTreeReflexive DEF Init, NothingIsSplit
<1>3. RootsLost
  BY RootsAreFinite, NAssumption DEF Init, RootsLost
<1> QED BY <1>1, <1>2, <1>3 DEF Kept

\* A root is hooked for good.
LEMMA NoNewRoot ==
  ASSUME Inv, [Next]_vars, NEW n \in NodeID, comp[n] # n  PROVE comp'[n] # n
<1>0. TypeOK /\ Descends /\ comp \in [NodeID -> NodeID]
  BY DEF Inv, TypeOK
<1>1. ASSUME NEW t \in Threads, Hook(t)  PROVE comp'[n] # n
  <2>1. Low(t) < High(t) /\ Low(t) \in NodeID /\ High(t) \in NodeID
    BY <1>0, <1>1, HookStepConnects, HighLow DEF Hook
  <2> QED BY <1>0, <1>1, <2>1 DEF Hook, NodeID
<1>2. ASSUME NEW t \in Threads, Store(t)  PROVE comp'[n] # n
  <2>1. /\ u[t] \in NodeID /\ tmp[t] \in NodeID /\ comp[u[t]] \in NodeID
        /\ tmp[t] <= comp[u[t]] /\ comp[u[t]] # u[t] /\ comp[u[t]] <= u[t]
    BY <1>0, <1>2 DEF Inv, CompressInv, Store, TypeOK, Descends
  <2>2. tmp[t] # u[t]
    BY <2>1 DEF NodeID
  <2> QED BY <1>0, <1>2, <2>1, <2>2 DEF Store
<1> QED BY <1>1, <1>2, CompStep

LEMMA HookKept ==
  ASSUME Inv, Kept, NEW t \in Threads, Hook(t)  PROVE Kept'
<1>0. /\ TypeOK /\ Placed /\ RootsKept /\ HooksRoots /\ StoresWithin /\ RootsLost
      /\ comp \in [NodeID -> NodeID] /\ pc[t] = "hook" /\ phase = "hook" /\ phase' = "hook"
      /\ UNCHANGED <<graph, change, num_iter, before>>
      /\ comp' = [comp EXCEPT ![High(t)] = Low(t)]
  BY DEF Inv, Kept, TypeOK, Placed, Reading, Hook
<1>1. Low(t) < High(t) /\ Low(t) \in NodeID /\ High(t) \in NodeID /\ before[High(t)] = High(t)
  BY <1>0, HookStepConnects, HighLow DEF HooksRoots
<1>2. comp'[High(t)] # High(t) /\ \A n \in NodeID : n # High(t) => comp'[n] = comp[n]
  BY <1>0, <1>1 DEF NodeID
<1>3. \A n \in NodeID : before[n] # n => comp'[n] = before[n]
  BY <1>0, <1>1, <1>2 DEF HooksRoots
<1>4. \A s \in Threads : pc'[s] \in {"setChange", "hook"} =>
        pc[s] \in {"setChange", "hook"} /\ comp_u'[s] = comp_u[s] /\ comp_v'[s] = comp_v[s]
  BY <1>0 DEF Hook, Continue, Goto, TypeOK
<1>5. HooksRoots'
  BY <1>0, <1>3, <1>4 DEF HooksRoots, High
<1>6. RootsKept'
  BY <1>0, <1>3 DEF RootsKept
<1>7. StoresWithin'
  <2>1. \A s \in Threads : pc'[s] # "store"
    BY <1>0 DEF Hook, Continue, Goto, TypeOK, Placed
  <2> QED BY <2>1 DEF StoresWithin
<1>8. NothingIsSplit'
  <2>1. ASSUME NEW n \in NodeID  PROVE SameTree(comp', n, before[n])
    <3>1. CASE before[n] = n
      BY <3>1, SameTreeReflexive
    <3>2. CASE before[n] # n
      BY <1>3, <3>2, SameTreeParent
    <3> QED BY <3>1, <3>2
  <2> QED BY <1>0, <2>1 DEF NothingIsSplit
<1>9. HookSeen'
  BY <1>0, <1>1, <1>2 DEF HookSeen
<1>10. RootsLost'
  BY <1>0 DEF RootsLost
<1> QED BY <1>5, <1>6, <1>7, <1>8, <1>9, <1>10 DEF Kept

LEMMA StoreKept ==
  ASSUME Inv, Kept, NEW t \in Threads, Store(t)  PROVE Kept'
<1>0. /\ TypeOK /\ Placed /\ Kept /\ Descends /\ comp \in [NodeID -> NodeID]
      /\ pc[t] = "store" /\ phase = "compress" /\ phase' = "compress"
      /\ UNCHANGED <<graph, change, num_iter, before, u>>
      /\ comp' = [comp EXCEPT ![u[t]] = tmp[t]] /\ u[t] \in NodeID /\ tmp[t] \in NodeID
      /\ Joined(comp, u[t], tmp[t]) /\ [Next]_vars
  <2>1. TypeOK /\ Placed /\ pc[t] = "store"
    BY DEF Inv, Store
  <2>2. phase = "compress"
    BY <2>1 DEF Placed
  <2>3. Next
    BY DEF Next, Thread, CompressStep
  <2> QED BY <2>1, <2>2, <2>3 DEF Inv, Kept, TypeOK, Store, StoresWithin
<1>1. RootsKept'
  BY <1>0, NoNewRoot DEF Kept, RootsKept
<1>2. HooksRoots' /\ RootsLost'
  BY <1>0 DEF Kept, HooksRoots, RootsLost
<1>3. HookSeen'
  <2>1. \A s \in Threads : pc[s] = "hook" => pc'[s] = "hook"
    BY <1>0 DEF Store, Goto, TypeOK
  <2> QED BY <1>0, <2>1, NoNewRoot DEF Kept, HookSeen
<1>4. NothingIsSplit'
  <2>1. ASSUME NEW n \in NodeID  PROVE SameTree(comp', n, before[n])
    <3>1. SameTree(comp, n, before[n])
      BY <1>0 DEF Kept, NothingIsSplit
    <3>2. SameTree([comp EXCEPT ![u[t]] = tmp[t]], n, before[n])
      BY <1>0, <3>1, ShortcutKeepsTrees DEF Joined
    <3> QED BY <1>0, <3>2
  <2> QED BY <1>0, <2>1 DEF NothingIsSplit
<1>5. StoresWithin'
  <2> SUFFICES ASSUME NEW s \in Threads, pc'[s] = "store"  PROVE Joined(comp', u'[s], tmp'[s])
    BY DEF StoresWithin
  <2>1. s # t /\ pc[s] = "store" /\ tmp'[s] = tmp[s] /\ u'[s] = u[s] /\ u[s] # u[t] /\ u[s] \in NodeID
    BY <1>0 DEF Store, Goto, TypeOK, Placed
  <2>2. Joined(comp, u[s], tmp[s]) /\ comp'[u[s]] = comp[u[s]]
    BY <1>0, <2>1 DEF Kept, StoresWithin
  <2>3. ASSUME NEW S \in SUBSET NodeID, RespectsBelow(comp', S, u[s])
        PROVE  comp[u[s]] \in S <=> tmp[s] \in S
    <3>1. RespectsBelow(comp, S, u[s])
      <4>1. u[s] \in Nat
        BY <2>1 DEF NodeID
      <4>2. RespectsBelow([comp EXCEPT ![u[t]] = tmp[t]], S, u[s]) => RespectsBelow(comp, S, u[s])
        BY <1>0, <4>1, ShortcutRespects DEF Joined
      <4> QED BY <1>0, <2>3, <4>2
    <3> QED BY <2>2, <3>1 DEF Joined
  <2> QED BY <2>1, <2>2, <2>3 DEF Joined
<1> QED BY <1>1, <1>2, <1>3, <1>4, <1>5 DEF Kept

LEMMA EndLoopKept == Inv /\ Kept /\ EndIterationOrLoop => Kept'
<1> SUFFICES ASSUME Inv, Kept, EndIterationOrLoop  PROVE Kept'
  OBVIOUS
<1>0. /\ TypeOK /\ Kept /\ phase = "compress" /\ comp' = comp /\ UNCHANGED locals
      /\ \A t \in Threads : pc[t] = "idle" /\ pc'[t] = "idle"
      /\ comp \in [NodeID -> NodeID] /\ before \in [NodeID -> NodeID]
  BY DEF Inv, TypeOK, EndIterationOrLoop, LoopDone, locals
<1>1. CASE change
  <2>1. /\ phase' = "hook" /\ change' = FALSE /\ num_iter' = num_iter + 1 /\ before' = comp
    BY <1>1 DEF EndIterationOrLoop
  <2>2. RootsKept' /\ HooksRoots' /\ StoresWithin' /\ HookSeen'
    BY <1>0, <2>1 DEF RootsKept, HooksRoots, StoresWithin, HookSeen
  <2>3. NothingIsSplit'
    BY <1>0, <2>1, SameTreeParent DEF NothingIsSplit
  <2>4. RootsLost'
    <3>1. PICK n \in NodeID : before[n] = n /\ comp[n] # n
      BY <1>0, <1>1 DEF Kept, HookSeen
    <3>2. Roots(comp) \subseteq Roots(before) /\ n \in Roots(before) /\ n \notin Roots(comp)
      BY <1>0, <3>1 DEF Roots, Kept, RootsKept
    <3>3. /\ Cardinality(Roots(comp)) <= Cardinality(Roots(before))
          /\ Cardinality(Roots(before)) # Cardinality(Roots(comp))
      BY <3>2, RootsAreFinite, FS_Subset
    <3>4. Cardinality(Roots(comp)) \in 0 .. N /\ Cardinality(Roots(before)) \in 0 .. N
      BY RootsAreFinite
    <3>5. num_iter \in Nat /\ num_iter - 1 + Cardinality(Roots(before)) <= N
      BY <1>0 DEF TypeOK, Kept, RootsLost
    <3>6. (num_iter + 1) - 1 + Cardinality(Roots(comp)) <= N
      BY <3>3, <3>4, <3>5, NAssumption
    <3> QED BY <2>1, <3>6 DEF RootsLost
  <2> QED BY <2>2, <2>3, <2>4 DEF Kept
<1>2. CASE ~ change
  <2>1. /\ phase' = "done" /\ UNCHANGED <<change, num_iter, todo, before>>
    BY <1>2 DEF EndIterationOrLoop
  <2> QED BY <1>0, <2>1 DEF Kept, RootsKept, HooksRoots, StoresWithin, NothingIsSplit, HookSeen, RootsLost
<1> QED BY <1>1, <1>2

\* The steps that write neither comp nor before.
LEMMA OtherKept ==
  ASSUME Inv, Kept, [Next]_vars, comp' = comp, before' = before, num_iter' = num_iter,
         phase' \in {"hook", "compress"}, phase' = "hook" => phase = "hook",
         \A t \in Threads : ~ Hook(t) /\ ~ Store(t)
  PROVE  Kept'
<1>0. TypeOK /\ Placed /\ Kept /\ graph' = graph /\ comp \in [NodeID -> NodeID]
  BY GraphFixed DEF Inv, TypeOK
<1>1. RootsKept' /\ NothingIsSplit' /\ RootsLost'
  BY <1>0 DEF Kept, RootsKept, NothingIsSplit, RootsLost
<1>2. HooksRoots'
  <2> SUFFICES ASSUME phase' = "hook", NEW t \in Threads, pc'[t] \in {"setChange", "hook"}
               PROVE  before[High(t)'] = High(t)'
    BY <1>0 DEF Kept, HooksRoots
  <2>0. phase = "hook"
    OBVIOUS
  <2>1. CASE ReadHigh(t)
    <3>1. /\ comp[High(t)] = High(t) /\ comp_u' = comp_u /\ comp_v' = comp_v
      BY <1>0, <2>1 DEF ReadHigh, Continue, Goto, TypeOK
    <3>2. High(t) \in NodeID /\ High(t)' = High(t)
      BY <1>0, <3>1, HighLow DEF High
    <3> QED BY <1>0, <3>1, <3>2 DEF Kept, RootsKept
  <2>2. CASE SetChange(t)
    BY <1>0, <2>0, <2>2 DEF SetChange, Kept, HooksRoots, High
  <2>3. CASE ~ Thread(t)
    <3>1. UNCHANGED <<pc[t], u[t], k[t], comp_u[t], comp_v[t], tmp[t]>>
      BY <1>0, <2>3, Others
    <3> QED BY <1>0, <2>0, <3>1 DEF Kept, HooksRoots, High
  <2>4. CASE Thread(t) /\ ~ ReadHigh(t) /\ ~ SetChange(t)
    BY <1>0, <2>4 DEF Thread, HookStep, CompressStep, TakeIteration, NoMoreNeighbors, EndIteration,
                      ReadU, ReadV, Crawl, Reread, Continue, Goto, TypeOK
  <2> QED BY <2>1, <2>2, <2>3, <2>4
<1>3. StoresWithin'
  <2> SUFFICES ASSUME NEW t \in Threads, pc'[t] = "store"  PROVE Joined(comp, u'[t], tmp'[t])
    BY DEF StoresWithin
  <2>1. CASE Reread(t)
    <3>1. /\ u' = u /\ u[t] \in NodeID /\ tmp'[t] = comp[comp[u[t]]] /\ comp[u[t]] \in NodeID
          /\ comp[u[t]] < u[t]
      <4>1. u' = u /\ u[t] \in NodeID /\ tmp'[t] = comp[comp[u[t]]] /\ comp[u[t]] \in NodeID
            /\ comp[u[t]] # u[t] /\ comp[u[t]] <= u[t]
        BY <1>0, <2>1 DEF Reread, TypeOK, Inv, CompressInv, Descends
      <4> QED BY <4>1 DEF NodeID
    <3> QED BY <3>1 DEF Joined, RespectsBelow
  <2>2. CASE ~ Thread(t)
    BY <1>0, <2>2, Others DEF Kept, StoresWithin
  <2>3. CASE Thread(t) /\ ~ Reread(t)
    BY <1>0, <2>3 DEF Thread, HookStep, CompressStep, TakeIteration, NoMoreNeighbors, EndIteration,
                      ReadU, ReadV, ReadHigh, SetChange, Crawl, Continue, Goto, TypeOK
  <2> QED BY <2>1, <2>2, <2>3
<1>4. HookSeen'
  <2> SUFFICES ASSUME change', ~ (\E n \in NodeID : before[n] = n /\ comp[n] # n)
               PROVE  \E t \in Threads : pc'[t] = "hook"
    BY DEF HookSeen
  <2>1. ASSUME NEW t \in Threads, SetChange(t)  PROVE pc'[t] = "hook"
    BY <1>0, <2>1 DEF SetChange, Goto, TypeOK
  <2>2. CASE \A t \in Threads : ~ SetChange(t)
    <3>1. change
      BY <2>2 DEF Next, Thread, HookStep, CompressStep, TakeIteration, NoMoreNeighbors,
                ReadU, ReadV, ReadHigh, Hook, Crawl, Reread, Store,
                EndHooking, EndIterationOrLoop, vars, shared
    <3>2. PICK t \in Threads : pc[t] = "hook"
      BY <1>0, <3>1 DEF Kept, HookSeen
    <3>3. pc'[t] = "hook"
      <4>1. CASE ~ Thread(t)
        BY <1>0, <3>2, <4>1, Others
      <4>2. CASE Thread(t)
        BY <1>0, <3>2, <4>2 DEF Thread, HookStep, CompressStep, TakeIteration, NoMoreNeighbors,
             ReadU, ReadV, ReadHigh, SetChange, Hook, Crawl, Reread, Store
      <4> QED BY <4>1, <4>2
    <3> QED BY <3>3
  <2> QED BY <2>1, <2>2
<1> QED BY <1>1, <1>2, <1>3, <1>4 DEF Kept

LEMMA StepKept == Inv /\ Kept /\ [Next]_vars => Kept'
<1> SUFFICES ASSUME Inv, Kept, [Next]_vars  PROVE Kept'
  OBVIOUS
<1>1. ASSUME NEW t \in Threads, Hook(t)  PROVE Kept'
  BY <1>1, HookKept
<1>2. ASSUME NEW t \in Threads, Store(t)  PROVE Kept'
  BY <1>2, StoreKept
<1>3. CASE EndIterationOrLoop
  BY <1>3, EndLoopKept
<1>4. CASE UNCHANGED vars
  BY <1>4 DEF Kept, RootsKept, HooksRoots, StoresWithin, NothingIsSplit, HookSeen, RootsLost,
              High, vars, shared, locals
<1>5. CASE Next /\ ~ EndIterationOrLoop /\ \A t \in Threads : ~ Hook(t) /\ ~ Store(t)
  <2>1. comp' = comp /\ before' = before /\ num_iter' = num_iter
    BY <1>5 DEF Next, Thread, HookStep, CompressStep, TakeIteration, NoMoreNeighbors,
                ReadU, ReadV, ReadHigh, SetChange, Crawl, Reread, EndHooking, shared
  <2>2. phase' \in {"hook", "compress"} /\ (phase' = "hook" => phase = "hook")
    <3>1. TypeOK /\ Placed
      BY DEF Inv
    <3>2. CASE EndHooking
      BY <3>2 DEF EndHooking
    <3>3. ASSUME NEW t \in Threads, Thread(t)  PROVE phase' = phase /\ phase # "done"
      BY <1>5, <3>1, <3>3
         DEF Placed, Reading, Thread, HookStep, CompressStep, TakeIteration, NoMoreNeighbors,
             ReadU, ReadV, ReadHigh, SetChange, Crawl, Reread, shared
    <3> QED BY <1>5, <3>1, <3>2, <3>3 DEF TypeOK, Next
  <2> QED BY <1>5, <2>1, <2>2, OtherKept
<1> QED BY <1>1, <1>2, <1>3, <1>4, <1>5

\* A hook lost to another one is lost within its iteration: what an iteration
\* has joined no later one splits, and every iteration but the last joins trees,
\* so that cc_sv.cc ends after at most as many iterations as there are vertices.
THEOREM EveryIterationCounts == Spec => []HooksCount
<1>1. Spec => [](Inv /\ Kept)
  <2>1. Init => Inv /\ Kept
    BY InitInv, InitKept
  <2>2. (Inv /\ Kept) /\ [Next]_vars => (Inv /\ Kept)'
    BY StepInv, StepKept
  <2> QED BY <2>1, <2>2, PTL DEF Spec
<1>2. Inv /\ Kept => HooksCount
  <2> SUFFICES ASSUME Inv, Kept  PROVE NothingIsSplit /\ FewIterations
    BY DEF HooksCount
  <2>1. 0 \in Roots(before)
    <3>1. 0 \in NodeID /\ before[0] \in NodeID /\ comp[0] \in NodeID /\ comp[0] <= 0
      BY NAssumption DEF Inv, TypeOK, Descends, NodeID
    <3>2. comp[0] = 0
      BY <3>1 DEF NodeID
    <3> QED BY <3>1, <3>2 DEF Roots, Kept, RootsKept
  <2>2. Cardinality(Roots(before)) # 0 /\ Cardinality(Roots(before)) \in 0 .. N
    BY <2>1, RootsAreFinite, FS_EmptySet
  <2>3. num_iter \in Nat /\ num_iter - 1 + Cardinality(Roots(before)) <= N
    BY DEF Inv, TypeOK, Kept, RootsLost
  <2>4. num_iter <= N
    BY <2>2, <2>3, NAssumption
  <2> QED BY <2>4 DEF Kept, FewIterations
<1> QED BY <1>1, <1>2, PTL
=============================================================================
