-------------------------- MODULE DeltaStep_proofs --------------------------
(***************************************************************************)
(* Proofs about DeltaStep: for every weighted graph, delta, threshold of   *)
(* the fusion and set of threads, no improvement of a distance is lost,    *)
(* bins are relaxed in ascending order, no cell of the frontier is written *)
(* twice, the bin voted for stays, and the distances are the oracle's.     *)
(*                                                                         *)
(* At the end the distances are right because nothing waits any more: an   *)
(* edge that could improve one would have its source somewhere (FirstWork, *)
(* SecondWork), and the oracle is a fixed point that N rounds reach, since *)
(* weights are not negative and each round settles one vertex more.        *)
(***************************************************************************)
EXTENDS DeltaStep, FiniteSetTheorems, TLAPS

Facts == INSTANCE CommonFacts
-----------------------------------------------------------------------------
(***************************************************************************)
(* The invariant.  p is the parity of the iteration: all threads are in    *)
(* its first phase, where sharedIndexes[p] is the current bin, or all are  *)
(* in its second, where sharedIndexes[1 - p] is the bin voted for.         *)
(***************************************************************************)
FirstPhase  == {"while", "for", "check", "relax", "readU", "cas", "vote", "barrier1", "exit"}
SecondPhase == {"single", "claim", "copy", "barrier2"}

Working(p) == \A t \in Threads : pc[t] \in FirstPhase /\ iter[t] = p
Copying(p) == \A t \in Threads :
  /\ pc[t] \in SecondPhase
  /\ iter[t] = IF pc[t] = "barrier2" THEN p + 1 ELSE p

BinOf(d) == d \div Delta

Typed ==
  /\ graph \in WGraphs /\ source \in NodeID
  /\ dist \in [NodeID -> 0 .. DistInf]
  /\ frontier \in Seq(NodeID)
  /\ sharedIndexes \in [0 .. 1 -> 0 .. NoBin]
  /\ frontierTails \in [0 .. 1 -> Nat]
  /\ todo \subseteq 1 .. Len(frontier)
  /\ resetDone \in BOOLEAN
  /\ pc \in [Threads -> Locations] /\ iter \in [Threads -> 0 .. 2]
  /\ localBins \in [Threads -> [Bins -> Seq(NodeID)]]
  /\ batch \in [Threads -> Seq(NodeID)]
  /\ fused \in [Threads -> BOOLEAN]
  /\ edge \in [Threads -> Nat] /\ copyStart \in [Threads -> Nat]
  /\ oldDist \in [Threads -> 0 .. DistInf] /\ newDist \in [Threads -> 0 .. DistInf]

\* What a thread holds where it is.
Held(t) ==
  /\ pc[t] = "check" => Len(batch[t]) = 1 /\ ~ fused[t] /\ edge[t] = 0
  /\ pc[t] \in Relaxing =>
       /\ Len(batch[t]) >= 1 /\ (~ fused[t] => Len(batch[t]) = 1)
       /\ edge[t] <= Len(OutEdges(t))
  /\ pc[t] \in {"readU", "cas"} => edge[t] >= 1
  /\ pc[t] = "readU" => oldDist[t] >= dist[Edge(t).v]
  /\ pc[t] = "cas" => newDist[t] < oldDist[t]
  /\ pc[t] \notin Relaxing \union {"check"} => batch[t] = << >> /\ ~ fused[t] /\ edge[t] = 0

\* The counters, and what is left of the frontier.
FirstCounters(p) ==
  /\ ~ resetDone /\ frontierTails[1 - p] = 0
  /\ sharedIndexes[p] = NoBin => todo = {}
  /\ \A t \in Threads :
       /\ pc[t] \notin {"while", "exit"} => sharedIndexes[p] # NoBin
       /\ pc[t] = "exit" => sharedIndexes[p] = NoBin
       /\ pc[t] \in {"vote", "barrier1"} \/ fused[t] => todo = {}

SecondCounters(p) ==
  /\ todo = {}
  /\ resetDone => sharedIndexes[p] = NoBin /\ frontierTails[p] = 0
  /\ sharedIndexes[1 - p] = NoBin => frontierTails[1 - p] = 0
  /\ \A t \in Threads : pc[t] # "single" => resetDone

\* The distances of what is in the bins, the frontier and the hands of the
\* threads: distances come down, so what is in a bin may belong in a lower one.
BinsBound == \A t \in Threads, b \in Bins : \A i \in 1 .. Len(localBins[t][b]) :
               BinOf(dist[localBins[t][b][i]]) <= b

LowerEmpty(m) == \A t \in Threads, b \in Bins : b < m => localBins[t][b] = << >>

FirstBins(p) ==
  LET m == sharedIndexes[p]
  IN  /\ LowerEmpty(m)
      /\ \A i \in todo : BinOf(dist[frontier[i]]) <= m
      /\ \A t \in Threads :
           /\ m # NoBin => \A i \in 1 .. Len(localBins[t][m]) : BinOf(dist[localBins[t][m][i]]) >= m
           /\ pc[t] = "check" => BinOf(dist[batch[t][1]]) <= m
           /\ pc[t] \in Relaxing => \A i \in 1 .. Len(batch[t]) : BinOf(dist[batch[t][i]]) = m
           /\ pc[t] = "cas" => BinOf(newDist[t]) >= m
           /\ pc[t] = "barrier1" =>
                \A b \in Bins : localBins[t][b] # << >> => sharedIndexes[1 - p] <= b

SecondBins(p) ==
  LET m == sharedIndexes[1 - p]
  IN  /\ LowerEmpty(m)
      /\ \A t \in Threads : pc[t] = "barrier2" /\ m # NoBin => localBins[t][m] = << >>

\* Where the threads copy to, and the cells copied so far.
Share(t, p) == IF sharedIndexes[1 - p] = NoBin THEN << >> ELSE localBins[t][sharedIndexes[1 - p]]
CopyEnd(t, p) == copyStart[t] + Len(Share(t, p))
Claimed(i, p) == \E t \in Threads : pc[t] = "copy" /\ copyStart[t] < i /\ i <= CopyEnd(t, p)

Cells(p) ==
  /\ \A t \in Threads : pc[t] = "copy" => CopyEnd(t, p) <= frontierTails[1 - p]
  /\ \A s, t \in Threads : s # t /\ pc[s] = "copy" /\ pc[t] = "copy" =>
       CopyEnd(s, p) <= copyStart[t] \/ CopyEnd(t, p) <= copyStart[s]
  /\ \A i \in 1 .. frontierTails[1 - p] :
       ~ Claimed(i, p) => i <= Len(frontier) /\ BinOf(dist[frontier[i]]) <= sharedIndexes[1 - p]

\* The places where a vertex waits whose edge j could improve a distance.
Improvable(x, j) == dist[x] + graph.out[x][j].w < dist[graph.out[x][j].v]

Listed(x) == \E i \in todo : frontier[i] = x
Copied(x, p) == /\ \E t \in Threads : pc[t] = "barrier2"
                /\ \E i \in 1 .. frontierTails[1 - p] : ~ Claimed(i, p) /\ frontier[i] = x
Checked(x) == \E t \in Threads : pc[t] = "check" /\ batch[t][1] = x
Relaxed(t, x, j) ==
  /\ pc[t] \in Relaxing
  /\ \/ \E i \in 1 .. Len(batch[t]) : batch[t][i] = x /\ (i > 1 \/ edge[t] < j)
     \/ /\ batch[t][1] = x /\ edge[t] = j
        /\ pc[t] = "readU" \/ (pc[t] = "cas" /\ newDist[t] = dist[x] + Edge(t).w)

FirstWork(p) ==
  \A x \in NodeID : \A j \in 1 .. Len(graph.out[x]) : Improvable(x, j) =>
    \/ InBin(x)
    \/ BinOf(dist[x]) = sharedIndexes[p] /\ (Listed(x) \/ Checked(x))
    \/ \E t \in Threads : Relaxed(t, x, j)

SecondWork(p) ==
  \A x \in NodeID : \A j \in 1 .. Len(graph.out[x]) : Improvable(x, j) =>
    \/ InBin(x)
    \/ BinOf(dist[x]) = sharedIndexes[1 - p] /\ Copied(x, p)

\* No distance is, or is about to be, too short.
LongEnough ==
  /\ dist[source] = 0
  /\ \A n \in NodeID : dist[n] >= OracleDist(graph, source)[n]
  /\ \A t \in Threads : pc[t] = "cas" => newDist[t] >= OracleDist(graph, source)[Edge(t).v]

First(p)  == Working(p) /\ FirstCounters(p) /\ FirstBins(p) /\ FirstWork(p)
Second(p) == Copying(p) /\ SecondCounters(p) /\ SecondBins(p) /\ Cells(p) /\ SecondWork(p)
Always    == Typed /\ (\A t \in Threads : Held(t)) /\ BinsBound /\ LongEnough

IInv == Always /\ \E p \in 0 .. 1 : First(p) \/ Second(p)

-----------------------------------------------------------------------------
(* Numbers, bins and edges. *)

LEMMA BinFacts ==
  ASSUME DeltaStepAssumption, NEW d \in Nat
  PROVE  /\ BinOf(d) \in Nat
         /\ \A b \in Nat : d >= Delta * b <=> BinOf(d) >= b
         /\ \A e \in Nat : d <= e => BinOf(d) <= BinOf(e)
<1>1. Delta \in Nat /\ Delta > 0
  BY DEF DeltaStepAssumption
<1>2. \A e \in Nat : BinOf(e) \in Nat /\ Delta * BinOf(e) <= e /\ e < Delta * BinOf(e) + Delta
  BY <1>1 DEF BinOf
<1>3. \A a, b \in Nat : a < b => Delta * a + Delta <= Delta * b
  <2> SUFFICES ASSUME NEW a \in Nat, NEW b \in Nat, a < b  PROVE Delta * a + Delta <= Delta * b
    OBVIOUS
  <2>1. Delta * b = Delta * a + Delta * (b - a)
    BY <1>1
  <2>2. Delta * (b - a) = Delta + Delta * (b - a - 1) /\ Delta * (b - a - 1) >= 0
    BY <1>1
  <2>3. Delta * a \in Nat /\ Delta * (b - a) \in Int /\ Delta * (b - a - 1) \in Int
    BY <1>1
  <2> QED BY <1>1, <2>1, <2>2, <2>3
<1>4. \A a \in Nat : Delta * a \in Nat
  BY <1>1
<1>5. ASSUME NEW e \in Nat, NEW b \in Nat  PROVE e >= Delta * b <=> BinOf(e) >= b
  <2>1. BinOf(e) \in Nat /\ Delta * b \in Nat /\ Delta * BinOf(e) \in Nat
        /\ Delta * BinOf(e) <= e /\ e < Delta * BinOf(e) + Delta
    BY <1>2, <1>4
  <2>2. CASE BinOf(e) < b
    BY <1>1, <1>3, <2>1, <2>2
  <2>3. CASE BinOf(e) = b
    BY <2>1, <2>3
  <2>4. CASE BinOf(e) > b
    <3>1. Delta * b + Delta <= Delta * BinOf(e)
      BY <1>3, <2>1, <2>4
    <3> QED BY <1>1, <2>1, <2>4, <3>1
  <2> QED BY <2>1, <2>2, <2>3, <2>4
<1>6. ASSUME NEW e \in Nat, d <= e  PROVE BinOf(d) <= BinOf(e)
  <2>1. BinOf(d) \in Nat /\ BinOf(e) \in Nat /\ Delta * BinOf(d) \in Nat
    BY <1>2, <1>4
  <2>2. d >= Delta * BinOf(d)
    BY <1>2
  <2>3. e >= Delta * BinOf(d)
    BY <1>6, <2>1, <2>2
  <2> QED BY <1>5, <2>1, <2>3
<1> QED BY <1>2, <1>5, <1>6

LEMMA InfFacts ==
  ASSUME DeltaStepAssumption
  PROVE  /\ DistInf \in Nat /\ NoBin \in Nat /\ NoBin = MaxBin + 1 /\ MaxBin \in Nat
         /\ \A d \in 0 .. DistInf : BinOf(d) \in 0 .. NoBin
         /\ \A d \in Nat : d < DistInf => BinOf(d) \in Bins
<1>1. DistInf \in Nat /\ NoBin \in Nat /\ NoBin = MaxBin + 1 /\ MaxBin \in Nat
  BY DEF DeltaStepAssumption, DistInf, NoBin
<1>2. ASSUME NEW d \in Nat, d < DistInf  PROVE BinOf(d) \in Bins
  <2>1. BinOf(d) \in Nat /\ (d >= Delta * (MaxBin + 1) <=> BinOf(d) >= MaxBin + 1)
    BY <1>1, BinFacts
  <2> QED BY <1>1, <1>2, <2>1 DEF DistInf, Bins
<1>3. BinOf(DistInf) = MaxBin + 1
  BY <1>1 DEF DeltaStepAssumption, BinOf, DistInf
<1>4. ASSUME NEW d \in 0 .. DistInf  PROVE BinOf(d) \in 0 .. NoBin
  BY <1>1, <1>3, <1>4, BinFacts
<1> QED BY <1>1, <1>2, <1>4

LEMMA SeqFacts ==
  ASSUME NEW S, NEW s \in Seq(S)
  PROVE  /\ Len(s) \in Nat /\ \A i \in 1 .. Len(s) : s[i] \in S
         /\ Len(s) >= 1 => s # << >> /\ Head(s) = s[1]
         /\ s # << >> => Len(s) >= 1
  OBVIOUS

\* The edge a thread is at, and the distances at its ends.
LEMMA EdgeFacts ==
  ASSUME DeltaStepAssumption, Typed, NEW t \in Threads, Held(t)
  PROVE  /\ pc[t] \in Relaxing \union {"check"} => Head(batch[t]) = batch[t][1] /\ batch[t][1] \in NodeID
         /\ pc[t] \in Relaxing => OutEdges(t) = graph.out[batch[t][1]] /\ Len(OutEdges(t)) \in Nat
         /\ pc[t] \in {"readU", "cas"} => Edge(t) \in [v : NodeID, w : Nat]
<1>1. graph.out \in [NodeID -> Seq([v : NodeID, w : Nat])]
  BY DEF DeltaStepAssumption, Typed
<1>2. ASSUME pc[t] \in Relaxing \union {"check"}
      PROVE  Head(batch[t]) = batch[t][1] /\ batch[t][1] \in NodeID /\ batch[t] # << >>
  <2>1. batch[t] \in Seq(NodeID)
    BY DEF Typed
  <2>2. Len(batch[t]) >= 1
    <3>1. pc[t] = "check" => Len(batch[t]) = 1
      BY DEF Held
    <3>2. pc[t] \in Relaxing => Len(batch[t]) >= 1
      BY DEF Held
    <3> QED BY <1>2, <3>1, <3>2
  <2> QED BY <2>1, <2>2, SeqFacts
<1>3. ASSUME pc[t] \in Relaxing
      PROVE OutEdges(t) = graph.out[batch[t][1]] /\ OutEdges(t) \in Seq([v : NodeID, w : Nat])
  BY <1>1, <1>2, <1>3 DEF OutEdges
<1>4. ASSUME pc[t] \in {"readU", "cas"}  PROVE Edge(t) \in [v : NodeID, w : Nat]
  <2>1. edge[t] \in 1 .. Len(OutEdges(t)) /\ pc[t] \in Relaxing
    BY <1>3, <1>4 DEF Held, Typed, Relaxing
  <2>2. \A i \in 1 .. Len(OutEdges(t)) : OutEdges(t)[i] \in [v : NodeID, w : Nat]
    BY <1>3, <2>1, SeqFacts
  <2> QED BY <2>1, <2>2 DEF Edge
<1> QED BY <1>2, <1>3, <1>4

LEMMA EdgesTyped ==
  ASSUME DeltaStepAssumption, Typed, NEW x \in NodeID
  PROVE  /\ Len(graph.out[x]) \in Nat
         /\ \A j \in 1 .. Len(graph.out[x]) : graph.out[x][j].v \in NodeID /\ graph.out[x][j].w \in Nat
<1>1. graph.out[x] \in Seq([v : NodeID, w : Nat])
  BY DEF DeltaStepAssumption, Typed
<1>2. /\ Len(graph.out[x]) \in Nat
      /\ \A j \in 1 .. Len(graph.out[x]) : graph.out[x][j] \in [v : NodeID, w : Nat]
  BY <1>1, SeqFacts
<1> QED BY <1>2

-----------------------------------------------------------------------------
(* The oracle: N rounds over all edges bring the distances to a fixpoint,    *)
(* because each round settles one more vertex.                               *)

Start(s) == [n \in NodeID |-> IF n = s THEN 0 ELSE DistInf]

\* No edge makes a path shorter.
NoShortcut(g, d) == \A x \in NodeID : \A j \in 1 .. Len(g.out[x]) : d[g.out[x][j].v] <= d[x] + g.out[x][j].w

LEMMA EdgesOf ==
  ASSUME DeltaStepAssumption, NEW g \in WGraphs, NEW x \in NodeID
  PROVE  /\ Len(g.out[x]) \in Nat
         /\ \A j \in 1 .. Len(g.out[x]) : g.out[x][j].v \in NodeID /\ g.out[x][j].w \in Nat
<1>1. g.out[x] \in Seq([v : NodeID, w : Nat])
  BY DEF DeltaStepAssumption
<1>2. /\ Len(g.out[x]) \in Nat
      /\ \A j \in 1 .. Len(g.out[x]) : g.out[x][j] \in [v : NodeID, w : Nat]
  BY <1>1, SeqFacts
<1> QED BY <1>2

LEMMA RoundFacts ==
  ASSUME DeltaStepAssumption, NEW g \in WGraphs, NEW d \in [NodeID -> Nat]
  PROVE  /\ Round(g, d) \in [NodeID -> Nat]
         /\ \A n \in NodeID : Round(g, d)[n] <= d[n]
         /\ \A x \in NodeID : \A j \in 1 .. Len(g.out[x]) :
              Round(g, d)[g.out[x][j].v] <= d[x] + g.out[x][j].w
         /\ \A n \in NodeID : Round(g, d)[n] = d[n] \/
              \E x \in NodeID : \E j \in 1 .. Len(g.out[x]) :
                g.out[x][j].v = n /\ Round(g, d)[n] = d[x] + g.out[x][j].w
<1> DEFINE Q(n) == Reaching(g, d, n)
<1>1. ASSUME NEW n \in NodeID, NEW k
      PROVE  k \in Q(n) <=> \/ k = d[n]
                            \/ \E x \in NodeID : \E j \in 1 .. Len(g.out[x]) :
                                 g.out[x][j].v = n /\ k = d[x] + g.out[x][j].w
  BY DEF Reaching
<1>2. ASSUME NEW n \in NodeID
      PROVE  Least(Q(n)) \in Q(n) /\ Q(n) \subseteq Nat /\ \A k \in Q(n) : Least(Q(n)) <= k
  <2>1. Q(n) \subseteq Nat
    <3>1. \A x \in NodeID : \A j \in 1 .. Len(g.out[x]) : d[x] + g.out[x][j].w \in Nat
      BY EdgesOf
    <3> QED BY <1>1, <3>1
  <2>2. d[n] \in Q(n)
    BY <1>1
  <2> HIDE DEF Q
  <2>3. \E m \in Q(n) : \A k \in Q(n) : m <= k
    BY <2>1, <2>2, Facts!LeastNumber DEF DeltaStepAssumption
  <2> QED BY <2>1, <2>3 DEF Least
<1>3. \A n \in NodeID : Round(g, d)[n] = Least(Q(n))
  BY DEF Round
<1>4. Round(g, d) \in [NodeID -> Nat]
  <2>1. \A n \in NodeID : Least(Q(n)) \in Nat
    BY <1>2
  <2> QED BY <2>1 DEF Round
<1> HIDE DEF Q
<1>5. ASSUME NEW n \in NodeID  PROVE Round(g, d)[n] <= d[n]
  BY <1>1, <1>2, <1>3
<1>6. ASSUME NEW x \in NodeID, NEW j \in 1 .. Len(g.out[x])
      PROVE  Round(g, d)[g.out[x][j].v] <= d[x] + g.out[x][j].w
  <2>1. g.out[x][j].v \in NodeID
    BY EdgesOf
  <2>2. d[x] + g.out[x][j].w \in Q(g.out[x][j].v)
    BY <1>1, <2>1
  <2> QED BY <1>2, <1>3, <2>1, <2>2
<1>7. ASSUME NEW n \in NodeID
      PROVE Round(g, d)[n] = d[n] \/
              \E x \in NodeID : \E j \in 1 .. Len(g.out[x]) :
                g.out[x][j].v = n /\ Round(g, d)[n] = d[x] + g.out[x][j].w
  <2>1. Round(g, d)[n] \in Q(n)
    BY <1>2, <1>3
  <2> QED BY <1>1, <2>1
<1> QED BY <1>4, <1>5, <1>6, <1>7

LEMMA OracleRounds ==
  ASSUME DeltaStepAssumption, NEW g \in WGraphs, NEW s \in NodeID
  PROVE  \E R \in [0 .. N -> [NodeID -> Nat]] :
           /\ R[0] = Start(s) /\ \A i \in 0 .. (N - 1) : R[i + 1] = Round(g, R[i])
           /\ OracleDist(g, s) = R[N]
<1> DEFINE D == [NodeID -> Nat]
           F == [d \in D |-> Round(g, d)]
           body(h) == [i \in 0 .. N |-> IF i = 0 THEN Start(s) ELSE Round(g, h[i - 1])]
           R == CHOOSE h : h = body(h)
<1>0. N \in Nat
  BY DEF DeltaStepAssumption
<1>1. F \in [D -> D]
  BY RoundFacts
<1>2. Start(s) \in D
  BY InfFacts DEF Start
<1>3. \E h : h = body(h)
  <2>1. PICK h \in [0 .. N -> D] : Facts!IsIteration(h, N, F, Start(s))
    <3> HIDE DEF F, D
    <3> QED BY <1>0, <1>1, <1>2, Facts!Iteration DEF DeltaStepAssumption
  <2>2. ASSUME NEW i \in 0 .. N, i # 0  PROVE F[h[i - 1]] = Round(g, h[i - 1])
    <3>1. i - 1 \in 0 .. N
      BY <2>2, <1>0
    <3>2. h[i - 1] \in D
      BY <2>1, <3>1
    <3> QED BY <3>2
  <2> HIDE DEF F, D
  <2>3. h = body(h)
    BY <2>1, <2>2 DEF Facts!IsIteration
  <2> QED BY <2>3
<1>4. R = body(R)
  <2> HIDE DEF body
  <2> QED BY <1>3
<1>5. OracleDist(g, s) = R[N]
  BY DEF OracleDist, Start
<1> HIDE DEF R
<1>6. R[0] = Start(s) /\ \A i \in 0 .. (N - 1) : R[i + 1] = Round(g, R[i])
  <2>1. R[0] = Start(s)
    BY <1>0, <1>4
  <2>2. ASSUME NEW i \in 0 .. (N - 1)  PROVE R[i + 1] = Round(g, R[i])
    <3>1. i + 1 \in 0 .. N /\ i + 1 # 0 /\ (i + 1) - 1 = i
      BY <1>0
    <3> QED BY <1>4, <3>1
  <2> QED BY <2>1, <2>2
<1>7. R \in [0 .. N -> D]
  <2> DEFINE T == {i \in 0 .. N : R[i] \in D}
  <2>1. 0 \in T
    BY <1>0, <1>2, <1>6
  <2>2. ASSUME NEW i \in 0 .. (N - 1), i \in T  PROVE i + 1 \in T
    <3>1. Round(g, R[i]) \in D
      BY <2>2, RoundFacts
    <3> QED BY <1>0, <1>6, <3>1
  <2>3. 0 .. N \subseteq T
    <3> HIDE DEF T
    <3> QED BY <1>0, <2>1, <2>2, Facts!AllUpTo DEF DeltaStepAssumption
  <2> HIDE DEF D
  <2>4. \A i \in 0 .. N : R[i] \in D
    BY <2>3
  <2> QED BY <1>4, <2>4
<1> HIDE DEF D
<1> QED BY <1>5, <1>6, <1>7 DEF D

\* A vertex is settled once no later round can bring it a shorter path.
LEMMA RoundsSettle ==
  ASSUME DeltaStepAssumption, NEW g \in WGraphs, NEW s \in NodeID, NEW R \in [0 .. N -> [NodeID -> Nat]],
         R[0] = Start(s), \A i \in 0 .. (N - 1) : R[i + 1] = Round(g, R[i])
  PROVE  R[N] = R[N - 1]
<1> DEFINE Changed(i) == {u \in NodeID : R[i + 1][u] < R[i][u]}
           Settled(i, S) == \A v \in S : \A u \in Changed(i) : R[i][v] <= R[i + 1][u]
           T == {i \in 0 .. (N - 1) : Changed(i) = {} \/
                   \E S \in SUBSET NodeID : Cardinality(S) >= i + 1 /\ Settled(i, S)}
<1>0. N \in Nat /\ N >= 1 /\ IsFiniteSet(NodeID) /\ Cardinality(NodeID) = N
  <2>1. N \in Nat /\ N >= 1
    BY DEF DeltaStepAssumption
  <2> QED BY <2>1, FS_Interval DEF NodeID
<1>1. \A i \in 0 .. N : \A n \in NodeID : R[i][n] \in Nat
  OBVIOUS
<1>2. ASSUME NEW i \in 0 .. (N - 1)  PROVE \A n \in NodeID : R[i + 1][n] <= R[i][n]
  <2>1. R[i] \in [NodeID -> Nat] /\ R[i + 1] = Round(g, R[i])
    BY <1>0
  <2> QED BY <2>1, RoundFacts
<1>3. 0 \in T
  <2>1. IsFiniteSet({s}) /\ Cardinality({s}) = 1 /\ {s} \in SUBSET NodeID
    BY FS_Singleton
  <2>2. R[0][s] = 0
    BY DEF Start
  <2>3. \A u \in Changed(0) : 0 <= R[1][u]
    BY <1>0, <1>1
  <2>4. Settled(0, {s}) /\ Cardinality({s}) >= 0 + 1
    BY <2>1, <2>2, <2>3
  <2>5. 0 \in 0 .. (N - 1)
    BY <1>0
  <2> HIDE DEF Settled, Changed
  <2>6. \E S \in SUBSET NodeID : Cardinality(S) >= 0 + 1 /\ Settled(0, S)
    BY <2>1, <2>4, Zenon
  <2> QED BY <2>5, <2>6, Zenon
<1>4. ASSUME NEW i \in 0 .. (N - 1 - 1), i \in T  PROVE i + 1 \in T
  <2>0. i \in 0 .. (N - 1) /\ i \in 0 .. N /\ i + 1 \in 0 .. (N - 1) /\ i + 2 \in 0 .. N /\ i + 1 + 1 = i + 2 /\ i + 1 \in 0 .. N
    BY <1>0
  <2>1. ASSUME NEW u \in Changed(i + 1)
        PROVE \E x \in Changed(i) : R[i + 1][x] <= R[i + 2][u]
    <3>1. R[i + 2] = Round(g, R[i + 1]) /\ R[i + 1] = Round(g, R[i])
          /\ R[i] \in [NodeID -> Nat] /\ R[i + 1] \in [NodeID -> Nat] /\ R[i + 2] \in [NodeID -> Nat]
      <4>1. R[i + 1] = Round(g, R[i])
        BY <2>0
      <4>2. R[i + 1 + 1] = Round(g, R[i + 1])
        BY <2>0
      <4>3. R[i] \in [NodeID -> Nat] /\ R[i + 1] \in [NodeID -> Nat] /\ R[i + 2] \in [NodeID -> Nat]
        BY <1>0, <2>0
      <4> QED BY <2>0, <4>1, <4>2, <4>3
    <3>2. u \in NodeID /\ R[i + 2][u] < R[i + 1][u]
      BY <2>0, <2>1
    <3>3. R[i + 2][u] # R[i + 1][u]
      BY <3>1, <3>2
    <3>4. PICK x \in NodeID : \E j \in 1 .. Len(g.out[x]) :
            g.out[x][j].v = u /\ R[i + 2][u] = R[i + 1][x] + g.out[x][j].w
      <4>1. Round(g, R[i + 1])[u] = R[i + 1][u] \/
              \E x \in NodeID : \E j \in 1 .. Len(g.out[x]) :
                g.out[x][j].v = u /\ Round(g, R[i + 1])[u] = R[i + 1][x] + g.out[x][j].w
        BY <3>1, <3>2, RoundFacts
      <4> QED BY <3>1, <3>3, <4>1
    <3>5. PICK j \in 1 .. Len(g.out[x]) :
            g.out[x][j].v = u /\ R[i + 2][u] = R[i + 1][x] + g.out[x][j].w
      BY <3>4
    <3>6. g.out[x][j].w \in Nat
      BY EdgesOf
    <3>7. R[i + 1][u] <= R[i][x] + g.out[x][j].w
      BY <3>1, <3>5, RoundFacts
    <3>8. R[i + 1][x] <= R[i][x] /\ R[i][x] \in Nat /\ R[i + 1][x] \in Nat /\ R[i + 1][u] \in Nat
      BY <1>2, <2>0, <3>1, <3>2
    <3>9. R[i + 1][x] # R[i][x]
      <4>1. \A a, b, c, e, w \in Nat : a < b /\ a = c + w /\ b <= e + w => c # e
        OBVIOUS
      <4>2. R[i + 2][u] \in Nat
        BY <3>1, <3>2
      <4> QED BY <3>2, <3>5, <3>6, <3>7, <3>8, <4>1, <4>2
    <3>10. x \in Changed(i)
      BY <3>8, <3>9
    <3>11. R[i + 1][x] <= R[i + 2][u]
      BY <3>5, <3>6, <3>8
    <3> QED BY <3>10, <3>11
  <2>2. CASE Changed(i) = {}
    <3>1. Changed(i + 1) = {}
      <4> HIDE DEF Changed
      <4> QED BY <2>1, <2>2
    <3> QED BY <2>0, <3>1
  <2>3. CASE Changed(i) # {}
    <3>1. PICK S \in SUBSET NodeID : Cardinality(S) >= i + 1 /\ Settled(i, S)
      BY <2>3, <1>4
    <3>2. PICK x \in Changed(i) : \A y \in Changed(i) : R[i + 1][x] <= R[i + 1][y]
      <4> DEFINE V == {R[i + 1][y] : y \in Changed(i)}
      <4>1. V \in SUBSET Nat /\ V # {}
        BY <1>1, <2>0, <2>3
      <4>2. \E m \in V : \A n \in V : m <= n
        <5> HIDE DEF V
        <5> QED BY <4>1, Facts!LeastNumber DEF DeltaStepAssumption
      <4> QED BY <4>2
    <3>3. x \in NodeID /\ R[i + 1][x] < R[i][x]
      OBVIOUS
    <3>4. x \notin S
      <4>1. x \in S => R[i][x] <= R[i + 1][x]
        BY <3>1
      <4>2. R[i][x] \in Nat /\ R[i + 1][x] \in Nat
        BY <1>1, <2>0, <3>3
      <4> QED BY <3>3, <4>1, <4>2
    <3>5. S \union {x} \in SUBSET NodeID /\ Cardinality(S \union {x}) >= i + 2
      <4>1. IsFiniteSet(S) /\ Cardinality(S) \in Nat
        BY <1>0, FS_Subset, FS_CardinalityType
      <4>2. Cardinality(S \union {x}) = Cardinality(S) + 1
        BY <3>4, <4>1, FS_AddElement
      <4> QED BY <2>0, <3>1, <3>3, <4>1, <4>2
    <3>6. Settled(i + 1, S \union {x})
      <4> SUFFICES ASSUME NEW v \in S \union {x}, NEW u \in Changed(i + 1)
                   PROVE  R[i + 1][v] <= R[i + 2][u]
        BY <2>0
      <4>1. PICK y \in Changed(i) : R[i + 1][y] <= R[i + 2][u]
        BY <2>1
      <4>2. y \in NodeID /\ u \in NodeID
        OBVIOUS
      <4>3. R[i + 1][v] <= R[i + 1][y]
        <5>1. CASE v = x
          BY <3>2, <5>1
        <5>2. CASE v \in S
          <6>1. R[i][v] <= R[i + 1][y] /\ R[i + 1][v] <= R[i][v]
            BY <1>2, <2>0, <3>1, <5>2
          <6>2. R[i][v] \in Nat /\ R[i + 1][v] \in Nat /\ R[i + 1][y] \in Nat
            BY <1>1, <1>0, <2>0, <4>2, <5>2
          <6> QED BY <6>1, <6>2
        <5> QED BY <5>1, <5>2
      <4>4. R[i + 1][v] \in Nat /\ R[i + 1][y] \in Nat /\ R[i + 2][u] \in Nat
        BY <1>1, <2>0, <3>3, <4>2
      <4> QED BY <4>1, <4>3, <4>4
    <3> HIDE DEF Settled, Changed
    <3> QED BY <2>0, <3>5, <3>6
  <2> QED BY <2>2, <2>3
<1>5. N - 1 \in T
  <2> HIDE DEF T
  <2>1. N - 1 \in Nat
    BY <1>0
  <2>2. 0 .. (N - 1) \subseteq T
    BY <1>3, <1>4, <2>1, Facts!AllUpTo DEF DeltaStepAssumption
  <2> QED BY <2>1, <2>2
<1>6. Changed(N - 1) = {}
  <2>1. ASSUME NEW S \in SUBSET NodeID, Cardinality(S) >= N - 1 + 1, Settled(N - 1, S)
        PROVE  Changed(N - 1) = {}
    <3>1. Cardinality(S) \in Nat /\ Cardinality(S) >= N /\ Cardinality(S) <= N
      BY <1>0, <2>1, FS_Subset, FS_CardinalityType
    <3>2. S = NodeID
      BY <1>0, <3>1, FS_Subset
    <3>3. N - 1 \in 0 .. N /\ N - 1 + 1 = N
      BY <1>0
    <3> SUFFICES ASSUME NEW u \in Changed(N - 1)  PROVE FALSE
      OBVIOUS
    <3>4. R[N - 1][u] <= R[N][u] /\ R[N][u] < R[N - 1][u]
      BY <2>1, <3>2, <3>3
    <3> QED BY <1>0, <1>1, <3>3, <3>4
  <2> QED BY <1>5, <2>1
<1>7. \A n \in NodeID : R[N][n] = R[N - 1][n]
  <2>1. N - 1 \in 0 .. (N - 1) /\ N - 1 + 1 = N /\ N - 1 \in 0 .. N /\ N \in 0 .. N
    BY <1>0
  <2>2. \A n \in NodeID : R[N][n] <= R[N - 1][n] /\ ~ (R[N][n] < R[N - 1][n])
    BY <1>2, <1>6, <2>1
  <2> QED BY <1>1, <2>1, <2>2
<1>8. R[N] \in [NodeID -> Nat] /\ R[N - 1] \in [NodeID -> Nat]
  BY <1>0
<1> QED BY <1>7, <1>8

LEMMA OracleFacts ==
  ASSUME DeltaStepAssumption, NEW g \in WGraphs, NEW s \in NodeID
  PROVE  /\ OracleDist(g, s) \in [NodeID -> 0 .. DistInf] /\ OracleDist(g, s)[s] = 0
         /\ NoShortcut(g, OracleDist(g, s))
         /\ \A d \in [NodeID -> 0 .. DistInf] :
              d[s] = 0 /\ NoShortcut(g, d) => \A n \in NodeID : d[n] <= OracleDist(g, s)[n]
<1>0. N \in Nat /\ N >= 1 /\ N - 1 \in 0 .. (N - 1) /\ N - 1 + 1 = N /\ N \in 0 .. N /\ N - 1 \in 0 .. N
  BY DEF DeltaStepAssumption
<1>1. PICK R \in [0 .. N -> [NodeID -> Nat]] :
        /\ R[0] = Start(s) /\ \A i \in 0 .. (N - 1) : R[i + 1] = Round(g, R[i])
        /\ OracleDist(g, s) = R[N]
  BY OracleRounds
<1>2. ASSUME NEW n \in NodeID  PROVE \A i \in 0 .. N : R[i][n] <= Start(s)[n]
  <2> DEFINE T == {i \in 0 .. N : R[i][n] <= Start(s)[n]}
  <2>0. Start(s)[n] \in Nat
    BY InfFacts DEF Start
  <2>1. 0 \in T
    BY <1>0, <1>1, <2>0
  <2>2. ASSUME NEW i \in 0 .. (N - 1), i \in T  PROVE i + 1 \in T
    <3>1. R[i] \in [NodeID -> Nat] /\ R[i + 1] \in [NodeID -> Nat] /\ R[i + 1] = Round(g, R[i]) /\ i + 1 \in 0 .. N
      BY <1>0, <1>1
    <3>2. R[i + 1][n] <= R[i][n] /\ R[i][n] <= Start(s)[n]
      BY <2>2, <3>1, RoundFacts
    <3> QED BY <2>0, <3>1, <3>2
  <2>3. 0 .. N \subseteq T
    <3> HIDE DEF T
    <3> QED BY <1>0, <2>1, <2>2, Facts!AllUpTo DEF DeltaStepAssumption
  <2> QED BY <2>3
<1>3. R[N] \in [NodeID -> 0 .. DistInf] /\ R[N][s] = 0
  <2>1. \A n \in NodeID : R[N][n] \in 0 .. DistInf /\ (n = s => R[N][n] = 0)
    BY <1>0, <1>1, <1>2, InfFacts DEF Start
  <2>2. R[N] \in [NodeID -> Nat]
    BY <1>0, <1>1
  <2> QED BY <2>1, <2>2
<1>4. NoShortcut(g, R[N])
  <2>1. R[N] = R[N - 1]
    BY <1>1, RoundsSettle
  <2>2. R[N] = Round(g, R[N - 1]) /\ R[N - 1] \in [NodeID -> Nat]
    BY <1>0, <1>1
  <2> QED BY <2>1, <2>2, RoundFacts DEF NoShortcut
<1>5. ASSUME NEW d \in [NodeID -> 0 .. DistInf], d[s] = 0, NoShortcut(g, d)
      PROVE  \A n \in NodeID : d[n] <= R[N][n]
  <2> DEFINE T == {i \in 0 .. N : \A n \in NodeID : d[n] <= R[i][n]}
  <2>0. \A n \in NodeID : d[n] \in 0 .. DistInf /\ d[n] \in Nat
    BY InfFacts
  <2>1. 0 \in T
    <3>1. \A n \in NodeID : d[n] <= Start(s)[n]
      BY <1>5, <2>0, InfFacts DEF Start
    <3> QED BY <1>0, <1>1, <3>1
  <2>2. ASSUME NEW i \in 0 .. (N - 1), i \in T  PROVE i + 1 \in T
    <3>1. R[i] \in [NodeID -> Nat] /\ R[i + 1] = Round(g, R[i]) /\ i + 1 \in 0 .. N
      BY <1>0, <1>1
    <3>2. ASSUME NEW n \in NodeID  PROVE d[n] <= R[i + 1][n]
      <4>1. CASE R[i + 1][n] = R[i][n]
        BY <2>2, <4>1
      <4>2. CASE R[i + 1][n] # R[i][n]
        <5>0. PICK x \in NodeID : \E j \in 1 .. Len(g.out[x]) :
                g.out[x][j].v = n /\ R[i + 1][n] = R[i][x] + g.out[x][j].w
          <6>1. Round(g, R[i])[n] = R[i][n] \/
                  \E x \in NodeID : \E j \in 1 .. Len(g.out[x]) :
                    g.out[x][j].v = n /\ Round(g, R[i])[n] = R[i][x] + g.out[x][j].w
            BY <3>1, RoundFacts
          <6> QED BY <3>1, <4>2, <6>1
        <5>1. PICK j \in 1 .. Len(g.out[x]) : g.out[x][j].v = n /\ R[i + 1][n] = R[i][x] + g.out[x][j].w
          BY <5>0
        <5>2. d[n] <= d[x] + g.out[x][j].w /\ d[x] <= R[i][x]
          BY <1>5, <2>2, <5>1 DEF NoShortcut
        <5>3. g.out[x][j].w \in Nat /\ R[i][x] \in Nat
          BY <3>1, EdgesOf
        <5>4. \A a, b, c, w \in Nat : a <= b + w /\ b <= c => a <= c + w
          OBVIOUS
        <5> QED BY <2>0, <5>1, <5>2, <5>3, <5>4
      <4> QED BY <4>1, <4>2
    <3> QED BY <3>1, <3>2
  <2>3. 0 .. N \subseteq T
    <3> HIDE DEF T
    <3> QED BY <1>0, <2>1, <2>2, Facts!AllUpTo DEF DeltaStepAssumption
  <2> QED BY <1>0, <2>3
<1> QED BY <1>1, <1>3, <1>4, <1>5

-----------------------------------------------------------------------------
(* What a thread holds does not change by the steps of another one, except   *)
(* that distances come down.                                                 *)

SameHands(s) ==
  /\ pc'[s] = pc[s] /\ batch'[s] = batch[s] /\ fused'[s] = fused[s] /\ edge'[s] = edge[s]
  /\ oldDist'[s] = oldDist[s] /\ newDist'[s] = newDist[s]

Shorter == graph' = graph /\ source' = source /\ \A n \in NodeID : dist'[n] <= dist[n]

LEMMA HeldKept ==
  ASSUME DeltaStepAssumption, Typed, Typed', NEW s \in Threads, Held(s), SameHands(s), Shorter
  PROVE  Held(s)'
<1>1. Edge(s)' = Edge(s) /\ OutEdges(s)' = OutEdges(s)
  BY DEF SameHands, Shorter, Edge, OutEdges
<1>2. (pc[s] = "check" => Len(batch[s]) = 1 /\ ~ fused[s] /\ edge[s] = 0)'
  BY DEF SameHands, Held
<1>3. (pc[s] \in Relaxing =>
         /\ Len(batch[s]) >= 1 /\ (~ fused[s] => Len(batch[s]) = 1)
         /\ edge[s] <= Len(OutEdges(s)))'
  BY <1>1 DEF SameHands, Held
<1>4. (pc[s] \in {"readU", "cas"} => edge[s] >= 1)'
  BY DEF SameHands, Held
<1>5. (pc[s] = "readU" => oldDist[s] >= dist[Edge(s).v])'
  <2> SUFFICES ASSUME pc[s] = "readU"  PROVE oldDist[s] >= dist'[Edge(s).v]
    BY <1>1 DEF SameHands
  <2>1. Edge(s).v \in NodeID
    BY EdgeFacts
  <2>2. oldDist[s] >= dist[Edge(s).v] /\ dist'[Edge(s).v] <= dist[Edge(s).v]
    BY <2>1 DEF Held, Shorter
  <2>3. oldDist[s] \in 0 .. DistInf /\ dist[Edge(s).v] \in 0 .. DistInf /\ dist'[Edge(s).v] \in 0 .. DistInf
    BY <2>1 DEF Typed
  <2> QED BY <2>2, <2>3, InfFacts
<1>6. (pc[s] = "cas" => newDist[s] < oldDist[s])'
  BY DEF SameHands, Held
<1>7. (pc[s] \notin Relaxing \union {"check"} => batch[s] = << >> /\ ~ fused[s] /\ edge[s] = 0)'
  BY DEF SameHands, Held
<1> QED BY <1>2, <1>3, <1>4, <1>5, <1>6, <1>7 DEF Held

\* The bins of this iteration, as every thread sees them.
LEMMA ParityFacts ==
  ASSUME NEW p \in 0 .. 1, NEW t \in Threads, iter[t] = p
  PROVE  Curr(t) = p /\ NextOf(t) = 1 - p /\ CurrBin(t) = sharedIndexes[p] /\ NextBin(t) = sharedIndexes[1 - p]
<1>1. Curr(t) = p /\ NextOf(t) = 1 - p
  BY DEF Curr, NextOf
<1> QED BY <1>1 DEF CurrBin, NextBin

\* Work stays work: a thread that is not disturbed still has it.
LEMMA RelaxedKept ==
  ASSUME NEW s \in Threads, NEW x, NEW j, Relaxed(s, x, j), SameHands(s), graph' = graph, dist'[x] = dist[x]
  PROVE  Relaxed(s, x, j)'
<1>1. Edge(s)' = Edge(s)
  BY DEF SameHands, Edge, OutEdges
<1> QED BY <1>1 DEF Relaxed, SameHands

LEMMA WorkKept ==
  ASSUME NEW p \in 0 .. 1, FirstWork(p), graph' = graph, dist' = dist, localBins' = localBins,
         sharedIndexes'[p] = sharedIndexes[p],
         \A x \in NodeID : \A j \in 1 .. Len(graph.out[x]) :
           /\ BinOf(dist[x]) = sharedIndexes[p] /\ (Listed(x) \/ Checked(x)) =>
                (Listed(x) \/ Checked(x))' \/ \E s \in Threads : Relaxed(s, x, j)'
           /\ Improvable(x, j) => \A t \in Threads : Relaxed(t, x, j) => \E s \in Threads : Relaxed(s, x, j)'
  PROVE  FirstWork(p)'
<1> SUFFICES ASSUME NEW x \in NodeID, NEW j \in 1 .. Len(graph.out[x]), Improvable(x, j)
             PROVE  (\/ InBin(x)
                     \/ BinOf(dist[x]) = sharedIndexes[p] /\ (Listed(x) \/ Checked(x))
                     \/ \E t \in Threads : Relaxed(t, x, j))'
  BY DEF FirstWork, Improvable
<1>1. InBin(x)' <=> InBin(x)
  BY DEF InBin
<1> QED BY <1>1 DEF FirstWork

LEMMA WhileTestKeeps ==
  ASSUME DeltaStepAssumption, Always, NEW p \in 0 .. 1, First(p), NEW t \in Threads, WhileTest(t)
  PROVE  Always' /\ First(p)'
<1> USE DEF Always, First
<1>1. iter[t] = p /\ CurrBin(t) = sharedIndexes[p]
  BY ParityFacts DEF Working
<1>2. pc'[t] \in {"for", "exit"} /\ (pc'[t] = "for" <=> sharedIndexes[p] # NoBin)
      /\ pc[t] = "while" /\ \A s \in Threads : s # t => pc'[s] = pc[s]
  BY <1>1 DEF WhileTest, Goto, Typed
<1>3. Typed'
  BY <1>2 DEF WhileTest, Goto, Typed, shared, Locations
<1>4. ASSUME NEW s \in Threads  PROVE Held(s)'
  <2>1. CASE s # t
    <3>1. SameHands(s)
      BY <1>2, <2>1 DEF WhileTest, SameHands
    <3>2. Shorter
      BY InfFacts DEF WhileTest, shared, Shorter, Typed
    <3> QED BY <1>3, <3>1, <3>2, HeldKept
  <2>2. CASE s = t
    BY <1>2, <2>2 DEF Held, Relaxing, WhileTest
  <2> QED BY <2>1, <2>2
<1>5. BinsBound'
  BY DEF BinsBound, WhileTest, shared
<1>6. LongEnough'
  BY <1>2 DEF LongEnough, WhileTest, shared, Edge, OutEdges
<1>7. Working(p)'
  BY <1>2 DEF Working, FirstPhase, WhileTest
<1>8. FirstCounters(p)'
  BY <1>2 DEF FirstCounters, WhileTest, shared, Held
<1>9. FirstBins(p)'
  BY <1>2 DEF FirstBins, LowerEmpty, WhileTest, shared, Relaxing
<1>10. FirstWork(p)'
  <2>1. \A x : (Listed(x)' <=> Listed(x)) /\ (Checked(x)' <=> Checked(x))
    BY <1>2 DEF Listed, Checked, WhileTest, shared
  <2>2. \A s \in Threads : \A x, j : Relaxed(s, x, j) => Relaxed(s, x, j)'
    <3> SUFFICES ASSUME NEW s \in Threads, NEW x, NEW j, Relaxed(s, x, j)  PROVE Relaxed(s, x, j)'
      OBVIOUS
    <3>1. SameHands(s)
      BY <1>2 DEF SameHands, Relaxed, Relaxing, WhileTest
    <3> QED BY <3>1, RelaxedKept DEF WhileTest, shared
  <2> QED BY <2>1, <2>2, WorkKept DEF WhileTest, shared
<1> QED BY <1>3, <1>4, <1>5, <1>6, <1>7, <1>8, <1>9, <1>10

LEMMA TakeFrontierKeeps ==
  ASSUME DeltaStepAssumption, Always, NEW p \in 0 .. 1, First(p), NEW t \in Threads, NEW i \in todo,
         TakeFrontier(t, i)
  PROVE  Always' /\ First(p)'
<1> USE DEF Always, First
<1>1. pc[t] = "for" /\ pc'[t] = "check" /\ batch'[t] = <<frontier[i]>> /\ frontier[i] \in NodeID
  BY SeqFacts DEF TakeFrontier, Goto, Typed
<1>2. \A s \in Threads : s # t => SameHands(s)
  BY DEF TakeFrontier, Goto, Typed, SameHands
<1>3. Typed'
  <2>1. <<frontier[i]>> \in Seq(NodeID)
    BY <1>1
  <2>2. batch' \in [Threads -> Seq(NodeID)] /\ pc' \in [Threads -> Locations]
    BY <2>1 DEF TakeFrontier, Goto, Typed, Locations
  <2>3. todo' \subseteq 1 .. Len(frontier)
    BY DEF TakeFrontier, Typed
  <2> QED BY <2>2, <2>3 DEF TakeFrontier, Typed
<1>4. ASSUME NEW s \in Threads  PROVE Held(s)'
  <2>1. CASE s # t
    <3>1. Shorter
      BY InfFacts DEF TakeFrontier, Shorter, Typed
    <3> QED BY <1>2, <1>3, <2>1, <3>1, HeldKept
  <2>2. CASE s = t
    <3>1. Len(batch'[t]) = 1
      BY <1>1
    <3>2. ~ fused'[t] /\ edge'[t] = 0
      BY <1>1 DEF Held, Relaxing, TakeFrontier
    <3> QED BY <1>1, <2>2, <3>1, <3>2 DEF Held, Relaxing
  <2> QED BY <2>1, <2>2
<1>5. BinsBound'
  BY DEF BinsBound, TakeFrontier
<1>6. LongEnough'
  BY <1>1, <1>2 DEF LongEnough, TakeFrontier, Edge, OutEdges, SameHands
<1>7. Working(p)'
  BY <1>1, <1>2 DEF Working, FirstPhase, TakeFrontier, SameHands
<1>8. FirstCounters(p)'
  <2>1. sharedIndexes[p] # NoBin /\ \A s \in Threads : pc[s] \notin {"vote", "barrier1"} /\ ~ fused[s]
    BY DEF FirstCounters
  <2>2. \A s \in Threads : pc'[s] \notin {"vote", "barrier1", "exit"} \union {"while"} \/ pc'[s] = pc[s]
    BY <1>1, <1>2 DEF SameHands
  <2> QED BY <1>1, <2>1, <2>2 DEF FirstCounters, TakeFrontier
<1>9. FirstBins(p)'
  <2>1. BinOf(dist[batch'[t][1]]) <= sharedIndexes[p]
    BY <1>1 DEF FirstBins
  <2>2. \A s \in Threads : s # t => pc'[s] = pc[s] /\ batch'[s] = batch[s] /\ newDist'[s] = newDist[s]
    BY <1>2 DEF SameHands
  <2> QED BY <1>1, <2>1, <2>2 DEF FirstBins, LowerEmpty, TakeFrontier, Relaxing
<1>10. FirstWork(p)'
  <2>1. ASSUME NEW x, Listed(x)  PROVE Listed(x)' \/ Checked(x)'
    BY <1>1, <2>1 DEF Listed, Checked, TakeFrontier
  <2>2. ASSUME NEW x, Checked(x)  PROVE Checked(x)'
    BY <1>1, <1>2, <2>2 DEF Checked, SameHands
  <2>3. ASSUME NEW s \in Threads, NEW x, NEW j, Relaxed(s, x, j)  PROVE Relaxed(s, x, j)'
    <3>1. s # t
      BY <1>1, <2>3 DEF Relaxed, Relaxing
    <3> QED BY <1>2, <2>3, <3>1, RelaxedKept DEF TakeFrontier
  <2> QED BY <2>1, <2>2, <2>3, WorkKept DEF TakeFrontier
<1> QED BY <1>3, <1>4, <1>5, <1>6, <1>7, <1>8, <1>9, <1>10

LEMMA CheckStaleKeeps ==
  ASSUME DeltaStepAssumption, Always, NEW p \in 0 .. 1, First(p), NEW t \in Threads, CheckStale(t)
  PROVE  Always' /\ First(p)'
<1> USE DEF Always, First
<1> DEFINE u == batch[t][1]
<1>1. pc[t] = "check" /\ Head(batch[t]) = u /\ u \in NodeID /\ CurrBin(t) = sharedIndexes[p]
      /\ Len(batch[t]) = 1 /\ ~ fused[t] /\ edge[t] = 0
  BY EdgeFacts, ParityFacts DEF CheckStale, Working, Held
<1>2. \A s \in Threads : s # t => SameHands(s)
  BY DEF CheckStale, Goto, Typed, SameHands
<1>3. \/ dist[u] >= Delta * sharedIndexes[p] /\ pc'[t] = "relax" /\ batch'[t] = batch[t]
      \/ ~ (dist[u] >= Delta * sharedIndexes[p]) /\ pc'[t] = "for" /\ batch'[t] = << >>
  BY <1>1 DEF CheckStale, Goto, Typed
<1>4. dist[u] \in Nat /\ sharedIndexes[p] \in Nat /\ BinOf(dist[u]) \in Nat
      /\ BinOf(dist[u]) <= sharedIndexes[p]
  <2>1. dist[u] \in 0 .. DistInf /\ sharedIndexes[p] \in 0 .. NoBin
    BY <1>1 DEF Typed
  <2>2. BinOf(dist[u]) <= sharedIndexes[p]
    BY <1>1 DEF FirstBins
  <2> QED BY <2>1, <2>2, InfFacts
<1>5. \/ BinOf(dist[u]) = sharedIndexes[p] /\ pc'[t] = "relax" /\ batch'[t] = batch[t]
      \/ BinOf(dist[u]) # sharedIndexes[p] /\ pc'[t] = "for" /\ batch'[t] = << >>
  <2>1. dist[u] >= Delta * sharedIndexes[p] <=> BinOf(dist[u]) >= sharedIndexes[p]
    BY <1>4, BinFacts
  <2>2. BinOf(dist[u]) >= sharedIndexes[p] <=> BinOf(dist[u]) = sharedIndexes[p]
    BY <1>4
  <2> QED BY <1>3, <2>1, <2>2
<1>6. Typed'
  <2>1. << >> \in Seq(NodeID)
    OBVIOUS
  <2>2. batch' \in [Threads -> Seq(NodeID)]
    BY <2>1 DEF CheckStale, Typed
  <2>3. pc' \in [Threads -> Locations]
    BY DEF CheckStale, Goto, Typed, Locations
  <2> QED BY <2>2, <2>3 DEF CheckStale, Typed, shared
<1>7. ASSUME NEW s \in Threads  PROVE Held(s)'
  <2>1. CASE s # t
    <3>1. Shorter
      BY InfFacts DEF CheckStale, shared, Shorter, Typed
    <3> QED BY <1>2, <1>6, <2>1, <3>1, HeldKept
  <2>2. CASE s = t
    <3>1. ~ fused'[t] /\ edge'[t] = 0
      BY <1>1 DEF CheckStale
    <3>2. pc'[t] = "relax" => Len(batch'[t]) = 1 /\ Len(OutEdges(t))' \in Nat
      <4>1. Len(graph.out[u]) \in Nat
        BY <1>1, EdgesTyped
      <4>2. pc'[t] = "relax" => OutEdges(t)' = graph.out[u]
        BY <1>1, <1>5 DEF OutEdges, CheckStale, shared
      <4> QED BY <1>1, <1>5, <4>1, <4>2
    <3> QED BY <1>5, <2>2, <3>1, <3>2 DEF Held, Relaxing
  <2> QED BY <2>1, <2>2
<1>8. BinsBound'
  BY DEF BinsBound, CheckStale, shared
<1>9. LongEnough'
  BY <1>5, <1>2 DEF LongEnough, CheckStale, shared, Edge, OutEdges, SameHands
<1>10. Working(p)'
  BY <1>5, <1>2 DEF Working, FirstPhase, CheckStale, SameHands
<1>11. FirstCounters(p)'
  <2>1. sharedIndexes[p] # NoBin
    BY <1>1 DEF FirstCounters
  <2>2. \A s \in Threads : s # t => pc'[s] = pc[s]
    BY <1>2 DEF SameHands
  <2>3. pc'[t] \notin {"vote", "barrier1", "exit"}
    BY <1>5
  <2>4. \A s \in Threads : fused'[s] = fused[s]
    BY DEF CheckStale
  <2> QED BY <1>1, <2>1, <2>2, <2>3, <2>4 DEF FirstCounters, CheckStale, shared
<1>12. FirstBins(p)'
  <2>1. pc'[t] \in Relaxing => \A i \in 1 .. Len(batch'[t]) : BinOf(dist[batch'[t][i]]) = sharedIndexes[p]
    BY <1>1, <1>5 DEF Relaxing
  <2>2. \A s \in Threads : s # t => pc'[s] = pc[s] /\ batch'[s] = batch[s] /\ newDist'[s] = newDist[s]
    BY <1>2 DEF SameHands
  <2>3. pc'[t] \notin {"check", "cas", "barrier1"}
    BY <1>5
  <2> QED BY <2>1, <2>2, <2>3 DEF FirstBins, LowerEmpty, CheckStale, shared
<1>13. FirstWork(p)'
  <2>1. ASSUME NEW x, Listed(x)  PROVE Listed(x)'
    BY <2>1 DEF Listed, CheckStale, shared
  <2>2. ASSUME NEW x \in NodeID, NEW j \in 1 .. Len(graph.out[x]), BinOf(dist[x]) = sharedIndexes[p], Checked(x)
        PROVE  Checked(x)' \/ \E s \in Threads : Relaxed(s, x, j)'
    <3>1. PICK s \in Threads : pc[s] = "check" /\ batch[s][1] = x
      BY <2>2 DEF Checked
    <3>2. CASE s # t
      BY <1>2, <3>1, <3>2 DEF Checked, SameHands
    <3>3. CASE s = t
      <4>1. pc'[t] = "relax" /\ batch'[t][1] = x /\ Len(batch'[t]) = 1 /\ edge'[t] = 0
        BY <1>1, <1>5, <2>2, <3>1, <3>3 DEF CheckStale
      <4>2. edge'[t] < j
        BY <4>1, EdgesTyped
      <4> QED BY <4>1, <4>2 DEF Relaxed, Relaxing
    <3> QED BY <3>2, <3>3
  <2>3. ASSUME NEW s \in Threads, NEW x, NEW j, Relaxed(s, x, j)  PROVE Relaxed(s, x, j)'
    <3>1. s # t
      BY <1>1, <2>3 DEF Relaxed, Relaxing
    <3> QED BY <1>2, <2>3, <3>1, RelaxedKept DEF CheckStale, shared
  <2> QED BY <2>1, <2>2, <2>3, WorkKept DEF CheckStale, shared
<1> QED BY <1>6, <1>7, <1>8, <1>9, <1>10, <1>11, <1>12, <1>13

\* The first bin of a thread is not above any of its bins that is not empty.
LEMMA FirstBinFacts ==
  ASSUME DeltaStepAssumption, NEW t \in Threads
  PROVE  /\ FirstBin(t) \in 0 .. NoBin
         /\ \A b \in Bins : b >= CurrBin(t) /\ localBins[t][b] # << >> => FirstBin(t) <= b
<1> DEFINE full == {b \in Bins : b >= CurrBin(t) /\ localBins[t][b] # << >>}
<1>1. full \in SUBSET Nat /\ \A b \in full : b \in 0 .. NoBin
  BY InfFacts DEF Bins
<1>2. CASE full = {}
  BY <1>2, InfFacts DEF FirstBin
<1>3. CASE full # {}
  <2>1. \E b \in full : \A a \in full : b <= a
    BY <1>1, <1>3, Facts!LeastNumber DEF DeltaStepAssumption
  <2>2. FirstBin(t) = CHOOSE b \in full : \A a \in full : b <= a
    BY <1>3 DEF FirstBin
  <2>3. FirstBin(t) \in full /\ \A a \in full : FirstBin(t) <= a
    BY <2>1, <2>2
  <2> QED BY <1>1, <2>3
<1> QED BY <1>2, <1>3

LEMMA VoteKeeps ==
  ASSUME DeltaStepAssumption, Always, NEW p \in 0 .. 1, First(p), NEW t \in Threads, Vote(t)
  PROVE  Always' /\ First(p)'
<1> USE DEF Always, First
<1>1. pc[t] = "vote" /\ pc'[t] = "barrier1" /\ \A s \in Threads : s # t => pc'[s] = pc[s]
  BY DEF Vote, Goto, Typed
<1>2. NextOf(t) = 1 - p /\ CurrBin(t) = sharedIndexes[p]
  BY ParityFacts DEF Working
<1>3. FirstBin(t) \in 0 .. NoBin /\ sharedIndexes[1 - p] \in 0 .. NoBin /\ 1 - p \in 0 .. 1 /\ 1 - p # p
  BY FirstBinFacts DEF Typed
<1>4. /\ sharedIndexes' \in [0 .. 1 -> 0 .. NoBin]
      /\ sharedIndexes'[p] = sharedIndexes[p]
      /\ sharedIndexes'[1 - p] = MinOf(sharedIndexes[1 - p], FirstBin(t))
      /\ sharedIndexes'[1 - p] <= sharedIndexes[1 - p] /\ sharedIndexes'[1 - p] <= FirstBin(t)
  <2>1. sharedIndexes' = [sharedIndexes EXCEPT ![1 - p] = MinOf(@, FirstBin(t))]
    BY <1>2 DEF Vote
  <2>2. MinOf(sharedIndexes[1 - p], FirstBin(t)) \in 0 .. NoBin
    BY <1>3 DEF MinOf
  <2>3. /\ MinOf(sharedIndexes[1 - p], FirstBin(t)) <= sharedIndexes[1 - p]
        /\ MinOf(sharedIndexes[1 - p], FirstBin(t)) <= FirstBin(t)
    BY <1>3, InfFacts DEF MinOf
  <2> QED BY <1>3, <2>1, <2>2, <2>3 DEF Typed
<1>5. Typed'
  BY <1>1, <1>4 DEF Vote, Goto, Typed, Locations
<1>6. ASSUME NEW s \in Threads  PROVE Held(s)'
  <2>1. CASE s # t
    <3>1. SameHands(s)
      BY <1>1, <2>1 DEF Vote, SameHands
    <3>2. Shorter
      BY InfFacts DEF Vote, Shorter, Typed
    <3> QED BY <1>5, <3>1, <3>2, HeldKept
  <2>2. CASE s = t
    BY <1>1, <2>2 DEF Held, Relaxing, Vote
  <2> QED BY <2>1, <2>2
<1>7. BinsBound'
  BY DEF BinsBound, Vote
<1>8. LongEnough'
  BY <1>1 DEF LongEnough, Vote, Edge, OutEdges
<1>9. Working(p)'
  BY <1>1 DEF Working, FirstPhase, Vote
<1>10. FirstCounters(p)'
  <2>1. todo = {} /\ sharedIndexes[p] # NoBin
    BY <1>1 DEF FirstCounters
  <2> QED BY <1>1, <1>4, <2>1 DEF FirstCounters, Vote
<1>11. FirstBins(p)'
  <2>1. ASSUME NEW s \in Threads, pc'[s] = "barrier1", NEW b \in Bins, localBins[s][b] # << >>
        PROVE  sharedIndexes'[1 - p] <= b
    <3>1. b \in Nat /\ sharedIndexes'[1 - p] \in Int /\ sharedIndexes[1 - p] \in Int /\ FirstBin(t) \in Int
      BY <1>3, <1>4, InfFacts DEF Bins
    <3>2. CASE s = t
      <4>1. sharedIndexes[p] \in 0 .. NoBin
        BY DEF Typed
      <4>2. ~ (b < sharedIndexes[p])
        BY <2>1, <3>2 DEF FirstBins, LowerEmpty
      <4>3. b >= CurrBin(t)
        BY <1>2, <3>1, <4>1, <4>2, InfFacts
      <4>4. FirstBin(t) <= b
        BY <2>1, <3>2, <4>3, FirstBinFacts
      <4> QED BY <1>4, <3>1, <4>4
    <3>3. CASE s # t
      <4>1. sharedIndexes[1 - p] <= b
        BY <1>1, <2>1, <3>3 DEF FirstBins
      <4> QED BY <1>4, <3>1, <4>1
    <3> QED BY <3>2, <3>3
  <2> QED BY <1>1, <1>4, <2>1 DEF FirstBins, LowerEmpty, Vote, Relaxing
<1>12. FirstWork(p)'
  <2>1. \A x : (Listed(x)' <=> Listed(x)) /\ (Checked(x)' <=> Checked(x))
    BY <1>1 DEF Listed, Checked, Vote
  <2>2. ASSUME NEW s \in Threads, NEW x, NEW j, Relaxed(s, x, j)  PROVE Relaxed(s, x, j)'
    <3>1. SameHands(s)
      BY <1>1, <2>2 DEF SameHands, Relaxed, Relaxing, Vote
    <3> QED BY <2>2, <3>1, RelaxedKept DEF Vote
  <2> QED BY <1>4, <2>1, <2>2, WorkKept DEF Vote
<1> QED BY <1>5, <1>6, <1>7, <1>8, <1>9, <1>10, <1>11, <1>12

-----------------------------------------------------------------------------
(* The end of a vertex, of the loop over the frontier and of bucket fusion.  *)

\* What the steps below have in common: they hand on, or give back, a batch.
Handing(t) ==
  /\ edge' = [edge EXCEPT ![t] = 0]
  /\ UNCHANGED <<shared, iter, oldDist, newDist, copyStart>>

\* Nothing a thread holds is unfinished.
Idle(t) == \A x \in NodeID : \A j \in 1 .. Len(graph.out[x]) : ~ Relaxed(t, x, j)

LEMMA FuseKeeps ==
  ASSUME DeltaStepAssumption, Always, NEW p \in 0 .. 1, First(p), NEW t \in Threads,
         pc[t] \in {"for", "relax"}, sharedIndexes[p] # NoBin, todo = {}, Idle(t), Handing(t), Fuse(t)
  PROVE  Always' /\ First(p)'
<1> USE DEF Always, First
<1> DEFINE m == sharedIndexes[p]
<1>1. CurrBin(t) = m /\ m \in Bins
  <2>1. CurrBin(t) = m
    BY ParityFacts DEF Working
  <2>2. m \in 0 .. NoBin
    BY DEF Typed
  <2> QED BY <2>1, <2>2, InfFacts DEF Bins
<1>2. localBins[t][m] \in Seq(NodeID) /\ localBins[t][m] # << >> /\ Len(localBins[t][m]) >= 1
  <2>1. localBins[t][m] \in Seq(NodeID)
    BY <1>1 DEF Typed
  <2>2. Len(localBins[t][m]) >= 1
    BY <1>1, <2>1, SeqFacts DEF Fuse, Fusable, DeltaStepAssumption
  <2> QED BY <2>1, <2>2, SeqFacts
<1>3. /\ pc'[t] = "relax" /\ batch'[t] = localBins[t][m] /\ fused'[t] = TRUE /\ edge'[t] = 0
      /\ localBins' = [localBins EXCEPT ![t][m] = << >>]
  BY <1>1 DEF Fuse, Goto, Handing, Typed
<1>4. \A s \in Threads : s # t => SameHands(s)
  BY DEF Fuse, Goto, Handing, Typed, SameHands
<1>5. localBins' \in [Threads -> [Bins -> Seq(NodeID)]]
      /\ \A s \in Threads, b \in Bins : localBins'[s][b] = IF s = t /\ b = m THEN << >> ELSE localBins[s][b]
  <2>1. << >> \in Seq(NodeID)
    OBVIOUS
  <2> QED BY <1>1, <1>3, <2>1 DEF Typed
<1>6. Typed'
  <2>1. batch' \in [Threads -> Seq(NodeID)]
    BY <1>1, <1>2 DEF Fuse, Typed
  <2>2. pc' \in [Threads -> Locations] /\ fused' \in [Threads -> BOOLEAN]
    BY DEF Fuse, Goto, Typed, Locations
  <2>3. edge' \in [Threads -> Nat]
    BY DEF Handing, Typed
  <2> QED BY <1>5, <2>1, <2>2, <2>3 DEF Typed, Handing, shared
<1>7. ASSUME NEW s \in Threads  PROVE Held(s)'
  <2>1. CASE s # t
    <3>1. Shorter
      BY InfFacts DEF Handing, shared, Shorter, Typed
    <3> QED BY <1>4, <1>6, <2>1, <3>1, HeldKept
  <2>2. CASE s = t
    <3>1. Len(OutEdges(t))' \in Nat /\ Len(batch'[t]) >= 1
      <4>1. Head(batch'[t]) \in NodeID
        BY <1>2, <1>3, SeqFacts
      <4> QED BY <1>2, <1>3, <4>1, EdgesTyped DEF OutEdges, Handing, shared
    <3> QED BY <1>3, <2>2, <3>1 DEF Held, Relaxing
  <2> QED BY <2>1, <2>2
<1>8. BinsBound'
  <2>1. ASSUME NEW s \in Threads, NEW b \in Bins, NEW i \in 1 .. Len(localBins'[s][b])
        PROVE  BinOf(dist[localBins'[s][b][i]]) <= b
    <3>1. ~ (s = t /\ b = m)
      BY <1>5
    <3> QED BY <1>5, <3>1 DEF BinsBound
  <2> QED BY <2>1 DEF BinsBound, Handing, shared
<1>9. LongEnough'
  BY <1>3, <1>4 DEF LongEnough, Handing, shared, Edge, OutEdges, SameHands
<1>10. Working(p)'
  BY <1>3, <1>4 DEF Working, FirstPhase, Handing, SameHands
<1>11. FirstCounters(p)'
  <2>1. \A s \in Threads : s # t => pc'[s] = pc[s]
    BY <1>4 DEF SameHands
  <2> QED BY <1>3, <2>1 DEF FirstCounters, Handing, shared
<1>12. FirstBins(p)'
  <2>1. ASSUME NEW i \in 1 .. Len(batch'[t])  PROVE BinOf(dist[batch'[t][i]]) = m
    <3>1. i \in 1 .. Len(localBins[t][m]) /\ batch'[t][i] \in NodeID
      BY <1>2, <1>3, SeqFacts
    <3>2. BinOf(dist[batch'[t][i]]) <= m /\ BinOf(dist[batch'[t][i]]) >= m
      BY <1>1, <1>3, <3>1 DEF BinsBound, FirstBins
    <3>3. BinOf(dist[batch'[t][i]]) \in Nat /\ m \in Nat
      <4>1. dist[batch'[t][i]] \in 0 .. DistInf
        BY <3>1 DEF Typed
      <4> QED BY <1>1, <4>1, InfFacts DEF Bins
    <3> QED BY <3>2, <3>3
  <2>2. \A s \in Threads : s # t => pc'[s] = pc[s] /\ batch'[s] = batch[s] /\ newDist'[s] = newDist[s]
    BY <1>4 DEF SameHands
  <2>3. LowerEmpty(m)'
    <3>1. \A s \in Threads, b \in Bins : b < m => localBins[s][b] = << >>
      BY DEF FirstBins, LowerEmpty
    <3>2. ASSUME NEW s \in Threads, NEW b \in Bins, b < m
          PROVE  localBins'[s][b] = << >>
      <4>1. localBins[s][b] = << >>
        BY <3>1, <3>2
      <4>2. localBins'[s][b] = << >> \/ localBins'[s][b] = localBins[s][b]
        BY <1>5
      <4> QED BY <4>1, <4>2
    <3>3. sharedIndexes'[p] = m
      BY DEF Handing, shared
    <3> QED BY <3>2, <3>3 DEF LowerEmpty
  <2>4. ASSUME NEW s \in Threads, NEW i \in 1 .. Len(localBins'[s][m])
        PROVE  BinOf(dist[localBins'[s][m][i]]) >= m
    <3>1. localBins'[s][m] = << >> \/ localBins'[s][m] = localBins[s][m]
      BY <1>1, <1>5
    <3>2. localBins'[s][m] # << >>
      BY <2>4
    <3> QED BY <2>4, <3>1, <3>2 DEF FirstBins
  <2>5. ASSUME NEW s \in Threads, pc'[s] = "barrier1", NEW b \in Bins, localBins'[s][b] # << >>
        PROVE  sharedIndexes[1 - p] <= b
    BY <1>3, <1>5, <2>2, <2>5 DEF FirstBins
  <2> QED BY <1>3, <2>1, <2>2, <2>3, <2>4, <2>5 DEF FirstBins, Handing, shared, Relaxing
<1>13. FirstWork(p)'
  <2> SUFFICES ASSUME NEW x \in NodeID, NEW j \in 1 .. Len(graph.out[x]), Improvable(x, j)
               PROVE  \/ InBin(x)'
                      \/ BinOf(dist[x]) = m /\ (Listed(x) \/ Checked(x))'
                      \/ (\E s \in Threads : Relaxed(s, x, j))'
    BY DEF FirstWork, Improvable, Handing, shared
  <2>1. CASE InBin(x)
    <3> DEFINE b == BinOf(dist[x])
    <3>1. PICK s \in Threads : \E i \in 1 .. Len(localBins[s][b]) : localBins[s][b][i] = x
      BY <2>1 DEF InBin, BinOf
    <3>2. CASE s = t /\ BinOf(dist[x]) = m
      <4>1. \E i \in 1 .. Len(batch'[t]) : batch'[t][i] = x
        BY <1>3, <3>1, <3>2
      <4>2. edge'[t] < j
        BY <1>3, EdgesTyped
      <4> QED BY <1>3, <4>1, <4>2 DEF Relaxed, Relaxing
    <3>3. CASE ~ (s = t /\ b = m)
      <4>1. localBins'[s][b] = localBins[s][b]
        BY <1>3, <3>3 DEF Typed
      <4> QED BY <3>1, <4>1 DEF InBin, BinOf, Handing, shared
    <3> QED BY <3>2, <3>3
  <2>2. CASE BinOf(dist[x]) = m /\ (Listed(x) \/ Checked(x))
    <3>1. PICK s \in Threads : pc[s] = "check" /\ batch[s][1] = x
      BY <2>2 DEF Listed, Checked
    <3> QED BY <1>4, <2>2, <3>1 DEF Checked, SameHands
  <2>3. ASSUME NEW s \in Threads, Relaxed(s, x, j)  PROVE Relaxed(s, x, j)'
    <3>1. s # t
      BY <2>3 DEF Idle
    <3> QED BY <1>4, <2>3, <3>1, RelaxedKept DEF Handing, shared
  <2> QED BY <2>1, <2>2, <2>3 DEF FirstWork
<1> QED BY <1>6, <1>7, <1>8, <1>9, <1>10, <1>11, <1>12, <1>13

\* A batch given back: to the loop over the frontier, or to vote.
LEMMA GiveBackKeeps ==
  ASSUME DeltaStepAssumption, Always, NEW p \in 0 .. 1, First(p), NEW t \in Threads,
         pc[t] \in {"for", "relax"}, sharedIndexes[p] # NoBin, Idle(t), Handing(t),
         NEW location \in {"for", "vote"}, location = "vote" => todo = {},
         Goto(t, location), batch' = [batch EXCEPT ![t] = << >>], fused' = [fused EXCEPT ![t] = FALSE],
         localBins' = localBins
  PROVE  Always' /\ First(p)'
<1> USE DEF Always, First
<1>1. pc'[t] = location /\ batch'[t] = << >> /\ fused'[t] = FALSE /\ edge'[t] = 0
  BY DEF Goto, Handing, Typed
<1>2. \A s \in Threads : s # t => SameHands(s)
  BY DEF Goto, Handing, Typed, SameHands
<1>3. Typed'
  <2>1. << >> \in Seq(NodeID)
    OBVIOUS
  <2>2. batch' \in [Threads -> Seq(NodeID)]
    BY <2>1 DEF Typed
  <2>3. pc' \in [Threads -> Locations] /\ fused' \in [Threads -> BOOLEAN]
    BY DEF Goto, Typed, Locations
  <2>4. edge' \in [Threads -> Nat]
    BY DEF Handing, Typed
  <2> QED BY <2>2, <2>3, <2>4 DEF Typed, Handing, shared
<1>4. ASSUME NEW s \in Threads  PROVE Held(s)'
  <2>1. CASE s # t
    <3>1. Shorter
      BY InfFacts DEF Handing, shared, Shorter, Typed
    <3> QED BY <1>2, <1>3, <2>1, <3>1, HeldKept
  <2>2. CASE s = t
    BY <1>1, <2>2 DEF Held, Relaxing
  <2> QED BY <2>1, <2>2
<1>5. BinsBound'
  BY DEF BinsBound, Handing, shared
<1>6. LongEnough'
  BY <1>1, <1>2 DEF LongEnough, Handing, shared, Edge, OutEdges, SameHands
<1>7. Working(p)'
  BY <1>1, <1>2 DEF Working, FirstPhase, Handing, SameHands
<1>8. FirstCounters(p)'
  <2>1. \A s \in Threads : s # t => pc'[s] = pc[s] /\ fused'[s] = fused[s]
    BY <1>2 DEF SameHands
  <2>2. pc'[t] \notin {"exit", "barrier1"} /\ ~ fused'[t] /\ (pc'[t] = "vote" => todo = {})
    BY <1>1
  <2> QED BY <2>1, <2>2 DEF FirstCounters, Handing, shared
<1>9. FirstBins(p)'
  <2>1. \A s \in Threads : s # t => pc'[s] = pc[s] /\ batch'[s] = batch[s] /\ newDist'[s] = newDist[s]
    BY <1>2 DEF SameHands
  <2>2. pc'[t] \notin Relaxing \union {"check", "barrier1"}
    BY <1>1 DEF Relaxing
  <2> QED BY <2>1, <2>2 DEF FirstBins, LowerEmpty, Handing, shared, Relaxing
<1>10. FirstWork(p)'
  <2>1. ASSUME NEW x, Listed(x)  PROVE Listed(x)'
    BY <2>1 DEF Listed, Handing, shared
  <2>2. ASSUME NEW x, Checked(x)  PROVE Checked(x)'
    BY <1>2, <2>2 DEF Checked, SameHands
  <2>3. ASSUME NEW s \in Threads, NEW x \in NodeID, NEW j \in 1 .. Len(graph.out[x]), Relaxed(s, x, j)
        PROVE  Relaxed(s, x, j)'
    <3>1. s # t
      BY <2>3 DEF Idle
    <3> QED BY <1>2, <2>3, <3>1, RelaxedKept DEF Handing, shared
  <2> QED BY <2>1, <2>2, <2>3, WorkKept DEF Handing, shared
<1> QED BY <1>3, <1>4, <1>5, <1>6, <1>7, <1>8, <1>9, <1>10

LEMMA LeaveKeeps ==
  ASSUME DeltaStepAssumption, Always, NEW p \in 0 .. 1, First(p), NEW t \in Threads,
         pc[t] \in {"for", "relax"}, sharedIndexes[p] # NoBin, todo = {}, Idle(t), Handing(t), LeaveRelaxing(t)
  PROVE  Always' /\ First(p)'
<1>1. CASE Fuse(t)
  BY <1>1, FuseKeeps
<1>2. CASE ~ Fuse(t)
  <2>1. /\ Goto(t, "vote") /\ batch' = [batch EXCEPT ![t] = << >>] /\ fused' = [fused EXCEPT ![t] = FALSE]
        /\ localBins' = localBins
    BY <1>2 DEF LeaveRelaxing
  <2> QED BY <2>1, GiveBackKeeps
<1> QED BY <1>1, <1>2

LEMMA EndForKeeps ==
  ASSUME DeltaStepAssumption, Always, NEW p \in 0 .. 1, First(p), NEW t \in Threads, EndFor(t)
  PROVE  Always' /\ First(p)'
<1>1. pc[t] = "for" /\ todo = {} /\ LeaveRelaxing(t)
  BY DEF EndFor
<1>2. sharedIndexes[p] # NoBin
  BY <1>1 DEF First, FirstCounters
<1>3. Idle(t)
  BY <1>1 DEF Idle, Relaxed, Relaxing
<1>4. Handing(t)
  <2>1. edge \in [Threads -> Nat] /\ edge[t] = 0
    BY <1>1 DEF Always, Typed, Held, Relaxing
  <2> QED BY <2>1 DEF EndFor, Handing
<1> QED BY <1>1, <1>2, <1>3, <1>4, LeaveKeeps

LEMMA EndRelaxKeeps ==
  ASSUME DeltaStepAssumption, Always, NEW p \in 0 .. 1, First(p), NEW t \in Threads, EndRelax(t)
  PROVE  Always' /\ First(p)'
<1>1. pc[t] = "relax" /\ edge[t] = Len(OutEdges(t)) /\ Handing(t)
  BY DEF EndRelax, Handing
<1>2. sharedIndexes[p] # NoBin
  BY <1>1 DEF First, FirstCounters
<1>3. batch[t] \in Seq(NodeID) /\ Len(batch[t]) \in Nat /\ Len(batch[t]) >= 1
      /\ Head(batch[t]) = batch[t][1] /\ batch[t][1] \in NodeID
  <2>1. batch[t] \in Seq(NodeID)
    BY DEF Always, Typed
  <2>2. Len(batch[t]) >= 1
    BY <1>1 DEF Always, Held, Relaxing
  <2> QED BY <1>1, <2>1, <2>2, SeqFacts
<1>4. ASSUME NEW x \in NodeID, NEW j \in 1 .. Len(graph.out[x]), Relaxed(t, x, j)
      PROVE  \E i \in 2 .. Len(batch[t]) : batch[t][i] = x
  <2>1. PICK i \in 1 .. Len(batch[t]) : batch[t][i] = x /\ (i > 1 \/ edge[t] < j)
    BY <1>1, <1>4 DEF Relaxed
  <2>2. i = 1 => ~ (edge[t] < j)
    BY <1>1, <1>3, <2>1, EdgesTyped DEF OutEdges, Always
  <2> QED BY <1>3, <2>1, <2>2
<1>5. CASE fused[t] /\ Len(batch[t]) = 1
  <2>1. LeaveRelaxing(t)
    BY <1>5 DEF EndRelax
  <2>2. Idle(t)
    BY <1>4, <1>5 DEF Idle
  <2>3. todo = {}
    BY <1>5 DEF First, FirstCounters
  <2> QED BY <1>1, <1>2, <2>1, <2>2, <2>3, LeaveKeeps
<1>6. CASE ~ fused[t]
  <2>1. Goto(t, "for") /\ batch' = [batch EXCEPT ![t] = << >>] /\ fused' = fused /\ localBins' = localBins
    BY <1>6 DEF EndRelax
  <2>2. fused' = [fused EXCEPT ![t] = FALSE]
    BY <1>6, <2>1 DEF Always, Typed
  <2>3. Len(batch[t]) = 1
    BY <1>1, <1>6 DEF Always, Held, Relaxing
  <2>4. Idle(t)
    BY <1>4, <2>3 DEF Idle
  <2> QED BY <1>1, <1>2, <2>1, <2>2, <2>4, GiveBackKeeps
<1>7. CASE fused[t] /\ Len(batch[t]) > 1
  <2> USE DEF Always, First
  <2>1. batch' = [batch EXCEPT ![t] = Tail(batch[t])] /\ UNCHANGED <<pc, fused, localBins>>
    <3>1. ~ (Len(batch[t]) = 1)
      <4>1. \A n \in Nat : n > 1 => ~ (n = 1)
        OBVIOUS
      <4> QED BY <1>3, <1>7, <4>1, Zenon
    <3> QED BY <1>7, <3>1, Zenon DEF EndRelax
  <2>2. /\ Tail(batch[t]) \in Seq(NodeID) /\ Len(Tail(batch[t])) = Len(batch[t]) - 1
        /\ \A i \in 1 .. Len(Tail(batch[t])) : Tail(batch[t])[i] = batch[t][i + 1]
    BY <1>3, <1>7
  <2>3. batch'[t] = Tail(batch[t]) /\ edge'[t] = 0
    BY <1>1, <2>1 DEF Typed, Handing
  <2>4. \A s \in Threads : s # t => SameHands(s)
    BY <1>1, <2>1 DEF Handing, Typed, SameHands
  <2>5. Typed'
    <3>1. batch' \in [Threads -> Seq(NodeID)] /\ edge' \in [Threads -> Nat]
      BY <1>1, <2>1, <2>2 DEF Handing, Typed
    <3> QED BY <1>1, <2>1, <3>1 DEF Typed, Handing, shared
  <2>6. ASSUME NEW s \in Threads  PROVE Held(s)'
    <3>1. CASE s # t
      <4>1. Shorter
        BY <1>1, InfFacts DEF Handing, shared, Shorter, Typed
      <4> QED BY <2>4, <2>5, <3>1, <4>1, HeldKept
    <3>2. CASE s = t
      <4>1. Len(OutEdges(t))' \in Nat /\ Len(batch'[t]) >= 1
        <5>1. Len(batch'[t]) \in Nat /\ Len(batch'[t]) >= 1
          BY <1>3, <1>7, <2>2, <2>3
        <5>2. Head(batch'[t]) \in NodeID
          BY <2>2, <2>3, <5>1, SeqFacts
        <5> QED BY <1>1, <5>1, <5>2, EdgesTyped DEF OutEdges, Handing, shared
      <4>2. pc'[t] = "relax" /\ fused'[t] /\ edge'[t] <= Len(OutEdges(t))'
        BY <1>1, <1>7, <2>1, <2>3, <4>1
      <4> QED BY <3>2, <4>1, <4>2 DEF Held, Relaxing
    <3> QED BY <3>1, <3>2
  <2>7. BinsBound'
    BY <1>1, <2>1 DEF BinsBound, Handing, shared
  <2>8. LongEnough'
    BY <1>1, <2>1, <2>4 DEF LongEnough, Handing, shared, Edge, OutEdges, SameHands
  <2>9. Working(p)'
    BY <1>1, <2>1 DEF Working, FirstPhase, Handing
  <2>10. FirstCounters(p)'
    BY <1>1, <2>1 DEF FirstCounters, Handing, shared
  <2>11. FirstBins(p)'
    <3>1. ASSUME NEW i \in 1 .. Len(batch'[t])  PROVE BinOf(dist[batch'[t][i]]) = sharedIndexes[p]
      <4>1. i + 1 \in 1 .. Len(batch[t]) /\ batch'[t][i] = batch[t][i + 1]
        BY <1>3, <2>2, <2>3
      <4> QED BY <1>1, <4>1 DEF FirstBins, Relaxing
    <3>2. \A s \in Threads : s # t => batch'[s] = batch[s] /\ newDist'[s] = newDist[s]
      BY <2>4 DEF SameHands
    <3> QED BY <1>1, <2>1, <3>1, <3>2 DEF FirstBins, LowerEmpty, Handing, shared, Relaxing
  <2>12. FirstWork(p)'
    <3>1. ASSUME NEW x, Listed(x)  PROVE Listed(x)'
      BY <1>1, <3>1 DEF Listed, Handing, shared
    <3>2. ASSUME NEW x, Checked(x)  PROVE Checked(x)'
      BY <1>1, <2>4, <3>2 DEF Checked, SameHands
    <3>3. ASSUME NEW s \in Threads, NEW x \in NodeID, NEW j \in 1 .. Len(graph.out[x]), Relaxed(s, x, j)
          PROVE  Relaxed(s, x, j)'
      <4>1. CASE s # t
        BY <1>1, <2>4, <3>3, <4>1, RelaxedKept DEF Handing, shared
      <4>2. CASE s = t
        <5>1. PICK i \in 2 .. Len(batch[t]) : batch[t][i] = x
          BY <1>4, <3>3, <4>2
        <5>2. i - 1 \in 1 .. Len(batch'[t]) /\ batch'[t][i - 1] = x
          BY <1>3, <2>2, <2>3, <5>1
        <5>3. edge'[t] < j
          BY <2>3, EdgesTyped
        <5> QED BY <1>1, <2>1, <4>2, <5>2, <5>3 DEF Relaxed, Relaxing
      <4> QED BY <4>1, <4>2
    <3> QED BY <1>1, <2>1, <3>1, <3>2, <3>3, WorkKept DEF Handing, shared
  <2> QED BY <2>5, <2>6, <2>7, <2>8, <2>9, <2>10, <2>11, <2>12
<1>8. Len(batch[t]) = 1 \/ Len(batch[t]) > 1
  <2>1. \A n \in Nat : n >= 1 => n = 1 \/ n > 1
    OBVIOUS
  <2> QED BY <1>3, <2>1, Zenon
<1> QED BY <1>5, <1>6, <1>7, <1>8, Zenon

LEMMA NextEdgeKeeps ==
  ASSUME DeltaStepAssumption, Always, NEW p \in 0 .. 1, First(p), NEW t \in Threads, NextEdge(t)
  PROVE  Always' /\ First(p)'
<1> USE DEF Always, First
<1>1. /\ pc[t] = "relax" /\ pc'[t] = "readU" /\ batch' = batch /\ fused' = fused /\ newDist' = newDist
      /\ edge'[t] = edge[t] + 1 /\ edge[t] \in Nat /\ localBins' = localBins
      /\ oldDist'[t] = dist[OutEdges(t)[edge[t] + 1].v]
      /\ graph' = graph /\ source' = source /\ dist' = dist /\ frontier' = frontier
      /\ sharedIndexes' = sharedIndexes /\ frontierTails' = frontierTails /\ todo' = todo
      /\ resetDone' = resetDone /\ iter' = iter
  BY DEF NextEdge, Goto, Typed, shared
<1>2. \A s \in Threads : s # t => SameHands(s)
  BY DEF NextEdge, Goto, Typed, SameHands
<1>3. /\ Head(batch[t]) = batch[t][1] /\ OutEdges(t) = graph.out[batch[t][1]]
      /\ batch[t][1] \in NodeID /\ Len(OutEdges(t)) \in Nat
  BY <1>1, EdgeFacts DEF Relaxing
<1>4. edge[t] + 1 \in 1 .. Len(OutEdges(t))
  <2>1. edge[t] < Len(OutEdges(t))
    BY DEF NextEdge
  <2> QED BY <1>1, <1>3, <2>1
<1>5. Edge(t)' = OutEdges(t)[edge[t] + 1] /\ OutEdges(t)' = OutEdges(t) /\ Edge(t)'.v \in NodeID
  <2>1. Edge(t)' = OutEdges(t)[edge[t] + 1] /\ OutEdges(t)' = OutEdges(t)
    BY <1>1 DEF Edge, OutEdges
  <2> QED BY <1>3, <1>4, <2>1, EdgesTyped
<1>6. Typed'
  <2>1. pc' \in [Threads -> Locations]
    BY DEF NextEdge, Goto, Typed, Locations
  <2>2. edge' \in [Threads -> Nat]
    BY DEF NextEdge, Typed
  <2>3. dist[OutEdges(t)[edge[t] + 1].v] \in 0 .. DistInf
    BY <1>5 DEF Typed
  <2>4. oldDist' \in [Threads -> 0 .. DistInf]
    BY <2>3 DEF NextEdge, Typed
  <2> QED BY <2>1, <2>2, <2>4 DEF NextEdge, Typed, shared
<1>7. ASSUME NEW s \in Threads  PROVE Held(s)'
  <2>1. CASE s # t
    <3>1. Shorter
      BY <1>1, InfFacts DEF Shorter, Typed
    <3> QED BY <1>2, <1>6, <2>1, <3>1, HeldKept
  <2>2. CASE s = t
    <3>1. Len(batch'[t]) >= 1 /\ (~ fused'[t] => Len(batch'[t]) = 1)
      BY <1>1 DEF Held, Relaxing
    <3>2. edge'[t] <= Len(OutEdges(t))' /\ edge'[t] >= 1
      BY <1>1, <1>3, <1>4, <1>5
    <3>3. oldDist'[t] >= dist'[Edge(t)'.v]
      <4>1. oldDist'[t] = dist'[Edge(t)'.v] /\ dist[Edge(t)'.v] \in 0 .. DistInf
        BY <1>1, <1>5 DEF Typed
      <4> QED BY <1>1, <4>1, InfFacts
    <3> QED BY <1>1, <2>2, <3>1, <3>2, <3>3 DEF Held, Relaxing
  <2> QED BY <2>1, <2>2
<1>8. BinsBound'
  BY <1>1 DEF BinsBound
<1>9. LongEnough'
  BY <1>1, <1>2 DEF LongEnough, Edge, OutEdges, SameHands
<1>10. Working(p)'
  BY <1>1, <1>2 DEF Working, FirstPhase, SameHands
<1>11. FirstCounters(p)'
  BY <1>1, <1>2 DEF FirstCounters, SameHands
<1>12. FirstBins(p)'
  <2>1. \A s \in Threads : s # t => pc'[s] = pc[s]
    BY <1>2 DEF SameHands
  <2> QED BY <1>1, <2>1 DEF FirstBins, LowerEmpty, Relaxing
<1>13. FirstWork(p)'
  <2>1. ASSUME NEW x, Listed(x)  PROVE Listed(x)'
    BY <1>1, <2>1 DEF Listed
  <2>2. ASSUME NEW x, Checked(x)  PROVE Checked(x)'
    BY <1>1, <1>2, <2>2 DEF Checked, SameHands
  <2>3. ASSUME NEW s \in Threads, NEW x \in NodeID, NEW j \in 1 .. Len(graph.out[x]), Relaxed(s, x, j)
        PROVE  Relaxed(s, x, j)'
    <3>1. CASE s # t
      BY <1>1, <1>2, <2>3, <3>1, RelaxedKept
    <3>2. CASE s = t
      <4>1. PICK i \in 1 .. Len(batch[t]) : batch[t][i] = x /\ (i > 1 \/ edge[t] < j)
        BY <1>1, <2>3, <3>2 DEF Relaxed
      <4>2. CASE i > 1 \/ edge[t] + 1 < j
        BY <1>1, <3>2, <4>1, <4>2 DEF Relaxed, Relaxing
      <4>3. CASE ~ (i > 1 \/ edge[t] + 1 < j)
        <5>1. i = 1
          BY <4>3
        <5>2. edge[t] + 1 = j
          BY <1>1, <4>1, <4>3, <5>1, EdgesTyped
        <5> QED BY <1>1, <3>2, <4>1, <5>1, <5>2 DEF Relaxed, Relaxing
      <4> QED BY <4>2, <4>3
    <3> QED BY <3>1, <3>2
  <2> QED BY <1>1, <2>1, <2>2, <2>3, WorkKept
<1> QED BY <1>6, <1>7, <1>8, <1>9, <1>10, <1>11, <1>12, <1>13

\* The test of the retry loop, for what was just read.
LEMMA ImprovesKeeps ==
  ASSUME DeltaStepAssumption, Always, NEW p \in 0 .. 1, First(p), NEW t \in Threads,
         NEW old \in 0 .. DistInf, NEW new \in Nat, pc[t] \in {"readU", "cas"}, Improves(t, old, new),
         old >= dist[Edge(t).v], new >= OracleDist(graph, source)[Edge(t).v], BinOf(new) >= sharedIndexes[p],
         pc[t] = "readU" => new = dist[batch[t][1]] + Edge(t).w, pc[t] = "cas" => new = newDist[t],
         UNCHANGED <<graph, source, dist, frontier, sharedIndexes, frontierTails, todo, resetDone,
                     iter, localBins, batch, fused, edge, copyStart>>
  PROVE  Always' /\ First(p)'
<1> USE DEF Always, First
<1>1. /\ Head(batch[t]) = batch[t][1] /\ OutEdges(t) = graph.out[batch[t][1]] /\ batch[t][1] \in NodeID
      /\ Edge(t).v \in NodeID /\ Edge(t).w \in Nat /\ Edge(t)' = Edge(t) /\ OutEdges(t)' = OutEdges(t)
  <2>1. /\ Head(batch[t]) = batch[t][1] /\ OutEdges(t) = graph.out[batch[t][1]] /\ batch[t][1] \in NodeID
    BY EdgeFacts DEF Relaxing
  <2>2. Edge(t) \in [v : NodeID, w : Nat]
    BY EdgeFacts
  <2>3. Edge(t)' = Edge(t) /\ OutEdges(t)' = OutEdges(t)
    BY DEF Edge, OutEdges
  <2> QED BY <2>1, <2>2, <2>3
<1>2. \/ new < old /\ pc'[t] = "cas" /\ oldDist'[t] = old /\ newDist'[t] = new
      \/ ~ (new < old) /\ pc'[t] = "relax"
  BY DEF Improves, Goto, Typed
<1>3. \A s \in Threads : s # t => SameHands(s)
  BY DEF Improves, Goto, Typed, SameHands
<1>4. Typed'
  <2>1. pc' \in [Threads -> Locations]
    BY DEF Improves, Goto, Typed, Locations
  <2>2. oldDist' \in [Threads -> 0 .. DistInf] /\ newDist' \in [Threads -> 0 .. DistInf]
    <3>1. CASE new < old
      <4>1. new \in 0 .. DistInf
        BY <3>1, InfFacts
      <4> QED BY <3>1, <4>1 DEF Improves, Typed
    <3>2. CASE ~ (new < old)
      <4>1. 0 \in 0 .. DistInf
        BY InfFacts
      <4> QED BY <3>2, <4>1 DEF Improves, Typed
    <3> QED BY <3>1, <3>2
  <2> QED BY <2>1, <2>2 DEF Typed
<1>5. ASSUME NEW s \in Threads  PROVE Held(s)'
  <2>1. CASE s # t
    <3>1. Shorter
      BY InfFacts DEF Shorter, Typed
    <3> QED BY <1>3, <1>4, <2>1, <3>1, HeldKept
  <2>2. CASE s = t
    <3>1. Len(batch'[t]) >= 1 /\ (~ fused'[t] => Len(batch'[t]) = 1) /\ edge'[t] <= Len(OutEdges(t))'
      BY <1>1 DEF Held, Relaxing
    <3>2. edge'[t] >= 1
      BY DEF Held
    <3> QED BY <1>2, <2>2, <3>1, <3>2 DEF Held, Relaxing
  <2> QED BY <2>1, <2>2
<1>6. BinsBound'
  BY DEF BinsBound
<1>7. LongEnough'
  <2>1. \A s \in Threads : s # t => Edge(s)' = Edge(s) /\ pc'[s] = pc[s] /\ newDist'[s] = newDist[s]
    BY <1>3 DEF SameHands, Edge, OutEdges
  <2> QED BY <1>1, <1>2, <2>1 DEF LongEnough
<1>8. Working(p)'
  BY <1>2, <1>3 DEF Working, FirstPhase, SameHands
<1>9. FirstCounters(p)'
  BY <1>2, <1>3 DEF FirstCounters, SameHands
<1>10. FirstBins(p)'
  <2>1. \A s \in Threads : s # t => pc'[s] = pc[s] /\ newDist'[s] = newDist[s]
    BY <1>3 DEF SameHands
  <2> QED BY <1>2, <2>1 DEF FirstBins, LowerEmpty, Relaxing
<1>11. FirstWork(p)'
  <2>1. ASSUME NEW x, Listed(x)  PROVE Listed(x)'
    BY <2>1 DEF Listed
  <2>2. ASSUME NEW x, Checked(x)  PROVE Checked(x)'
    BY <1>3, <2>2 DEF Checked, SameHands
  <2>3. ASSUME NEW s \in Threads, NEW x \in NodeID, NEW j \in 1 .. Len(graph.out[x]), Relaxed(s, x, j),
               Improvable(x, j)
        PROVE  Relaxed(s, x, j)'
    <3>1. CASE s # t
      BY <1>3, <2>3, <3>1, RelaxedKept
    <3>2. CASE s = t
      <4>1. CASE \E i \in 1 .. Len(batch[t]) : batch[t][i] = x /\ (i > 1 \/ edge[t] < j)
        BY <1>2, <3>2, <4>1 DEF Relaxed, Relaxing
      <4>2. CASE ~ \E i \in 1 .. Len(batch[t]) : batch[t][i] = x /\ (i > 1 \/ edge[t] < j)
        <5>1. batch[t][1] = x /\ edge[t] = j /\ (pc[t] = "cas" => newDist[t] = dist[x] + Edge(t).w)
          BY <2>3, <3>2, <4>2 DEF Relaxed
        <5>2. new = dist[x] + Edge(t).w /\ Edge(t) = graph.out[x][j]
          BY <1>1, <5>1 DEF Edge
        <5>3. new < dist[Edge(t).v]
          BY <2>3, <5>2 DEF Improvable
        <5>4. new < old
          <6>1. dist[Edge(t).v] \in 0 .. DistInf
            BY <1>1 DEF Typed
          <6> QED BY <5>3, <6>1, InfFacts
        <5>5. pc'[t] = "cas" /\ newDist'[t] = new
          BY <1>2, <5>4
        <5> QED BY <1>1, <3>2, <5>1, <5>2, <5>5 DEF Relaxed, Relaxing
      <4> QED BY <4>1, <4>2
    <3> QED BY <3>1, <3>2
  <2> QED BY <2>1, <2>2, <2>3, WorkKept
<1> QED BY <1>4, <1>5, <1>6, <1>7, <1>8, <1>9, <1>10, <1>11

LEMMA ReadUKeeps ==
  ASSUME DeltaStepAssumption, Always, NEW p \in 0 .. 1, First(p), NEW t \in Threads, ReadU(t)
  PROVE  Always' /\ First(p)'
<1> DEFINE u == batch[t][1]
           D == OracleDist(graph, source)
<1>0. Typed /\ Held(t) /\ FirstBins(p) /\ LongEnough /\ pc[t] = "readU"
  BY DEF Always, First, ReadU
<1>1. /\ Head(batch[t]) = u /\ OutEdges(t) = graph.out[u] /\ u \in NodeID
  BY <1>0, EdgeFacts DEF Relaxing
<1>2. Edge(t).v \in NodeID /\ Edge(t).w \in Nat
  <2>1. Edge(t) \in [v : NodeID, w : Nat]
    BY <1>0, EdgeFacts
  <2> QED BY <2>1
<1>3. dist[u] \in 0 .. DistInf /\ dist[u] \in Nat /\ dist[u] + Edge(t).w \in Nat
  <2>1. dist[u] \in 0 .. DistInf
    BY <1>0, <1>1 DEF Typed
  <2> QED BY <1>2, <2>1, InfFacts
<1>4. oldDist[t] \in 0 .. DistInf /\ oldDist[t] >= dist[Edge(t).v]
  BY <1>0 DEF Typed, Held
<1>5. dist[u] + Edge(t).w >= D[Edge(t).v]
  <2>1. D[Edge(t).v] <= D[u] + Edge(t).w
    <3>1. edge[t] \in 1 .. Len(graph.out[u])
      BY <1>0, <1>1, EdgesTyped DEF Held, Relaxing, Typed
    <3>2. NoShortcut(graph, D) /\ Edge(t) = graph.out[u][edge[t]]
      BY <1>0, <1>1, OracleFacts DEF Typed, Edge
    <3> QED BY <1>1, <3>1, <3>2 DEF NoShortcut
  <2>2. D[u] <= dist[u]
    BY <1>0, <1>1 DEF LongEnough
  <2>3. D[u] \in 0 .. DistInf /\ D[Edge(t).v] \in 0 .. DistInf
    <3>1. D \in [NodeID -> 0 .. DistInf]
      BY <1>0, OracleFacts DEF Typed
    <3> HIDE DEF D
    <3> QED BY <1>1, <1>2, <3>1
  <2> HIDE DEF D
  <2> QED BY <1>2, <1>3, <2>1, <2>2, <2>3, InfFacts
<1>6. BinOf(dist[u] + Edge(t).w) >= sharedIndexes[p]
  <2>1. BinOf(dist[u]) = sharedIndexes[p]
    <3>1. 1 \in 1 .. Len(batch[t])
      <4>1. Len(batch[t]) >= 1 /\ Len(batch[t]) \in Nat
        BY <1>0 DEF Held, Relaxing, Typed
      <4> QED BY <4>1
    <3> QED BY <1>0, <3>1 DEF FirstBins, Relaxing
  <2>2. BinOf(dist[u]) <= BinOf(dist[u] + Edge(t).w)
    BY <1>2, <1>3, BinFacts
  <2>3. BinOf(dist[u]) \in Nat /\ BinOf(dist[u] + Edge(t).w) \in Nat
    BY <1>3, BinFacts
  <2> QED BY <2>1, <2>2, <2>3
<1>7. /\ Improves(t, oldDist[t], dist[u] + Edge(t).w)
      /\ UNCHANGED <<shared, iter, localBins, batch, fused, edge, copyStart>>
  BY <1>1 DEF ReadU
<1> QED BY <1>0, <1>3, <1>4, <1>5, <1>6, <1>7, ImprovesKeeps DEF shared

\* The distance comes down, and the vertex is in the bin of its new distance.
LEMMA ImprovedKeeps ==
  ASSUME DeltaStepAssumption, Always, NEW p \in 0 .. 1, First(p), NEW t \in Threads,
         CompareAndSwap(t), dist[Edge(t).v] = oldDist[t]
  PROVE  Always' /\ First(p)'
<1> USE DEF Always, First
<1> DEFINE v == Edge(t).v
           d == newDist[t]
           b == BinOf(d)
           m == sharedIndexes[p]
<1>1. /\ pc[t] = "cas" /\ pc'[t] = "relax" /\ batch' = batch /\ fused' = fused /\ edge' = edge
      /\ graph' = graph /\ source' = source /\ frontier' = frontier
      /\ sharedIndexes' = sharedIndexes /\ frontierTails' = frontierTails /\ todo' = todo
      /\ resetDone' = resetDone /\ iter' = iter
      /\ dist' = [dist EXCEPT ![v] = d]
      /\ localBins' = [localBins EXCEPT ![t][b] = Append(@, v)]
  BY DEF CompareAndSwap, Push, Goto, Typed, BinOf
<1>2. \A s \in Threads : s # t => SameHands(s)
  BY DEF CompareAndSwap, Goto, Typed, SameHands
<1>3. v \in NodeID /\ Head(batch[t]) = batch[t][1] /\ OutEdges(t) = graph.out[batch[t][1]]
  <2>1. Edge(t) \in [v : NodeID, w : Nat]
    BY <1>1, EdgeFacts
  <2> QED BY <1>1, <2>1, EdgeFacts DEF Relaxing
<1>4. d \in 0 .. DistInf /\ d \in Nat /\ d < dist[v] /\ dist[v] \in 0 .. DistInf /\ b \in Bins /\ b >= m
  <2>1. d \in 0 .. DistInf /\ d < oldDist[t] /\ oldDist[t] \in 0 .. DistInf
    BY <1>1 DEF Held, Typed
  <2>2. b >= m
    BY <1>1 DEF FirstBins
  <2>3. d \in Nat /\ d < DistInf
    BY <2>1, InfFacts
  <2>4. b \in Bins
    BY <2>3, InfFacts
  <2> HIDE DEF b, d, v
  <2> QED BY <2>1, <2>2, <2>3, <2>4 DEF v, d
<1> HIDE DEF v, d, b
<1>5. \A n \in NodeID : dist[n] \in 0 .. DistInf /\ dist'[n] = IF n = v THEN d ELSE dist[n]
  BY <1>1 DEF Typed
<1>6. Shorter
  <2>1. \A n \in NodeID : dist'[n] <= dist[n]
    BY <1>4, <1>5, InfFacts
  <2> QED BY <1>1, <2>1 DEF Shorter
<1>7. \A n \in NodeID : /\ BinOf(dist'[n]) <= BinOf(dist[n]) /\ BinOf(dist'[n]) \in 0 .. NoBin
                        /\ BinOf(dist[n]) \in 0 .. NoBin
                        /\ n # v => dist'[n] = dist[n] /\ BinOf(dist'[n]) = BinOf(dist[n])
  <2> SUFFICES ASSUME NEW n \in NodeID
               PROVE  /\ BinOf(dist'[n]) <= BinOf(dist[n]) /\ BinOf(dist'[n]) \in 0 .. NoBin
                      /\ BinOf(dist[n]) \in 0 .. NoBin
                      /\ n # v => dist'[n] = dist[n] /\ BinOf(dist'[n]) = BinOf(dist[n])
    OBVIOUS
  <2>1. dist'[n] \in 0 .. DistInf /\ dist[n] \in 0 .. DistInf /\ dist'[n] <= dist[n]
    BY <1>4, <1>5, <1>6 DEF Shorter
  <2>2. dist'[n] \in Nat /\ dist[n] \in Nat
    BY <2>1, InfFacts
  <2>3. BinOf(dist'[n]) <= BinOf(dist[n])
    BY <2>1, <2>2, BinFacts
  <2> QED BY <1>5, <2>1, <2>3, InfFacts
<1>8. BinOf(dist'[v]) = b
  BY <1>3, <1>5 DEF b
<1>9. ASSUME NEW s \in Threads, NEW a \in Bins
      PROVE  /\ localBins[s][a] \in Seq(NodeID)
             /\ ~ (s = t /\ a = b) => localBins'[s][a] = localBins[s][a]
             /\ s = t /\ a = b => localBins'[s][a] = Append(localBins[s][a], v)
  <2>1. localBins[s][a] \in Seq(NodeID)
    BY DEF Typed
  <2>2. CASE s = t
    BY <1>1, <1>4, <2>1, <2>2 DEF Typed
  <2>3. CASE s # t
    BY <1>1, <2>1, <2>3 DEF Typed
  <2> QED BY <2>2, <2>3
\* What is in a bin afterwards was there before, or is v in its own bin.
<1>10. ASSUME NEW s \in Threads, NEW a \in Bins, NEW i \in 1 .. Len(localBins'[s][a])
       PROVE  /\ localBins'[s][a][i] \in NodeID
              /\ \/ a = b /\ localBins'[s][a][i] = v
                 \/ i \in 1 .. Len(localBins[s][a]) /\ localBins'[s][a][i] = localBins[s][a][i]
  <2>1. localBins[s][a] \in Seq(NodeID) /\ Len(localBins[s][a]) \in Nat
        /\ \A k \in 1 .. Len(localBins[s][a]) : localBins[s][a][k] \in NodeID
    BY <1>9, SeqFacts
  <2>2. CASE ~ (s = t /\ a = b)
    BY <1>9, <2>1, <2>2
  <2>3. CASE s = t /\ a = b
    <3>1. localBins'[s][a] = Append(localBins[s][a], v)
      BY <1>9, <2>3
    <3>2. /\ Len(Append(localBins[s][a], v)) = Len(localBins[s][a]) + 1
          /\ i = Len(localBins[s][a]) + 1 => Append(localBins[s][a], v)[i] = v
          /\ i <= Len(localBins[s][a]) => Append(localBins[s][a], v)[i] = localBins[s][a][i]
      BY <2>1, <3>1
    <3> QED BY <1>3, <2>1, <2>3, <3>1, <3>2
  <2> QED BY <2>2, <2>3
\* Nothing left its bin.
<1>11. ASSUME NEW s \in Threads, NEW a \in Bins, NEW i \in 1 .. Len(localBins[s][a])
       PROVE  i \in 1 .. Len(localBins'[s][a]) /\ localBins'[s][a][i] = localBins[s][a][i]
  <2>1. localBins[s][a] \in Seq(NodeID) /\ Len(localBins[s][a]) \in Nat
    BY <1>9, SeqFacts
  <2>2. CASE ~ (s = t /\ a = b)
    BY <1>9, <2>2
  <2>3. CASE s = t /\ a = b
    <3>1. localBins'[s][a] = Append(localBins[s][a], v)
      BY <1>9, <2>3
    <3> QED BY <1>3, <2>1, <3>1
  <2> QED BY <2>2, <2>3
<1>12. \E i \in 1 .. Len(localBins'[t][b]) : localBins'[t][b][i] = v
  <2>1. localBins[t][b] \in Seq(NodeID) /\ Len(localBins[t][b]) \in Nat
        /\ localBins'[t][b] = Append(localBins[t][b], v)
    BY <1>4, <1>9, SeqFacts
  <2>2. Len(localBins[t][b]) + 1 \in 1 .. Len(Append(localBins[t][b], v))
        /\ Append(localBins[t][b], v)[Len(localBins[t][b]) + 1] = v
    BY <1>3, <2>1
  <2> QED BY <2>1, <2>2
<1>13. Typed'
  <2>1. pc' \in [Threads -> Locations]
    BY DEF CompareAndSwap, Goto, Typed, Locations
  <2>2. dist' \in [NodeID -> 0 .. DistInf]
    BY <1>1, <1>4 DEF Typed
  <2>3. localBins' \in [Threads -> [Bins -> Seq(NodeID)]]
    <3>1. Append(localBins[t][b], v) \in Seq(NodeID)
      BY <1>3, <1>4, <1>9
    <3>2. [localBins[t] EXCEPT ![b] = Append(@, v)] \in [Bins -> Seq(NodeID)]
      BY <3>1 DEF Typed
    <3> QED BY <1>1, <3>2 DEF Typed
  <2>4. oldDist' \in [Threads -> 0 .. DistInf] /\ newDist' \in [Threads -> 0 .. DistInf]
    <3>1. 0 \in 0 .. DistInf
      BY InfFacts
    <3> QED BY <3>1 DEF CompareAndSwap, Typed, v
  <2>5. copyStart' \in [Threads -> Nat]
    BY DEF CompareAndSwap, Typed
  <2> QED BY <1>1, <2>1, <2>2, <2>3, <2>4, <2>5 DEF Typed
<1>14. ASSUME NEW s \in Threads  PROVE Held(s)'
  <2>1. CASE s # t
    BY <1>2, <1>6, <1>13, <2>1, HeldKept
  <2>2. CASE s = t
    <3>1. OutEdges(t)' = OutEdges(t)
      BY <1>1 DEF OutEdges
    <3>2. Len(batch[t]) >= 1 /\ (~ fused[t] => Len(batch[t]) = 1) /\ edge[t] <= Len(OutEdges(t))
      BY <1>1 DEF Held, Relaxing
    <3> QED BY <1>1, <2>2, <3>1, <3>2 DEF Held, Relaxing
  <2> QED BY <2>1, <2>2
<1>15. BinsBound'
  <2> SUFFICES ASSUME NEW s \in Threads, NEW a \in Bins, NEW i \in 1 .. Len(localBins'[s][a])
               PROVE  BinOf(dist'[localBins'[s][a][i]]) <= a
    BY DEF BinsBound
  <2>0. a \in Nat /\ localBins'[s][a][i] \in NodeID
    BY <1>10 DEF Bins
  <2>1. CASE a = b /\ localBins'[s][a][i] = v
    BY <1>8, <2>0, <2>1
  <2>2. CASE i \in 1 .. Len(localBins[s][a]) /\ localBins'[s][a][i] = localBins[s][a][i]
    <3>1. BinOf(dist[localBins'[s][a][i]]) <= a
      BY <2>2 DEF BinsBound
    <3>2. /\ BinOf(dist'[localBins'[s][a][i]]) <= BinOf(dist[localBins'[s][a][i]])
          /\ BinOf(dist'[localBins'[s][a][i]]) \in 0 .. NoBin /\ BinOf(dist[localBins'[s][a][i]]) \in 0 .. NoBin
      BY <1>7, <2>0
    <3> QED BY <2>0, <3>1, <3>2, InfFacts
  <2> QED BY <1>10, <2>1, <2>2
<1>16. LongEnough'
  <2>1. d >= OracleDist(graph, source)[v]
    BY <1>1 DEF LongEnough, d, v
  <2>2. source # v /\ source \in NodeID
    BY <1>4 DEF LongEnough, Typed
  <2>3. \A s \in Threads : s # t => Edge(s)' = Edge(s) /\ pc'[s] = pc[s] /\ newDist'[s] = newDist[s]
    BY <1>1, <1>2 DEF SameHands, Edge, OutEdges
  <2>4. \A n \in NodeID : dist'[n] >= OracleDist(graph, source)[n]
    BY <1>5, <2>1 DEF LongEnough
  <2> QED BY <1>1, <1>5, <2>2, <2>3, <2>4 DEF LongEnough
<1>17. Working(p)'
  BY <1>1, <1>2 DEF Working, FirstPhase, SameHands
<1>18. FirstCounters(p)'
  BY <1>1, <1>2 DEF FirstCounters, SameHands
<1>19. FirstBins(p)'
  <2>0. m \in 0 .. NoBin /\ b \in Nat /\ m \in Nat
    <3>1. m \in 0 .. NoBin
      BY DEF Typed
    <3> QED BY <1>4, <3>1, InfFacts DEF Bins
  <2>1. LowerEmpty(m)'
    <3>1. ASSUME NEW s \in Threads, NEW a \in Bins, a < m  PROVE localBins'[s][a] = << >>
      <4>1. a # b
        BY <1>4, <2>0, <3>1 DEF Bins
      <4>2. localBins[s][a] = << >>
        BY <3>1 DEF FirstBins, LowerEmpty
      <4> QED BY <1>9, <4>1, <4>2
    <3> QED BY <1>1, <3>1 DEF LowerEmpty
  <2>2. ASSUME NEW i \in todo  PROVE BinOf(dist'[frontier[i]]) <= m
    <3>1. frontier[i] \in NodeID /\ BinOf(dist[frontier[i]]) <= m
      <4>1. i \in 1 .. Len(frontier) /\ frontier \in Seq(NodeID)
        BY DEF Typed
      <4> QED BY <4>1, SeqFacts DEF FirstBins
    <3> QED BY <1>7, <2>0, <3>1, InfFacts
  <2>3. ASSUME NEW s \in Threads, m # NoBin, NEW i \in 1 .. Len(localBins'[s][m])
        PROVE  BinOf(dist'[localBins'[s][m][i]]) >= m
    <3>1. m \in Bins
      BY <2>0, <2>3, InfFacts DEF Bins
    <3>2. localBins'[s][m][i] \in NodeID
      BY <1>10, <2>3, <3>1
    <3>3. CASE localBins'[s][m][i] = v
      BY <1>4, <1>8, <3>3
    <3>4. CASE localBins'[s][m][i] # v
      <4>1. i \in 1 .. Len(localBins[s][m]) /\ localBins'[s][m][i] = localBins[s][m][i]
        BY <1>10, <2>3, <3>1, <3>4
      <4>2. BinOf(dist[localBins[s][m][i]]) >= m
        BY <2>3, <4>1 DEF FirstBins
      <4> QED BY <1>7, <3>2, <3>4, <4>1, <4>2
    <3> QED BY <3>3, <3>4
  <2>4. ASSUME NEW s \in Threads, pc'[s] = "check"  PROVE BinOf(dist'[batch'[s][1]]) <= m
    <3>1. s # t /\ pc[s] = "check" /\ batch'[s] = batch[s]
      BY <1>1, <1>2, <2>4 DEF SameHands
    <3>2. BinOf(dist[batch[s][1]]) <= m /\ batch[s][1] \in NodeID
      BY <3>1, EdgeFacts DEF FirstBins
    <3> QED BY <1>7, <2>0, <3>1, <3>2, InfFacts
  <2>5. ASSUME NEW s \in Threads, pc'[s] \in Relaxing, NEW i \in 1 .. Len(batch'[s])
        PROVE  BinOf(dist'[batch'[s][i]]) = m
    <3>1. pc[s] \in Relaxing /\ batch'[s] = batch[s]
      BY <1>1, <1>2, <2>5 DEF SameHands, Relaxing
    <3>2. BinOf(dist[batch[s][i]]) = m /\ batch[s][i] \in NodeID
      <4>1. batch[s] \in Seq(NodeID)
        BY DEF Typed
      <4> QED BY <2>5, <3>1, <4>1, SeqFacts DEF FirstBins
    <3>3. CASE batch[s][i] = v
      BY <1>4, <1>7, <1>8, <2>0, <3>1, <3>2, <3>3
    <3>4. CASE batch[s][i] # v
      BY <1>7, <3>1, <3>2, <3>4
    <3> QED BY <3>3, <3>4
  <2>6. ASSUME NEW s \in Threads, pc'[s] = "cas"  PROVE BinOf(newDist'[s]) >= m
    BY <1>1, <1>2, <2>6 DEF FirstBins, SameHands
  <2>7. ASSUME NEW s \in Threads, pc'[s] = "barrier1", NEW a \in Bins, localBins'[s][a] # << >>
        PROVE  sharedIndexes[1 - p] <= a
    <3>1. s # t /\ pc[s] = "barrier1"
      BY <1>1, <1>2, <2>7 DEF SameHands
    <3> QED BY <1>9, <2>7, <3>1 DEF FirstBins
  <2>8. ASSUME NEW s \in Threads
        PROVE  /\ m # NoBin => \A i \in 1 .. Len(localBins'[s][m]) : BinOf(dist'[localBins'[s][m][i]]) >= m
               /\ pc'[s] = "check" => BinOf(dist'[batch'[s][1]]) <= m
               /\ pc'[s] \in Relaxing => \A i \in 1 .. Len(batch'[s]) : BinOf(dist'[batch'[s][i]]) = m
               /\ pc'[s] = "cas" => BinOf(newDist'[s]) >= m
               /\ pc'[s] = "barrier1" => \A a \in Bins : localBins'[s][a] # << >> => sharedIndexes[1 - p] <= a
    BY <2>3, <2>4, <2>5, <2>6, <2>7
  <2>9. sharedIndexes' = sharedIndexes /\ todo' = todo /\ frontier' = frontier
    BY <1>1
  <2> QED BY <2>1, <2>2, <2>8, <2>9 DEF FirstBins
<1>20. FirstWork(p)'
  <2> SUFFICES ASSUME NEW x \in NodeID, NEW j \in 1 .. Len(graph.out[x]), Improvable(x, j)'
               PROVE  \/ InBin(x)'
                      \/ (BinOf(dist[x]) = m /\ (Listed(x) \/ Checked(x)))'
                      \/ (\E s \in Threads : Relaxed(s, x, j)')
    BY <1>1 DEF FirstWork
  <2>1. CASE x = v
    <3>1. InBin(x)'
      BY <1>8, <1>12, <2>1 DEF InBin, BinOf
    <3> QED BY <3>1
  <2>2. CASE x # v
    <3>0. dist'[x] = dist[x] /\ dist[x] \in 0 .. DistInf
      BY <1>5, <2>2
    <3>1. Improvable(x, j)
      <4>1. graph.out[x][j].v \in NodeID /\ graph.out[x][j].w \in Nat
        BY EdgesTyped
      <4>2. dist'[graph.out[x][j].v] <= dist[graph.out[x][j].v]
            /\ dist'[graph.out[x][j].v] \in 0 .. DistInf /\ dist[graph.out[x][j].v] \in 0 .. DistInf
        BY <1>4, <1>5, <1>6, <4>1 DEF Shorter
      <4>3. dist[x] + graph.out[x][j].w < dist'[graph.out[x][j].v]
        BY <1>1, <3>0 DEF Improvable
      <4>4. \A a, c, w, e \in Nat : a + w < c /\ c <= e => a + w < e
        OBVIOUS
      <4>5. \A k \in 0 .. DistInf : k \in Nat
        BY InfFacts
      <4>6. /\ dist[x] \in Nat /\ dist[graph.out[x][j].v] \in Nat /\ dist'[graph.out[x][j].v] \in Nat
        BY <3>0, <4>2, <4>5
      <4> QED BY <4>1, <4>2, <4>3, <4>4, <4>6 DEF Improvable
    <3>2. CASE InBin(x)
      <4> DEFINE a == BinOf(dist[x])
      <4>1. PICK s \in Threads : \E i \in 1 .. Len(localBins[s][a]) : localBins[s][a][i] = x
        BY <3>2 DEF InBin, BinOf
      <4>2. a \in Bins
        <5>1. dist[x] + graph.out[x][j].w < dist[graph.out[x][j].v]
              /\ graph.out[x][j].w \in Nat /\ dist[graph.out[x][j].v] \in 0 .. DistInf
          BY <1>5, <3>1, EdgesTyped DEF Improvable
        <5>2. dist[x] \in Nat /\ dist[x] < DistInf
          <6>1. \A k, w, e, inf \in Nat : k + w < e /\ e <= inf => k < inf
            OBVIOUS
          <6>2. /\ dist[x] \in Nat /\ dist[graph.out[x][j].v] \in Nat /\ DistInf \in Nat
                /\ dist[graph.out[x][j].v] <= DistInf
            BY <3>0, <5>1, InfFacts
          <6> QED BY <5>1, <6>1, <6>2
        <5> QED BY <5>2, InfFacts
      <4>3. \E i \in 1 .. Len(localBins'[s][a]) : localBins'[s][a][i] = x
        <5> HIDE DEF a
        <5> QED BY <1>11, <4>1, <4>2
      <4>4. InBin(x)'
        BY <3>0, <4>3 DEF InBin, BinOf
      <4> QED BY <4>4
    <3>3. CASE BinOf(dist[x]) = m /\ (Listed(x) \/ Checked(x))
      <4>1. Listed(x) => Listed(x)'
        BY <1>1 DEF Listed
      <4>2. Checked(x) => Checked(x)'
        BY <1>1, <1>2 DEF Checked, SameHands
      <4> QED BY <1>1, <3>0, <3>3, <4>1, <4>2
    <3>4. ASSUME NEW s \in Threads, Relaxed(s, x, j)  PROVE Relaxed(s, x, j)'
      <4>1. CASE s # t
        BY <1>1, <1>2, <3>0, <3>4, <4>1, RelaxedKept
      <4>2. CASE s = t
        <5>1. CASE \E i \in 1 .. Len(batch[t]) : batch[t][i] = x /\ (i > 1 \/ edge[t] < j)
          BY <1>1, <4>2, <5>1 DEF Relaxed, Relaxing
        <5>2. CASE ~ \E i \in 1 .. Len(batch[t]) : batch[t][i] = x /\ (i > 1 \/ edge[t] < j)
          <6>1. batch[t][1] = x /\ edge[t] = j /\ d = dist[x] + Edge(t).w
            BY <1>1, <3>4, <4>2, <5>2 DEF Relaxed, d
          <6>2. Edge(t) = graph.out[x][j]
            BY <1>3, <6>1 DEF Edge
          <6>3. dist'[graph.out[x][j].v] = d
            BY <1>3, <1>5, <6>2 DEF v
          <6>4. d < d
            BY <1>1, <3>0, <6>1, <6>2, <6>3 DEF Improvable
          <6> QED BY <1>4, <6>4
        <5> QED BY <5>1, <5>2
      <4> QED BY <4>1, <4>2
    <3> QED BY <3>1, <3>2, <3>3, <3>4 DEF FirstWork
  <2> QED BY <2>1, <2>2
<1> QED BY <1>13, <1>14, <1>15, <1>16, <1>17, <1>18, <1>19, <1>20

LEMMA CompareAndSwapKeeps ==
  ASSUME DeltaStepAssumption, Always, NEW p \in 0 .. 1, First(p), NEW t \in Threads, CompareAndSwap(t)
  PROVE  Always' /\ First(p)'
<1>1. CASE dist[Edge(t).v] = oldDist[t]
  BY <1>1, ImprovedKeeps
<1>2. CASE dist[Edge(t).v] # oldDist[t]
  <2> DEFINE d == dist[Edge(t).v]
  <2>1. Typed /\ Held(t) /\ FirstBins(p) /\ LongEnough /\ pc[t] = "cas"
    BY DEF Always, First, CompareAndSwap
  <2>2. Edge(t) \in [v : NodeID, w : Nat]
    BY <2>1, EdgeFacts
  <2>3. d \in 0 .. DistInf /\ newDist[t] \in 0 .. DistInf
    BY <2>1, <2>2 DEF Typed
  <2>4. newDist[t] >= OracleDist(graph, source)[Edge(t).v] /\ BinOf(newDist[t]) >= sharedIndexes[p]
    BY <2>1 DEF LongEnough, FirstBins
  <2>5. /\ Improves(t, d, newDist[t])
        /\ UNCHANGED <<graph, source, dist, frontier, sharedIndexes, frontierTails, todo, resetDone,
                       iter, localBins, batch, fused, edge, copyStart>>
    BY <1>2 DEF CompareAndSwap
  <2>6. newDist[t] \in Nat /\ d >= d
    BY <2>3, InfFacts
  <2> QED BY <2>1, <2>3, <2>4, <2>5, <2>6, ImprovesKeeps
<1> QED BY <1>1, <1>2

-----------------------------------------------------------------------------
(* The second phase: nothing is relaxed, bins are copied. *)

LEMMA Parities ==
  ASSUME NEW p \in 0 .. 1
  PROVE  /\ 1 - p \in 0 .. 1 /\ 1 - (1 - p) = p /\ 1 - p # p
         /\ p % 2 = p /\ (p + 1) % 2 = 1 - p /\ (p + 1 + 1) % 2 = p
<1>1. p = 0 \/ p = 1
  OBVIOUS
<1> QED BY <1>1

LEMMA CopyingParity ==
  ASSUME NEW p \in 0 .. 1, Copying(p), NEW t \in Threads
  PROVE  /\ pc[t] # "barrier2" => Curr(t) = p /\ NextOf(t) = 1 - p /\ NextBin(t) = sharedIndexes[1 - p]
                                  /\ iter[t] = p /\ NextLocalBin(t) = Share(t, p)
         /\ pc[t] = "barrier2" => Curr(t) = 1 - p /\ CurrBin(t) = sharedIndexes[1 - p] /\ iter[t] = p + 1
<1>1. CASE pc[t] # "barrier2"
  <2>1. iter[t] = p
    BY <1>1 DEF Copying
  <2>2. Curr(t) = p /\ NextOf(t) = 1 - p /\ NextBin(t) = sharedIndexes[1 - p]
    BY <2>1, ParityFacts
  <2> QED BY <1>1, <2>1, <2>2 DEF NextLocalBin, Share
<1>2. CASE pc[t] = "barrier2"
  <2>1. iter[t] = p + 1
    BY <1>2 DEF Copying
  <2>2. Curr(t) = 1 - p
    BY <2>1, Parities DEF Curr
  <2> QED BY <1>2, <2>1, <2>2 DEF CurrBin
<1> QED BY <1>1, <1>2

LEMMA ShareFacts ==
  ASSUME DeltaStepAssumption, Typed, NEW p \in 0 .. 1, NEW s \in Threads
  PROVE  /\ Share(s, p) \in Seq(NodeID) /\ Len(Share(s, p)) \in Nat
         /\ \A i \in 1 .. Len(Share(s, p)) : Share(s, p)[i] \in NodeID
         /\ copyStart[s] \in Nat /\ CopyEnd(s, p) \in Nat /\ CopyEnd(s, p) = copyStart[s] + Len(Share(s, p))
         /\ sharedIndexes[1 - p] \in 0 .. NoBin /\ sharedIndexes[1 - p] \in Nat
         /\ sharedIndexes[1 - p] # NoBin => sharedIndexes[1 - p] \in Bins
<1>1. sharedIndexes[1 - p] \in 0 .. NoBin
  BY Parities DEF Typed
<1>2. /\ sharedIndexes[1 - p] \in Nat
      /\ sharedIndexes[1 - p] # NoBin => sharedIndexes[1 - p] \in Bins
  BY <1>1, InfFacts DEF Bins
<1>3. Share(s, p) \in Seq(NodeID)
  BY <1>2 DEF Share, Typed
<1>4. Len(Share(s, p)) \in Nat /\ \A i \in 1 .. Len(Share(s, p)) : Share(s, p)[i] \in NodeID
  BY <1>3, SeqFacts
<1>5. copyStart[s] \in Nat
  BY DEF Typed
<1> QED BY <1>1, <1>2, <1>3, <1>4, <1>5 DEF CopyEnd

\* Outside of the relaxing part of an iteration nobody holds anything.
LEMMA IdleKept ==
  ASSUME Always, Typed', BinsBound',
         graph' = graph, source' = source, dist' = dist, batch' = batch, fused' = fused, edge' = edge,
         \A s \in Threads : pc[s] \notin Relaxing \union {"check"} /\ pc'[s] \notin Relaxing \union {"check"}
  PROVE  Always'
<1>1. ASSUME NEW s \in Threads  PROVE Held(s)'
  BY DEF Held, Always, Relaxing
<1>2. LongEnough'
  BY DEF LongEnough, Always, Relaxing
<1> QED BY <1>1, <1>2 DEF Always

\* The bin of a vertex that could still improve a neighbour is one in use.
LEMMA ImprovableBin ==
  ASSUME DeltaStepAssumption, Typed, NEW x \in NodeID, NEW j \in 1 .. Len(graph.out[x]), Improvable(x, j)
  PROVE  BinOf(dist[x]) \in Bins
<1>1. graph.out[x][j].v \in NodeID /\ graph.out[x][j].w \in Nat
  BY EdgesTyped
<1>2. dist[x] \in 0 .. DistInf /\ dist[graph.out[x][j].v] \in 0 .. DistInf
  BY <1>1 DEF Typed
<1>3. \A k, w, e, inf \in Nat : k + w < e /\ e <= inf => k < inf
  OBVIOUS
<1>4. /\ dist[x] \in Nat /\ dist[graph.out[x][j].v] \in Nat /\ DistInf \in Nat
      /\ dist[graph.out[x][j].v] <= DistInf
  BY <1>2, InfFacts
<1>5. dist[x] < DistInf
  BY <1>1, <1>3, <1>4 DEF Improvable
<1> QED BY <1>4, <1>5, InfFacts

LEMMA Barrier1Keeps ==
  ASSUME DeltaStepAssumption, Always, NEW p \in 0 .. 1, First(p), Barrier1
  PROVE  Always' /\ Second(p)'
<1> USE DEF Always, First
<1>1. /\ \A t \in Threads : pc[t] = "barrier1" /\ pc'[t] = "single"
      /\ graph' = graph /\ source' = source /\ dist' = dist /\ frontier' = frontier
      /\ sharedIndexes' = sharedIndexes /\ frontierTails' = frontierTails /\ todo' = todo
      /\ resetDone' = resetDone /\ iter' = iter /\ localBins' = localBins /\ batch' = batch
      /\ fused' = fused /\ edge' = edge /\ oldDist' = oldDist /\ newDist' = newDist /\ copyStart' = copyStart
  BY DEF Barrier1, shared
<1>2. PICK t0 \in Threads : TRUE
  BY DEF DeltaStepAssumption
<1>3. todo = {} /\ ~ resetDone /\ frontierTails[1 - p] = 0
  BY <1>1, <1>2 DEF FirstCounters
<1>4. Typed'
  <2>1. pc' \in [Threads -> Locations]
    BY DEF Barrier1, Locations
  <2> QED BY <1>1, <2>1 DEF Typed
<1>5. Always'
  <2>1. BinsBound'
    BY <1>1 DEF BinsBound
  <2> QED BY <1>1, <1>4, <2>1, IdleKept DEF Relaxing
<1>6. Copying(p)'
  BY <1>1 DEF Copying, SecondPhase, Working
<1>7. SecondCounters(p)'
  BY <1>1, <1>3 DEF SecondCounters
<1>8. SecondBins(p)'
  <2> DEFINE m == sharedIndexes[1 - p]
  <2>1. m \in Nat
    <3>1. m \in 0 .. NoBin
      BY Parities DEF Typed
    <3> QED BY <3>1, InfFacts
  <2>2. ASSUME NEW t \in Threads, NEW b \in Bins, b < m  PROVE localBins[t][b] = << >>
    <3>1. localBins[t][b] # << >> => m <= b
      BY <1>1 DEF FirstBins
    <3>2. b \in Nat
      BY InfFacts DEF Bins
    <3> HIDE DEF m
    <3> QED BY <2>1, <2>2, <3>1, <3>2
  <2> QED BY <1>1, <2>2 DEF SecondBins, LowerEmpty
<1>9. Cells(p)'
  BY <1>1, <1>3 DEF Cells
<1>10. SecondWork(p)'
  <2> SUFFICES ASSUME NEW x \in NodeID, NEW j \in 1 .. Len(graph.out[x]), Improvable(x, j)
               PROVE  InBin(x)
    BY <1>1 DEF SecondWork, Improvable, InBin
  <2> QED BY <1>1, <1>3 DEF FirstWork, Listed, Checked, Relaxed, Relaxing
<1> QED BY <1>5, <1>6, <1>7, <1>8, <1>9, <1>10 DEF Second

LEMMA SingleKeeps ==
  ASSUME DeltaStepAssumption, Always, NEW p \in 0 .. 1, Second(p), NEW t \in Threads, Single(t)
  PROVE  Always' /\ Second(p)'
<1> USE DEF Always, Second
<1>1. /\ pc[t] = "single" /\ pc'[t] = "claim" /\ \A s \in Threads : s # t => pc'[s] = pc[s]
      /\ graph' = graph /\ source' = source /\ dist' = dist /\ frontier' = frontier
      /\ todo' = todo /\ resetDone' = TRUE /\ iter' = iter /\ localBins' = localBins /\ batch' = batch
      /\ fused' = fused /\ edge' = edge /\ oldDist' = oldDist /\ newDist' = newDist /\ copyStart' = copyStart
  BY DEF Single, Goto, Typed
<1>2. Curr(t) = p
  BY <1>1, CopyingParity
<1>3. /\ sharedIndexes' \in [0 .. 1 -> 0 .. NoBin] /\ frontierTails' \in [0 .. 1 -> Nat]
      /\ sharedIndexes'[p] = NoBin /\ frontierTails'[p] = 0
      /\ sharedIndexes'[1 - p] = sharedIndexes[1 - p] /\ frontierTails'[1 - p] = frontierTails[1 - p]
  <2>1. CASE resetDone
    <3>1. sharedIndexes' = sharedIndexes /\ frontierTails' = frontierTails
      BY <2>1 DEF Single
    <3> QED BY <2>1, <3>1 DEF Typed, SecondCounters
  <2>2. CASE ~ resetDone
    <3>1. sharedIndexes' = [sharedIndexes EXCEPT ![p] = NoBin] /\ frontierTails' = [frontierTails EXCEPT ![p] = 0]
      BY <1>2, <2>2 DEF Single
    <3>2. NoBin \in 0 .. NoBin /\ 0 \in Nat
      BY InfFacts
    <3>3. /\ sharedIndexes' \in [0 .. 1 -> 0 .. NoBin] /\ sharedIndexes'[p] = NoBin
          /\ sharedIndexes'[1 - p] = sharedIndexes[1 - p]
      BY <3>1, <3>2, Parities DEF Typed
    <3>4. /\ frontierTails' \in [0 .. 1 -> Nat] /\ frontierTails'[p] = 0
          /\ frontierTails'[1 - p] = frontierTails[1 - p]
      BY <3>1, <3>2, Parities DEF Typed
    <3> QED BY <3>3, <3>4
  <2> QED BY <2>1, <2>2
<1>4. Typed'
  <2>1. pc' \in [Threads -> Locations]
    BY DEF Single, Goto, Typed, Locations
  <2> QED BY <1>1, <1>3, <2>1 DEF Typed
<1>5. Copying(p)'
  BY <1>1 DEF Copying, SecondPhase
<1>6. Always'
  <2>1. BinsBound'
    BY <1>1 DEF BinsBound
  <2> QED BY <1>1, <1>4, <1>5, <2>1, IdleKept DEF Relaxing, Copying, SecondPhase
<1>7. SecondCounters(p)'
  BY <1>1, <1>3 DEF SecondCounters
<1>8. SecondBins(p)'
  BY <1>1, <1>3 DEF SecondBins, LowerEmpty
<1>9. /\ \A s \in Threads : /\ CopyEnd(s, p)' = CopyEnd(s, p)
                            /\ (pc'[s] = "copy" <=> pc[s] = "copy") /\ (pc'[s] = "barrier2" <=> pc[s] = "barrier2")
      /\ \A i : Claimed(i, p)' <=> Claimed(i, p)
  <2>1. \A s \in Threads : /\ CopyEnd(s, p)' = CopyEnd(s, p)
                           /\ (pc'[s] = "copy" <=> pc[s] = "copy") /\ (pc'[s] = "barrier2" <=> pc[s] = "barrier2")
    BY <1>1, <1>3 DEF CopyEnd, Share
  <2> QED BY <1>1, <2>1 DEF Claimed
<1>10. Cells(p)'
  BY <1>1, <1>3, <1>9 DEF Cells
<1>11. SecondWork(p)'
  <2> SUFFICES ASSUME NEW x \in NodeID, NEW j \in 1 .. Len(graph.out[x]), Improvable(x, j)
               PROVE  InBin(x) \/ (BinOf(dist[x]) = sharedIndexes[1 - p] /\ Copied(x, p)')
    <3>1. \A x, j : (Improvable(x, j)' <=> Improvable(x, j)) /\ (InBin(x)' <=> InBin(x))
      BY <1>1 DEF Improvable, InBin
    <3> QED BY <1>1, <1>3, <3>1 DEF SecondWork
  <2>1. Copied(x, p) => Copied(x, p)'
    BY <1>1, <1>3, <1>9 DEF Copied
  <2> QED BY <2>1 DEF SecondWork
<1> QED BY <1>5, <1>6, <1>7, <1>8, <1>10, <1>11

LEMMA ClaimKeeps ==
  ASSUME DeltaStepAssumption, Always, NEW p \in 0 .. 1, Second(p), NEW t \in Threads, Claim(t)
  PROVE  Always' /\ Second(p)'
<1> USE DEF Always, Second
<1> DEFINE tail == frontierTails[1 - p]
           len == Len(Share(t, p))
<1>1. /\ pc[t] = "claim" /\ pc'[t] = "copy" /\ \A s \in Threads : s # t => pc'[s] = pc[s]
      /\ graph' = graph /\ source' = source /\ dist' = dist /\ frontier' = frontier
      /\ sharedIndexes' = sharedIndexes /\ todo' = todo /\ resetDone' = resetDone /\ iter' = iter
      /\ localBins' = localBins /\ batch' = batch
      /\ fused' = fused /\ edge' = edge /\ oldDist' = oldDist /\ newDist' = newDist
  BY DEF Claim, ClaimCells, Goto, Typed
<1>2. NextOf(t) = 1 - p /\ NextLocalBin(t) = Share(t, p)
  BY <1>1, CopyingParity
<1>3. tail \in Nat /\ len \in Nat
  <2>1. frontierTails \in [0 .. 1 -> Nat] /\ 1 - p \in 0 .. 1
    BY Parities DEF Typed
  <2> QED BY <2>1, ShareFacts
<1>4. /\ copyStart'[t] = tail /\ copyStart' \in [Threads -> Nat] /\ \A s \in Threads : s # t => copyStart'[s] = copyStart[s]
      /\ frontierTails' \in [0 .. 1 -> Nat] /\ frontierTails'[1 - p] = tail + len
      /\ frontierTails'[p] = frontierTails[p]
  <2>1. copyStart' = [copyStart EXCEPT ![t] = tail] /\ frontierTails' = [frontierTails EXCEPT ![1 - p] = tail + len]
    BY <1>2 DEF Claim, ClaimCells
  <2>2. tail + len \in Nat
    BY <1>3
  <2>3. /\ copyStart'[t] = tail /\ copyStart' \in [Threads -> Nat]
        /\ \A s \in Threads : s # t => copyStart'[s] = copyStart[s]
    BY <1>3, <2>1 DEF Typed
  <2>4. /\ frontierTails' \in [0 .. 1 -> Nat] /\ frontierTails'[1 - p] = tail + len
        /\ frontierTails'[p] = frontierTails[p]
    <3> HIDE DEF len
    <3> QED BY <2>1, <2>2, Parities DEF Typed
  <2> QED BY <2>3, <2>4
<1> HIDE DEF len, tail
<1>5. Typed'
  <2>1. pc' \in [Threads -> Locations]
    BY DEF Claim, ClaimCells, Goto, Typed, Locations
  <2> QED BY <1>1, <1>4, <2>1 DEF Typed
<1>6. Copying(p)'
  BY <1>1 DEF Copying, SecondPhase
<1>7. Always'
  <2>1. BinsBound'
    BY <1>1 DEF BinsBound
  <2> QED BY <1>1, <1>5, <1>6, <2>1, IdleKept DEF Relaxing, Copying, SecondPhase
<1>8. SecondCounters(p)'
  <2>1. sharedIndexes[1 - p] = NoBin => tail + len = 0
    BY DEF SecondCounters, Share, tail, len
  <2> QED BY <1>1, <1>4, <2>1 DEF SecondCounters
<1>9. SecondBins(p)'
  BY <1>1 DEF SecondBins, LowerEmpty
<1>10. /\ \A s \in Threads : s # t => CopyEnd(s, p)' = CopyEnd(s, p)
       /\ CopyEnd(t, p)' = tail + len
  BY <1>1, <1>4 DEF CopyEnd, Share, len
<1>11. ASSUME NEW i \in 1 .. frontierTails'[1 - p], ~ Claimed(i, p)'
       PROVE  i \in 1 .. tail /\ ~ Claimed(i, p)
  <2>1. ~ (tail < i)
    BY <1>1, <1>3, <1>4, <1>10, <1>11 DEF Claimed
  <2>2. i \in 1 .. tail
    BY <1>3, <1>4, <2>1
  <2>3. Claimed(i, p) => Claimed(i, p)'
    BY <1>1, <1>4, <1>10 DEF Claimed
  <2> QED BY <1>11, <2>2, <2>3
<1>12. Cells(p)'
  <2>1. ASSUME NEW s \in Threads, pc'[s] = "copy"  PROVE CopyEnd(s, p)' <= frontierTails'[1 - p]
    <3>1. CASE s = t
      BY <1>3, <1>4, <1>10, <3>1
    <3>2. CASE s # t
      <4>1. CopyEnd(s, p) <= tail
        BY <1>1, <2>1, <3>2 DEF Cells, tail
      <4>2. CopyEnd(s, p) \in Int
        BY ShareFacts
      <4> QED BY <1>3, <1>4, <1>10, <3>2, <4>1, <4>2
    <3> QED BY <3>1, <3>2
  <2>2. ASSUME NEW r \in Threads, NEW s \in Threads, r # s, pc'[r] = "copy", pc'[s] = "copy"
        PROVE  CopyEnd(r, p)' <= copyStart'[s] \/ CopyEnd(s, p)' <= copyStart'[r]
    <3>1. CASE r = t
      <4>1. CopyEnd(s, p) <= tail
        BY <1>1, <2>2, <3>1 DEF Cells, tail
      <4> QED BY <1>4, <1>10, <2>2, <3>1, <4>1
    <3>2. CASE s = t
      <4>1. CopyEnd(r, p) <= tail
        BY <1>1, <2>2, <3>2 DEF Cells, tail
      <4> QED BY <1>4, <1>10, <2>2, <3>2, <4>1
    <3>3. CASE r # t /\ s # t
      BY <1>1, <1>4, <1>10, <2>2, <3>3 DEF Cells
    <3> QED BY <3>1, <3>2, <3>3
  <2>3. ASSUME NEW i \in 1 .. frontierTails'[1 - p], ~ Claimed(i, p)'
        PROVE  i <= Len(frontier) /\ BinOf(dist[frontier[i]]) <= sharedIndexes[1 - p]
    BY <1>11, <2>3 DEF Cells, tail
  <2> QED BY <1>1, <2>1, <2>2, <2>3 DEF Cells
<1>13. SecondWork(p)'
  <2> SUFFICES ASSUME NEW x \in NodeID, NEW j \in 1 .. Len(graph.out[x]), Improvable(x, j)
               PROVE  InBin(x) \/ (BinOf(dist[x]) = sharedIndexes[1 - p] /\ Copied(x, p)')
    <3>1. \A x, j : (Improvable(x, j)' <=> Improvable(x, j)) /\ (InBin(x)' <=> InBin(x))
      BY <1>1 DEF Improvable, InBin
    <3> QED BY <1>1, <3>1 DEF SecondWork
  <2>1. ASSUME Copied(x, p)  PROVE Copied(x, p)'
    <3>1. PICK i \in 1 .. tail : ~ Claimed(i, p) /\ frontier[i] = x
      BY <2>1 DEF Copied, tail
    <3>2. i \in 1 .. frontierTails'[1 - p]
      BY <1>3, <1>4
    <3>3. ASSUME NEW s \in Threads, pc'[s] = "copy", copyStart'[s] < i, i <= CopyEnd(s, p)'  PROVE FALSE
      <4>1. s # t
        BY <1>3, <1>4, <3>3
      <4> QED BY <1>1, <1>4, <1>10, <3>1, <3>3, <4>1 DEF Claimed
    <3>4. ~ Claimed(i, p)'
      BY <3>3 DEF Claimed
    <3>5. \E s \in Threads : pc'[s] = "barrier2"
      BY <1>1, <2>1 DEF Copied
    <3> QED BY <1>1, <3>1, <3>2, <3>4, <3>5 DEF Copied
  <2> QED BY <2>1 DEF SecondWork
<1> QED BY <1>6, <1>7, <1>8, <1>9, <1>12, <1>13

LEMMA CopyKeeps ==
  ASSUME DeltaStepAssumption, Always, NEW p \in 0 .. 1, Second(p), NEW t \in Threads, Copy(t)
  PROVE  Always' /\ Second(p)'
<1> USE DEF Always, Second
<1> DEFINE m == sharedIndexes[1 - p]
           bin == Share(t, p)
           start == copyStart[t]
           end == CopyEnd(t, p)
           tail == frontierTails[1 - p]
           size == IF end > Len(frontier) THEN end ELSE Len(frontier)
<1>1. /\ pc[t] = "copy" /\ pc'[t] = "barrier2" /\ \A s \in Threads : s # t => pc'[s] = pc[s]
      /\ graph' = graph /\ source' = source /\ dist' = dist
      /\ sharedIndexes' = sharedIndexes /\ frontierTails' = frontierTails /\ todo' = todo
      /\ resetDone' = resetDone /\ batch' = batch
      /\ fused' = fused /\ edge' = edge /\ oldDist' = oldDist /\ newDist' = newDist
  BY DEF Copy, Goto, Typed
<1>2. NextOf(t) = 1 - p /\ NextLocalBin(t) = bin /\ NextBin(t) = m /\ iter[t] = p
  BY <1>1, CopyingParity
<1>3. /\ bin \in Seq(NodeID) /\ Len(bin) \in Nat /\ \A i \in 1 .. Len(bin) : bin[i] \in NodeID
      /\ start \in Nat /\ end \in Nat /\ end = start + Len(bin)
      /\ m \in 0 .. NoBin /\ m \in Nat /\ (m # NoBin => m \in Bins)
  BY ShareFacts
<1>4. tail \in Nat /\ end <= tail
  <2>1. tail \in Nat
    BY Parities DEF Typed
  <2> QED BY <1>1, <2>1 DEF Cells
<1>5. bin # << >> => m \in Bins /\ bin = localBins[t][m]
  BY <1>3 DEF Share
<1>6. /\ copyStart' = [copyStart EXCEPT ![t] = 0] /\ iter' = [iter EXCEPT ![t] = @ + 1]
      /\ localBins' = IF bin = << >> THEN localBins ELSE [localBins EXCEPT ![t][m] = << >>]
      /\ frontier' = [i \in 1 .. size |-> IF i \in (start + 1) .. end THEN bin[i - start]
                                          ELSE IF i <= Len(frontier) THEN frontier[i] ELSE source]
  BY <1>2 DEF Copy, CopyEnd
<1>7. ASSUME NEW s \in Threads, NEW a \in Bins
      PROVE  /\ localBins[s][a] \in Seq(NodeID)
             /\ s = t /\ a = m => localBins'[s][a] = << >>
             /\ ~ (s = t /\ a = m) => localBins'[s][a] = localBins[s][a]
  <2>1. localBins[s][a] \in Seq(NodeID)
    BY DEF Typed
  <2>2. CASE bin = << >>
    <3>1. localBins' = localBins
      BY <1>6, <2>2
    <3>2. s = t /\ a = m => bin = localBins[s][a]
      <4>1. a # NoBin
        BY InfFacts DEF Bins
      <4> QED BY <4>1 DEF Share
    <3> QED BY <2>1, <2>2, <3>1, <3>2
  <2>3. CASE bin # << >>
    <3>1. localBins' = [localBins EXCEPT ![t][m] = << >>] /\ m \in Bins
      BY <1>5, <1>6, <2>3
    <3>2. CASE s = t
      BY <2>1, <3>1, <3>2 DEF Typed
    <3>3. CASE s # t
      BY <2>1, <3>1, <3>3 DEF Typed
    <3> QED BY <3>2, <3>3
  <2> QED BY <2>2, <2>3
<1>8. /\ size \in Nat /\ Len(frontier) \in Nat /\ Len(frontier) <= size /\ end <= size
      /\ \A i \in 1 .. Len(frontier) : frontier[i] \in NodeID
  <2>1. frontier \in Seq(NodeID)
    BY DEF Typed
  <2>2. Len(frontier) \in Nat /\ \A i \in 1 .. Len(frontier) : frontier[i] \in NodeID
    BY <2>1, SeqFacts
  <2> HIDE DEF end
  <2> QED BY <1>3, <2>2
<1> HIDE DEF bin, start, end, size, m, tail
<1>9. /\ frontier' \in Seq(NodeID) /\ Len(frontier') = size
      /\ \A i \in 1 .. size : frontier'[i] = IF i \in (start + 1) .. end THEN bin[i - start]
                                            ELSE IF i <= Len(frontier) THEN frontier[i] ELSE source
  <2>1. ASSUME NEW i \in 1 .. size
        PROVE  (IF i \in (start + 1) .. end THEN bin[i - start]
                ELSE IF i <= Len(frontier) THEN frontier[i] ELSE source) \in NodeID
    <3>1. CASE i \in (start + 1) .. end
      <4>1. i - start \in 1 .. Len(bin)
        BY <1>3, <3>1
      <4> QED BY <1>3, <3>1, <4>1
    <3>2. CASE i \notin (start + 1) .. end
      <4>1. i <= Len(frontier) => i \in 1 .. Len(frontier)
        BY <1>8
      <4> QED BY <1>8, <3>2, <4>1 DEF Typed
    <3> QED BY <3>1, <3>2
  <2>2. frontier' \in [1 .. size -> NodeID]
    BY <1>6, <2>1
  <2>3. frontier' \in Seq(NodeID) /\ Len(frontier') = size
    BY <1>8, <2>2
  <2> QED BY <1>6, <2>3
<1>10. Typed'
  <2>1. pc' \in [Threads -> Locations]
    BY DEF Copy, Goto, Typed, Locations
  <2>2. localBins' \in [Threads -> [Bins -> Seq(NodeID)]]
    <3>1. << >> \in Seq(NodeID)
      OBVIOUS
    <3>2. [localBins[t] EXCEPT ![m] = << >>] \in [Bins -> Seq(NodeID)]
      BY <3>1 DEF Typed
    <3> QED BY <1>6, <3>2 DEF Typed
  <2>3. copyStart' \in [Threads -> Nat]
    BY <1>6 DEF Typed
  <2>4. iter' \in [Threads -> 0 .. 2]
    <3>1. p + 1 \in 0 .. 2
      OBVIOUS
    <3>2. iter' = [iter EXCEPT ![t] = p + 1]
      BY <1>2, <1>6
    <3> QED BY <3>1, <3>2 DEF Typed
  <2>5. todo' \subseteq 1 .. Len(frontier')
    BY <1>1 DEF SecondCounters
  <2> QED BY <1>1, <1>9, <2>1, <2>2, <2>3, <2>4, <2>5 DEF Typed
<1>11. Copying(p)'
  <2>1. iter'[t] = p + 1
    BY <1>2, <1>6 DEF Typed
  <2>2. \A s \in Threads : s # t => iter'[s] = iter[s]
    BY <1>6 DEF Typed
  <2> QED BY <1>1, <2>1, <2>2 DEF Copying, SecondPhase
<1>12. Always'
  <2>1. BinsBound'
    <3> SUFFICES ASSUME NEW s \in Threads, NEW a \in Bins, NEW i \in 1 .. Len(localBins'[s][a])
                 PROVE  BinOf(dist[localBins'[s][a][i]]) <= a
      BY <1>1 DEF BinsBound
    <3>1. localBins'[s][a] = << >> \/ localBins'[s][a] = localBins[s][a]
      BY <1>7
    <3>2. localBins'[s][a] # << >>
      OBVIOUS
    <3> QED BY <3>1, <3>2 DEF BinsBound
  <2> QED BY <1>1, <1>10, <1>11, <2>1, IdleKept DEF Relaxing, Copying, SecondPhase
<1>13. SecondCounters(p)'
  <2>1. resetDone
    BY <1>1 DEF SecondCounters
  <2> QED BY <1>1, <2>1 DEF SecondCounters
<1>14. SecondBins(p)'
  <2>1. ASSUME NEW s \in Threads, NEW a \in Bins, a < m  PROVE localBins'[s][a] = << >>
    <3>1. localBins[s][a] = << >>
      BY <2>1 DEF SecondBins, LowerEmpty, m
    <3> QED BY <1>7, <3>1
  <2>2. ASSUME NEW s \in Threads, pc'[s] = "barrier2", m # NoBin  PROVE localBins'[s][m] = << >>
    <3>1. m \in Bins
      BY <1>3, <2>2
    <3>2. s # t => localBins[s][m] = << >>
      BY <1>1, <2>2 DEF SecondBins, m
    <3> QED BY <1>7, <3>1, <3>2
  <2> QED BY <1>1, <2>1, <2>2 DEF SecondBins, LowerEmpty, m
<1>15. ASSUME NEW s \in Threads, s # t
       PROVE  copyStart'[s] = copyStart[s] /\ CopyEnd(s, p)' = CopyEnd(s, p) /\ Share(s, p)' = Share(s, p)
  <2>1. copyStart'[s] = copyStart[s]
    BY <1>6, <1>15 DEF Typed
  <2>2. Share(s, p)' = Share(s, p)
    BY <1>1, <1>3, <1>7, <1>15 DEF Share, m
  <2> QED BY <2>1, <2>2 DEF CopyEnd
<1>16. ASSUME NEW i  PROVE Claimed(i, p)' <=> \E s \in Threads : s # t /\ pc[s] = "copy" /\ copyStart[s] < i /\ i <= CopyEnd(s, p)
  BY <1>1, <1>15 DEF Claimed
\* A cell no thread is about to write.
<1>17. ASSUME NEW i \in 1 .. tail, ~ Claimed(i, p)
       PROVE  i \in 1 .. Len(frontier) /\ i \in 1 .. size /\ frontier'[i] = frontier[i] /\ ~ Claimed(i, p)'
  <2>1. i <= Len(frontier)
    BY <1>17 DEF Cells, tail
  <2>2. i \in 1 .. Len(frontier) /\ i \in 1 .. size
    BY <1>4, <1>8, <2>1
  <2>3. ~ (i \in (start + 1) .. end)
    <3>1. ~ (start < i /\ i <= end)
      BY <1>1, <1>17 DEF Claimed, start, end
    <3> QED BY <1>3, <3>1
  <2>4. ~ Claimed(i, p)'
    BY <1>16, <1>17 DEF Claimed
  <2> QED BY <1>9, <2>1, <2>2, <2>3, <2>4
\* A cell this thread writes.
<1>18. ASSUME NEW k \in 1 .. Len(bin), NEW i, i = start + k
       PROVE  i \in 1 .. tail /\ i \in 1 .. size /\ frontier'[i] = bin[k] /\ ~ Claimed(i, p)'
  <2>1. i \in 1 .. tail /\ i \in 1 .. size /\ i \in (start + 1) .. end /\ i - start = k
    BY <1>3, <1>4, <1>8, <1>18
  <2>2. ASSUME NEW s \in Threads, s # t, pc[s] = "copy", copyStart[s] < i, i <= CopyEnd(s, p)
        PROVE  FALSE
    <3>1. end <= copyStart[s] \/ CopyEnd(s, p) <= start
      BY <1>1, <2>2 DEF Cells, start, end
    <3>2. copyStart[s] \in Nat /\ CopyEnd(s, p) \in Nat
      BY ShareFacts
    <3> QED BY <1>3, <2>1, <2>2, <3>1, <3>2
  <2>3. ~ Claimed(i, p)'
    BY <1>16, <2>2
  <2> QED BY <1>9, <2>1, <2>3
<1>19. Cells(p)'
  <2>1. ASSUME NEW s \in Threads, pc'[s] = "copy"  PROVE s # t /\ pc[s] = "copy"
    BY <1>1, <2>1
  <2>2. ASSUME NEW i \in 1 .. tail, ~ Claimed(i, p)'
        PROVE  i <= Len(frontier') /\ BinOf(dist[frontier'[i]]) <= m
    <3>1. CASE ~ Claimed(i, p)
      <4>1. BinOf(dist[frontier[i]]) <= m
        BY <3>1 DEF Cells, tail, m
      <4> QED BY <1>8, <1>9, <1>17, <3>1, <4>1
    <3>2. CASE Claimed(i, p)
      <4>1. start < i /\ i <= end
        BY <1>16, <2>2, <3>2 DEF Claimed, start, end
      <4>2. i - start \in 1 .. Len(bin) /\ start + (i - start) = i
        BY <1>3, <4>1
      <4>3. i \in 1 .. size /\ frontier'[i] = bin[i - start]
        BY <1>18, <4>2
      <4>4. bin # << >>
        BY <1>3, <4>2
      <4>5. m \in Bins /\ bin = localBins[t][m]
        BY <1>5, <4>4
      <4>6. BinOf(dist[bin[i - start]]) <= m
        BY <4>2, <4>5 DEF BinsBound
      <4> QED BY <1>9, <4>3, <4>6
    <3> QED BY <3>1, <3>2
  <2> QED BY <1>1, <1>15, <2>1, <2>2 DEF Cells, tail, m
<1>20. SecondWork(p)'
  <2> SUFFICES ASSUME NEW x \in NodeID, NEW j \in 1 .. Len(graph.out[x]), Improvable(x, j)
               PROVE  InBin(x)' \/ (BinOf(dist[x]) = m /\ Copied(x, p)')
    BY <1>1 DEF SecondWork, Improvable, m
  <2>0. \E s \in Threads : pc'[s] = "barrier2"
    BY <1>1
  <2>1. CASE InBin(x)
    <3> DEFINE a == BinOf(dist[x])
    <3>1. PICK s \in Threads : \E i \in 1 .. Len(localBins[s][a]) : localBins[s][a][i] = x
      BY <2>1 DEF InBin, BinOf
    <3>2. a \in Bins
      BY ImprovableBin
    <3>3. CASE s = t /\ a = m
      <4>1. bin = localBins[s][a]
        <5>1. a # NoBin
          BY <3>2, InfFacts DEF Bins
        <5> QED BY <3>3, <5>1 DEF bin, Share, m
      <4>2. PICK k \in 1 .. Len(bin) : bin[k] = x
        BY <3>1, <4>1
      <4>3. PICK i : i = start + k
        OBVIOUS
      <4> HIDE DEF a
      <4>4. i \in 1 .. tail /\ frontier'[i] = x /\ ~ Claimed(i, p)'
        BY <1>18, <4>2, <4>3
      <4>5. Copied(x, p)'
        BY <1>1, <2>0, <4>4 DEF Copied, tail
      <4> QED BY <3>3, <4>5 DEF a
    <3>4. CASE ~ (s = t /\ a = m)
      <4>1. localBins'[s][a] = localBins[s][a]
        <5> HIDE DEF a
        <5> QED BY <1>7, <3>2, <3>4
      <4>2. InBin(x)'
        BY <1>1, <3>1, <4>1 DEF InBin, BinOf
      <4> QED BY <4>2
    <3> QED BY <3>3, <3>4
  <2>2. CASE BinOf(dist[x]) = m /\ Copied(x, p)
    <3>1. PICK i \in 1 .. tail : ~ Claimed(i, p) /\ frontier[i] = x
      BY <2>2 DEF Copied, tail
    <3>2. frontier'[i] = x /\ ~ Claimed(i, p)'
      BY <1>17, <3>1
    <3>3. Copied(x, p)'
      BY <1>1, <2>0, <3>2 DEF Copied, tail
    <3> QED BY <2>2, <3>3
  <2> QED BY <2>1, <2>2 DEF SecondWork, m
<1> QED BY <1>11, <1>12, <1>13, <1>14, <1>19, <1>20

LEMMA Barrier2Keeps ==
  ASSUME DeltaStepAssumption, Always, NEW p \in 0 .. 1, Second(p), Barrier2
  PROVE  Always' /\ First(1 - p)'
<1> USE DEF Always, Second
<1> DEFINE q == 1 - p
           m == sharedIndexes[q]
<1>0. q \in 0 .. 1 /\ 1 - q = p
  BY Parities
<1>1. /\ \A t \in Threads : pc[t] = "barrier2" /\ pc'[t] = "while" /\ iter'[t] = q
      /\ graph' = graph /\ source' = source /\ dist' = dist /\ frontier' = frontier
      /\ sharedIndexes' = sharedIndexes /\ frontierTails' = frontierTails /\ todo' = 1 .. frontierTails[q]
      /\ ~ resetDone' /\ localBins' = localBins /\ batch' = batch
      /\ fused' = fused /\ edge' = edge /\ oldDist' = oldDist /\ newDist' = newDist /\ copyStart' = copyStart
  <2>1. \A t \in Threads : pc[t] = "barrier2" /\ pc'[t] = "while"
    BY DEF Barrier2
  <2>2. \A t \in Threads : iter[t] = p + 1 /\ Curr(t) = q
    BY <2>1, CopyingParity
  <2>3. \A t \in Threads : iter'[t] = q
    BY <2>2, Parities DEF Barrier2
  <2>4. todo' = 1 .. frontierTails[q]
    BY <2>2 DEF Barrier2
  <2> QED BY <2>1, <2>3, <2>4 DEF Barrier2
<1>2. PICK t0 \in Threads : TRUE
  BY DEF DeltaStepAssumption
<1>3. /\ frontierTails[p] = 0
      /\ \A i : ~ Claimed(i, p)
      /\ \A i \in 1 .. frontierTails[q] : i <= Len(frontier) /\ BinOf(dist[frontier[i]]) <= m
  <2>1. frontierTails[p] = 0
    BY <1>1, <1>2 DEF SecondCounters
  <2>2. \A i : ~ Claimed(i, p)
    BY <1>1 DEF Claimed
  <2> QED BY <2>1, <2>2 DEF Cells
<1>4. Typed'
  <2>1. pc' \in [Threads -> Locations]
    BY DEF Barrier2, Locations
  <2>2. iter' \in [Threads -> 0 .. 2]
    <3>1. iter' = [t \in Threads |-> iter[t] % 2]
      BY DEF Barrier2
    <3>2. q \in 0 .. 2
      BY <1>0
    <3>3. \A t \in Threads : iter[t] % 2 = q
      BY <1>1, <3>1
    <3> QED BY <3>1, <3>2, <3>3
  <2>3. todo' \subseteq 1 .. Len(frontier)
    <3>1. frontierTails[q] \in Nat /\ Len(frontier) \in Nat
      BY <1>0 DEF Typed
    <3> QED BY <1>1, <1>3, <3>1
  <2>4. resetDone' \in BOOLEAN
    BY DEF Barrier2
  <2> QED BY <1>1, <2>1, <2>2, <2>3, <2>4 DEF Typed
<1>5. Always'
  <2>1. BinsBound'
    BY <1>1 DEF BinsBound
  <2> QED BY <1>1, <1>4, <2>1, IdleKept DEF Relaxing
<1>6. Working(q)'
  BY <1>1 DEF Working, FirstPhase
<1>7. FirstCounters(q)'
  <2>1. sharedIndexes[q] = NoBin => todo' = {}
    BY <1>1 DEF SecondCounters
  <2>2. \A t \in Threads : ~ fused[t]
    BY <1>1 DEF Held, Relaxing
  <2>3. frontierTails[1 - q] = 0
    BY <1>0, <1>3
  <2> QED BY <1>1, <2>1, <2>2, <2>3 DEF FirstCounters
<1>8. FirstBins(q)'
  <2>1. \A t \in Threads : m # NoBin => localBins[t][m] = << >>
    BY <1>1 DEF SecondBins
  <2>2. LowerEmpty(m)
    BY DEF SecondBins
  <2>3. \A i \in todo' : BinOf(dist[frontier[i]]) <= m
    BY <1>1, <1>3
  <2>4. \A t \in Threads : m # NoBin => \A i \in 1 .. Len(localBins[t][m]) : BinOf(dist[localBins[t][m][i]]) >= m
    BY <2>1
  <2> QED BY <1>1, <2>2, <2>3, <2>4 DEF FirstBins, LowerEmpty, Relaxing
<1>9. FirstWork(q)'
  <2> SUFFICES ASSUME NEW x \in NodeID, NEW j \in 1 .. Len(graph.out[x]), Improvable(x, j)
               PROVE  InBin(x) \/ (BinOf(dist[x]) = m /\ Listed(x)')
    BY <1>1 DEF FirstWork, Improvable, InBin
  <2>1. Copied(x, p) => Listed(x)'
    BY <1>1 DEF Copied, Listed
  <2> QED BY <2>1 DEF SecondWork
<1> QED BY <1>5, <1>6, <1>7, <1>8, <1>9 DEF First

-----------------------------------------------------------------------------
(* The invariant holds. *)

LEMMA InitInv ==
  ASSUME DeltaStepAssumption, Init  PROVE IInv
<1>1. N \in Nat /\ N >= 1 /\ DistInf \in Nat /\ NoBin \in Nat /\ MaxBin \in Nat /\ NoBin = MaxBin + 1
  <2>1. N \in Nat /\ N >= 1
    BY DEF DeltaStepAssumption
  <2> QED BY <2>1, InfFacts
<1>2. /\ graph \in WGraphs /\ source \in NodeID /\ dist = Start(source) /\ frontier = <<source>>
      /\ sharedIndexes[0] = 0 /\ sharedIndexes[1] = NoBin /\ frontierTails[0] = 1 /\ frontierTails[1] = 0
      /\ todo = {1} /\ ~ resetDone
      /\ \A t \in Threads : /\ pc[t] = "while" /\ iter[t] = 0 /\ batch[t] = << >> /\ ~ fused[t] /\ edge[t] = 0
                            /\ \A b \in Bins : localBins[t][b] = << >>
  BY DEF Init, Start
<1>3. \A n \in NodeID : dist[n] \in 0 .. DistInf /\ dist[n] = IF n = source THEN 0 ELSE DistInf
  BY <1>1, <1>2 DEF Start
<1>4. BinOf(0) = 0
  BY DEF BinOf, DeltaStepAssumption
<1>5. Typed
  <2>1. dist \in [NodeID -> 0 .. DistInf]
    BY <1>1 DEF Init
  <2>2. frontier \in Seq(NodeID) /\ Len(frontier) = 1 /\ todo \subseteq 1 .. Len(frontier)
    BY <1>2
  <2>3. sharedIndexes \in [0 .. 1 -> 0 .. NoBin] /\ frontierTails \in [0 .. 1 -> Nat]
    BY <1>1 DEF Init
  <2>4. pc \in [Threads -> Locations] /\ iter \in [Threads -> 0 .. 2] /\ resetDone \in BOOLEAN
    BY DEF Init, Locations
  <2>5. /\ localBins \in [Threads -> [Bins -> Seq(NodeID)]] /\ batch \in [Threads -> Seq(NodeID)]
    <3>1. << >> \in Seq(NodeID)
      OBVIOUS
    <3>2. [b \in Bins |-> << >>] \in [Bins -> Seq(NodeID)]
      BY <3>1
    <3> QED BY <3>1, <3>2 DEF Init
  <2>6. /\ fused \in [Threads -> BOOLEAN] /\ edge \in [Threads -> Nat] /\ copyStart \in [Threads -> Nat]
        /\ oldDist \in [Threads -> 0 .. DistInf] /\ newDist \in [Threads -> 0 .. DistInf]
    BY <1>1 DEF Init
  <2> QED BY <1>2, <2>1, <2>2, <2>3, <2>4, <2>5, <2>6 DEF Typed
<1>6. Always
  <2>1. \A t \in Threads : Held(t)
    BY <1>2 DEF Held, Relaxing
  <2>2. BinsBound
    BY <1>2 DEF BinsBound
  <2>3. LongEnough
    <3>1. OracleDist(graph, source) \in [NodeID -> 0 .. DistInf] /\ OracleDist(graph, source)[source] = 0
      BY <1>2, OracleFacts
    <3>2. \A n \in NodeID : OracleDist(graph, source)[n] \in 0 .. DistInf
      BY <3>1
    <3>3. \A n \in NodeID : dist[n] >= OracleDist(graph, source)[n]
      BY <1>1, <1>3, <3>1, <3>2
    <3> QED BY <1>2, <1>3, <3>3 DEF LongEnough
  <2> QED BY <1>5, <2>1, <2>2, <2>3 DEF Always
<1>7. First(0)
  <2>1. Working(0)
    BY <1>2 DEF Working, FirstPhase
  <2>2. FirstCounters(0)
    BY <1>1, <1>2 DEF FirstCounters
  <2>3. FirstBins(0)
    <3>1. \A i \in todo : BinOf(dist[frontier[i]]) <= 0
      BY <1>2, <1>3, <1>4
    <3>2. LowerEmpty(0)
      BY <1>1 DEF LowerEmpty, Bins
    <3>3. 0 # NoBin => 0 \in Bins
      BY <1>1 DEF Bins
    <3> QED BY <1>1, <1>2, <3>1, <3>2, <3>3 DEF FirstBins, Relaxing
  <2>4. FirstWork(0)
    <3> SUFFICES ASSUME NEW x \in NodeID, NEW j \in 1 .. Len(graph.out[x]), Improvable(x, j)
                 PROVE  BinOf(dist[x]) = sharedIndexes[0] /\ Listed(x)
      BY DEF FirstWork
    <3>1. x = source
      <4>1. BinOf(dist[x]) \in Bins
        BY <1>5, ImprovableBin
      <4>2. graph.out[x][j].v \in NodeID /\ graph.out[x][j].w \in Nat
        BY <1>5, EdgesTyped
      <4>3. ~ (DistInf + graph.out[x][j].w < dist[graph.out[x][j].v])
        BY <1>1, <1>3, <4>2
      <4> QED BY <1>3, <4>3 DEF Improvable
    <3> QED BY <1>2, <1>3, <1>4, <3>1 DEF Listed
  <2> QED BY <2>1, <2>2, <2>3, <2>4 DEF First
<1> QED BY <1>6, <1>7 DEF IInv

LEMMA FirstStep ==
  ASSUME DeltaStepAssumption, Always, NEW p \in 0 .. 1, First(p), NEW t \in Threads, Thread(t)
  PROVE  IInv'
<1>1. pc[t] \in FirstPhase
  BY DEF First, Working
<1>2. ~ Single(t) /\ ~ Claim(t) /\ ~ Copy(t)
  BY <1>1 DEF Single, Claim, ClaimCells, Copy, FirstPhase
<1>3. Always' /\ First(p)'
  BY <1>2, WhileTestKeeps, CheckStaleKeeps, EndForKeeps, TakeFrontierKeeps, NextEdgeKeeps, ReadUKeeps,
     CompareAndSwapKeeps, EndRelaxKeeps, VoteKeeps DEF Thread
<1> QED BY <1>3 DEF IInv

LEMMA SecondStep ==
  ASSUME DeltaStepAssumption, Always, NEW p \in 0 .. 1, Second(p), NEW t \in Threads, Thread(t)
  PROVE  IInv'
<1>1. pc[t] \in SecondPhase
  BY DEF Second, Copying
<1>2. Single(t) \/ Claim(t) \/ Copy(t)
  BY <1>1 DEF Thread, SecondPhase, WhileTest, CheckStale, EndFor, TakeFrontier, NextEdge, ReadU,
     CompareAndSwap, EndRelax, Vote
<1>3. Always' /\ Second(p)'
  BY <1>2, SingleKeeps, ClaimKeeps, CopyKeeps
<1> QED BY <1>3 DEF IInv

LEMMA PhaseOf ==
  ASSUME DeltaStepAssumption, NEW p \in 0 .. 1
  PROVE  /\ First(p) => ~ Barrier2
         /\ Second(p) => ~ Barrier1
<1>1. PICK t \in Threads : TRUE
  BY DEF DeltaStepAssumption
<1> QED BY <1>1 DEF First, Second, Working, Copying, FirstPhase, SecondPhase, Barrier1, Barrier2

LEMMA StepInv ==
  ASSUME DeltaStepAssumption, IInv, [Next]_vars  PROVE IInv'
<1>1. PICK p \in 0 .. 1 : First(p) \/ Second(p)
  BY DEF IInv
<1>2. CASE \E t \in Threads : Thread(t)
  BY <1>1, <1>2, FirstStep, SecondStep DEF IInv
<1>3. CASE Barrier1
  <2>1. Always' /\ Second(p)'
    BY <1>1, <1>3, PhaseOf, Barrier1Keeps DEF IInv
  <2> QED BY <2>1 DEF IInv
<1>4. CASE Barrier2
  <2>1. Always' /\ First(1 - p)' /\ 1 - p \in 0 .. 1
    BY <1>1, <1>4, PhaseOf, Barrier2Keeps, Parities DEF IInv
  <2> QED BY <2>1 DEF IInv
<1>5. CASE UNCHANGED vars
  <2> USE <1>5 DEF vars, shared, locals
  <2>1. Always'
    <3>1. Typed'
      BY DEF IInv, Always, Typed
    <3>2. BinsBound' /\ LongEnough'
      BY DEF IInv, Always, BinsBound, LongEnough, Edge, OutEdges
    <3>3. \A t \in Threads : Held(t)'
      BY DEF IInv, Always, Held, Edge, OutEdges
    <3> QED BY <3>1, <3>2, <3>3 DEF Always
  <2>2. ASSUME First(p)  PROVE First(p)'
    <3>1. Working(p)' /\ FirstCounters(p)'
      BY <2>2 DEF First, Working, FirstCounters
    <3>2. FirstBins(p)'
      BY <2>2 DEF First, FirstBins, LowerEmpty
    <3>3. FirstWork(p)'
      <4>1. \A x : (Listed(x)' <=> Listed(x)) /\ (Checked(x)' <=> Checked(x)) /\ (InBin(x)' <=> InBin(x))
        BY DEF Listed, Checked, InBin
      <4>2. \A t, x, j : (Relaxed(t, x, j)' <=> Relaxed(t, x, j)) /\ (Improvable(x, j)' <=> Improvable(x, j))
        BY DEF Relaxed, Improvable, Edge, OutEdges
      <4> QED BY <2>2, <4>1, <4>2 DEF First, FirstWork
    <3> QED BY <3>1, <3>2, <3>3 DEF First
  <2>3. ASSUME Second(p)  PROVE Second(p)'
    <3>1. Copying(p)' /\ SecondCounters(p)'
      BY <2>3 DEF Second, Copying, SecondCounters
    <3>2. SecondBins(p)'
      BY <2>3 DEF Second, SecondBins, LowerEmpty
    <3>3. /\ \A t : CopyEnd(t, p)' = CopyEnd(t, p)
          /\ \A i : Claimed(i, p)' <=> Claimed(i, p)
      BY DEF CopyEnd, Claimed, Share
    <3>4. Cells(p)'
      BY <2>3, <3>3 DEF Second, Cells
    <3>5. SecondWork(p)'
      <4>1. \A x : (Copied(x, p)' <=> Copied(x, p)) /\ (InBin(x)' <=> InBin(x))
        BY <3>3 DEF Copied, InBin
      <4>2. \A x, j : Improvable(x, j)' <=> Improvable(x, j)
        BY DEF Improvable
      <4> QED BY <2>3, <4>1, <4>2 DEF Second, SecondWork
    <3> QED BY <3>1, <3>2, <3>4, <3>5 DEF Second
  <2> QED BY <1>1, <2>1, <2>2, <2>3 DEF IInv
<1> QED BY <1>2, <1>3, <1>4, <1>5 DEF Next

-----------------------------------------------------------------------------
(* The theorems. *)

LEMMA FirstOrSecond ==
  ASSUME DeltaStepAssumption, NEW p \in 0 .. 1, NEW t \in Threads
  PROVE  /\ First(p) => Curr(t) = p /\ CurrBin(t) = sharedIndexes[p] /\ pc[t] \in FirstPhase
         /\ Second(p) => pc[t] \in SecondPhase
BY ParityFacts DEF First, Working, Second, Copying

LEMMA InvTyped == ASSUME DeltaStepAssumption, IInv  PROVE TypeOK
<1>1. Typed
  BY DEF IInv, Always
<1>2. graph.out \in [NodeID -> Seq([v : NodeID, w : Nat])]
  BY <1>1 DEF Typed, DeltaStepAssumption
<1>3. \A i \in 1 .. Len(frontier) : frontier[i] \in NodeID
  <2>1. frontier \in Seq(NodeID)
    BY <1>1 DEF Typed
  <2> QED BY <2>1, SeqFacts
<1>4. ASSUME NEW t \in Threads, NEW b \in Bins
      PROVE  \A i \in 1 .. Len(localBins[t][b]) : localBins[t][b][i] \in NodeID
  <2>1. localBins[t][b] \in Seq(NodeID)
    BY <1>1 DEF Typed
  <2> QED BY <2>1, SeqFacts
<1>5. ASSUME NEW t \in Threads  PROVE \A i \in 1 .. Len(batch[t]) : batch[t][i] \in NodeID
  <2>1. batch[t] \in Seq(NodeID)
    BY <1>1 DEF Typed
  <2> QED BY <2>1, SeqFacts
<1> QED BY <1>1, <1>2, <1>3, <1>4, <1>5 DEF Typed, TypeOK

LEMMA InvPriority == ASSUME DeltaStepAssumption, IInv  PROVE PriorityOrder
<1> SUFFICES ASSUME NEW t \in Threads, pc[t] \in Phase1 \union {"barrier1"}
             PROVE  /\ pc[t] \in Relaxing => dist[Head(batch[t])] \div Delta = CurrBin(t)
                    /\ \A b \in Bins : b < CurrBin(t) => localBins[t][b] = << >>
  BY DEF PriorityOrder, Phase1
<1>1. PICK p \in 0 .. 1 : First(p)
  BY FirstOrSecond DEF IInv, SecondPhase, Phase1, Relaxing
<1>2. CurrBin(t) = sharedIndexes[p]
  BY <1>1, FirstOrSecond
<1>3. ASSUME pc[t] \in Relaxing  PROVE dist[Head(batch[t])] \div Delta = CurrBin(t)
  <2>1. Head(batch[t]) = batch[t][1] /\ Len(batch[t]) >= 1 /\ Len(batch[t]) \in Nat
    <3>1. Typed /\ Held(t)
      BY DEF IInv, Always
    <3>2. Len(batch[t]) >= 1 /\ batch[t] \in Seq(NodeID)
      BY <1>3, <3>1 DEF Held, Typed
    <3> QED BY <3>2, SeqFacts
  <2>2. 1 \in 1 .. Len(batch[t])
    BY <2>1
  <2> QED BY <1>1, <1>2, <1>3, <2>1, <2>2 DEF First, FirstBins, BinOf
<1>4. \A b \in Bins : b < CurrBin(t) => localBins[t][b] = << >>
  BY <1>1, <1>2 DEF First, FirstBins, LowerEmpty
<1> QED BY <1>3, <1>4

LEMMA InvWork == ASSUME DeltaStepAssumption, IInv  PROVE NoEdgeForgotten
<1>1. PICK p \in 0 .. 1 : First(p) \/ Second(p)
  BY DEF IInv
<1>2. PICK t0 \in Threads : TRUE
  BY DEF DeltaStepAssumption
<1> SUFFICES ASSUME NEW x \in NodeID, NEW j \in 1 .. Len(graph.out[x]), Improvable(x, j)
             PROVE  InBin(x) \/ InFrontier(x) \/ InHand(x, j)
  BY DEF NoEdgeForgotten, Improvable
<1>3. CASE First(p)
  <2>1. CASE BinOf(dist[x]) = sharedIndexes[p] /\ Listed(x)
    <3>1. sharedIndexes[Curr(t0)] = dist[x] \div Delta
      BY <1>3, <2>1, FirstOrSecond DEF BinOf
    <3> QED BY <2>1, <3>1 DEF InFrontier, Listed
  <2>2. CASE Checked(x)
    <3>1. PICK t \in Threads : pc[t] = "check" /\ batch[t][1] = x
      BY <2>2 DEF Checked
    <3>2. 1 \in 1 .. Len(batch[t]) /\ edge[t] = 0
      BY <3>1 DEF IInv, Always, Held
    <3>3. edge[t] < j
      BY <3>2, EdgesTyped DEF IInv, Always
    <3> QED BY <3>1, <3>2, <3>3 DEF InHand
  <2>3. ASSUME NEW t \in Threads, Relaxed(t, x, j)  PROVE InHand(x, j)
    <3>1. Head(batch[t]) = batch[t][1]
      BY <2>3, EdgeFacts DEF IInv, Always, Relaxed
    <3> QED BY <2>3, <3>1 DEF InHand, Relaxed
  <2> QED BY <1>3, <2>1, <2>2, <2>3 DEF First, FirstWork
<1>4. CASE Second(p)
  <2>1. CASE BinOf(dist[x]) = sharedIndexes[1 - p] /\ Copied(x, p)
    <3>1. PICK t \in Threads : pc[t] = "barrier2"
      BY <2>1 DEF Copied
    <3>2. Curr(t) = 1 - p /\ CurrBin(t) = dist[x] \div Delta
      BY <1>4, <2>1, <3>1, CopyingParity DEF Second, BinOf
    <3> QED BY <2>1, <3>1, <3>2 DEF InFrontier, Copied
  <2> QED BY <1>4, <2>1 DEF Second, SecondWork
<1> QED BY <1>1, <1>3, <1>4

LEMMA InvCells == ASSUME DeltaStepAssumption, IInv  PROVE CellsNotShared
<1>1. ASSUME NEW t \in Threads, pc[t] = "copy"
      PROVE  todo = {} /\ \E p \in 0 .. 1 : Second(p)
  <2>1. PICK p \in 0 .. 1 : Second(p)
    BY <1>1, FirstOrSecond DEF IInv, FirstPhase
  <2> QED BY <2>1 DEF Second, SecondCounters
<1>2. ASSUME NEW s \in Threads, NEW t \in Threads, s # t, pc[s] = "copy", pc[t] = "copy"
      PROVE  (copyStart[s] + 1 .. copyStart[s] + Len(NextLocalBin(s))) \intersect
             (copyStart[t] + 1 .. copyStart[t] + Len(NextLocalBin(t))) = {}
  <2>1. PICK p \in 0 .. 1 : Second(p)
    BY <1>1, <1>2
  <2>2. NextLocalBin(s) = Share(s, p) /\ NextLocalBin(t) = Share(t, p)
    BY <1>2, <2>1, CopyingParity DEF Second
  <2>3. CopyEnd(s, p) <= copyStart[t] \/ CopyEnd(t, p) <= copyStart[s]
    BY <1>2, <2>1 DEF Second, Cells
  <2>4. /\ copyStart[s] \in Nat /\ CopyEnd(s, p) \in Nat /\ CopyEnd(s, p) = copyStart[s] + Len(NextLocalBin(s))
        /\ copyStart[t] \in Nat /\ CopyEnd(t, p) \in Nat /\ CopyEnd(t, p) = copyStart[t] + Len(NextLocalBin(t))
    BY <2>2, ShareFacts DEF IInv, Always
  <2> QED BY <2>3, <2>4
<1> QED BY <1>1, <1>2 DEF CellsNotShared

LEMMA InvDistances == ASSUME DeltaStepAssumption, IInv  PROVE Distances
<1> DEFINE D == OracleDist(graph, source)
<1>0. Typed /\ LongEnough
  BY DEF IInv, Always
<1>1. NeverTooShort
  BY <1>0 DEF LongEnough, NeverTooShort
<1>2. ASSUME AllExited  PROVE dist = D
  <2>0. PICK t0 \in Threads : TRUE
    BY DEF DeltaStepAssumption
  <2>1. \A t \in Threads : pc[t] = "exit"
    BY <1>2 DEF AllExited
  <2>2. PICK p \in 0 .. 1 : First(p)
    BY <2>0, <2>1, FirstOrSecond DEF IInv, SecondPhase
  <2>3. sharedIndexes[p] = NoBin /\ todo = {}
    BY <2>0, <2>1, <2>2 DEF First, FirstCounters
  <2>4. \A t \in Threads, b \in Bins : localBins[t][b] = << >>
    <3>1. \A b \in Bins : b < NoBin
      BY InfFacts DEF Bins
    <3> QED BY <2>2, <2>3, <3>1 DEF First, FirstBins, LowerEmpty
  <2>5. ASSUME NEW x \in NodeID, NEW j \in 1 .. Len(graph.out[x])  PROVE ~ Improvable(x, j)
    <3> SUFFICES ASSUME Improvable(x, j)  PROVE FALSE
      OBVIOUS
    <3>1. BinOf(dist[x]) \in Bins
      BY <1>0, ImprovableBin
    <3>2. ~ InBin(x)
      <4>1. \A t \in Threads : localBins[t][BinOf(dist[x])] = << >>
        BY <2>4, <3>1
      <4> QED BY <4>1 DEF InBin, BinOf
    <3>3. ~ Listed(x) /\ ~ Checked(x) /\ \A t \in Threads : ~ Relaxed(t, x, j)
      BY <2>1, <2>3 DEF Listed, Checked, Relaxed, Relaxing
    <3> QED BY <2>2, <3>2, <3>3 DEF First, FirstWork
  <2>6. NoShortcut(graph, dist)
    <3> SUFFICES ASSUME NEW x \in NodeID, NEW j \in 1 .. Len(graph.out[x])
                 PROVE  dist[graph.out[x][j].v] <= dist[x] + graph.out[x][j].w
      BY DEF NoShortcut
    <3>1. graph.out[x][j].v \in NodeID /\ graph.out[x][j].w \in Nat
      BY <1>0, EdgesTyped
    <3>2. dist[x] \in 0 .. DistInf /\ dist[graph.out[x][j].v] \in 0 .. DistInf
      BY <1>0, <3>1 DEF Typed
    <3>3. dist[x] \in Nat /\ dist[graph.out[x][j].v] \in Nat
      BY <3>2, InfFacts
    <3>4. ~ (dist[x] + graph.out[x][j].w < dist[graph.out[x][j].v])
      BY <2>5 DEF Improvable
    <3> QED BY <3>1, <3>3, <3>4
  <2>7. /\ dist \in [NodeID -> 0 .. DistInf] /\ dist[source] = 0 /\ graph \in WGraphs /\ source \in NodeID
    BY <1>0 DEF Typed, LongEnough
  <2>8. D \in [NodeID -> 0 .. DistInf] /\ \A n \in NodeID : dist[n] <= D[n]
    BY <2>6, <2>7, OracleFacts
  <2>9. \A n \in NodeID : dist[n] >= D[n]
    BY <1>0 DEF LongEnough
  <2> HIDE DEF D
  <2>10. ASSUME NEW n \in NodeID  PROVE dist[n] = D[n]
    <3>1. dist[n] \in 0 .. DistInf /\ D[n] \in 0 .. DistInf
      BY <2>7, <2>8
    <3>2. dist[n] <= D[n] /\ dist[n] >= D[n]
      BY <2>8, <2>9
    <3> QED BY <3>1, <3>2, InfFacts
  <2> QED BY <2>7, <2>8, <2>10
<1> QED BY <1>1, <1>2 DEF Distances, Correct, SSSPVerifier

LEMMA StepVote == ASSUME DeltaStepAssumption, IInv, [Next]_vars  PROVE VoteIsKept
<1> SUFFICES ASSUME NEW t \in Threads, pc[t] \in {"single", "claim", "copy"}
             PROVE  sharedIndexes'[NextOf(t)] = sharedIndexes[NextOf(t)]
  BY DEF VoteIsKept
<1>1. PICK p \in 0 .. 1 : Second(p)
  BY FirstOrSecond DEF IInv, FirstPhase
<1>2. NextOf(t) = 1 - p
  BY <1>1, CopyingParity DEF Second
<1>3. CASE sharedIndexes' = sharedIndexes
  BY <1>3
<1>4. CASE sharedIndexes' # sharedIndexes
  <2>1. PICK s \in Threads : Thread(s)
    BY <1>4 DEF Next, Barrier1, Barrier2, vars, shared
  <2>2. pc[s] \in SecondPhase
    BY <1>1, FirstOrSecond
  <2>3. Single(s)
    BY <1>4, <2>1, <2>2 DEF Thread, SecondPhase, WhileTest, CheckStale, EndFor, TakeFrontier, NextEdge, ReadU,
       CompareAndSwap, EndRelax, Vote, Claim, ClaimCells, Copy, shared
  <2>4. Curr(s) = p
    BY <1>1, <2>3, CopyingParity DEF Second, Single
  <2>5. sharedIndexes' = [sharedIndexes EXCEPT ![p] = NoBin]
    BY <1>4, <2>3, <2>4 DEF Single
  <2>6. sharedIndexes \in [0 .. 1 -> 0 .. NoBin]
    BY DEF IInv, Always, Typed
  <2> QED BY <1>2, <2>5, <2>6, Parities
<1> QED BY <1>3, <1>4

\* Whatever the threads do, the invariant holds.
THEOREM Invariance == ASSUME DeltaStepAssumption  PROVE Spec => []IInv
<1>1. Init => IInv
  BY InitInv
<1>2. IInv /\ [Next]_vars => IInv'
  BY StepInv
<1> QED BY <1>1, <1>2, PTL DEF Spec

\* No thread forgets an edge that could still improve a distance, although stale
\* entries are skipped; the bins are relaxed in ascending order, and no cell of
\* the frontier is written twice or before it was read.
THEOREM WorkIsFound == ASSUME DeltaStepAssumption  PROVE Spec => []NoLostWork
<1>1. IInv => NoLostWork
  BY InvTyped, InvPriority, InvWork, InvCells DEF NoLostWork
<1> QED BY <1>1, Invariance, PTL

\* When all threads have left, dist is what SSSPVerifier computes, and no
\* distance is ever below it, whatever was stale when it was computed.
THEOREM Shortest == ASSUME DeltaStepAssumption  PROVE Spec => []Distances
<1>1. IInv => Distances
  BY InvDistances
<1> QED BY <1>1, Invariance, PTL

\* No thread that is faster, and no reset, changes the bin a thread is about
\* to copy from.
THEOREM VotesHold == ASSUME DeltaStepAssumption  PROVE Spec => VoteIsFinal
<1>1. IInv /\ [Next]_vars => VoteIsKept
  BY StepVote
<1> QED BY <1>1, Invariance, PTL DEF Spec, VoteIsFinal

=============================================================================
