---------------------------- MODULE DOBFS_proofs ----------------------------
(***************************************************************************)
(* Proofs about DOBFS: for every graph, number of threads, size of a       *)
(* buffer, of a word and of a chunk, each level is found exactly, every    *)
(* vertex is queued once, the tree is one of shortest paths, and the       *)
(* search refines LevelBFS.                                                *)
(*                                                                         *)
(* The depth d of the level being searched is not a variable; the          *)
(* invariant says that there is one (InvAt).  At depth d the vertices      *)
(* visited are those up to d and some of those at d + 1, and whoever is at *)
(* d + 1 and not visited has a vertex of the level, or itself, still to be *)
(* looked at.                                                              *)
(***************************************************************************)
EXTENDS DOBFS, CommonFacts

-----------------------------------------------------------------------------
(* The vertices up to a depth. *)

\* The definition of ReachedFrom is sound.
LEMMA ReachedDef ==
  ASSUME NEW g, IsGraph(g), NEW s \in NodeID
  PROVE  /\ ReachedFrom(g, s) \in [0 .. N -> SUBSET NodeID]
         /\ ReachedFrom(g, s)[0] = {s}
         /\ \A d \in 0 .. (N - 1) :
              ReachedFrom(g, s)[d + 1] =
                ReachedFrom(g, s)[d] \union UNION {OutSet(g, p) : p \in ReachedFrom(g, s)[d]}
<1> DEFINE Grown(R) == R \union UNION {OutSet(g, p) : p \in R}
           F == [R \in SUBSET NodeID |-> Grown(R)]
           body(h) == [d \in 0 .. N |-> IF d = 0 THEN {s} ELSE Grown(h[d - 1])]
           R == ReachedFrom(g, s)
<1>1. ASSUME NEW p \in NodeID  PROVE OutSet(g, p) \subseteq NodeID
  BY DEF IsGraph, OutSet, OutNeigh, OutDegree
<1>2. F \in [SUBSET NodeID -> SUBSET NodeID]
  BY <1>1
<1>3. \E h : h = body(h)
  <2>1. PICK h \in [0 .. N -> SUBSET NodeID] : IsIteration(h, N, F, {s})
    <3> HIDE DEF F
    <3>1. {s} \in SUBSET NodeID /\ N \in Nat
      BY NAssumption
    <3> QED BY <1>2, <3>1, Iteration
  <2>2. ASSUME NEW d \in 0 .. N, d # 0  PROVE F[h[d - 1]] = Grown(h[d - 1])
    <3>1. d - 1 \in 0 .. N
      BY <2>2, NAssumption
    <3>2. h[d - 1] \in SUBSET NodeID
      BY <2>1, <3>1
    <3> QED BY <3>2
  <2> HIDE DEF F, Grown
  <2>3. h = body(h)
    BY <2>1, <2>2 DEF IsIteration
  <2> QED BY <2>3
<1>4. R = body(R)
  <2> HIDE DEF body
  <2>1. R = CHOOSE h : h = body(h)
    BY DEF ReachedFrom, body
  <2> QED BY <1>3, <2>1
<1>5. R[0] = {s} /\ DOMAIN R = 0 .. N
  BY <1>4, NAssumption
<1>6. ASSUME NEW d \in 0 .. (N - 1)  PROVE R[d + 1] = Grown(R[d])
  <2>1. \A e \in 0 .. N : e # 0 => R[e] = Grown(R[e - 1])
    <3> HIDE DEF Grown, R
    <3> QED BY <1>4
  <2>2. d + 1 \in 0 .. N /\ d + 1 # 0 /\ d + 1 - 1 = d
    BY NAssumption
  <2> HIDE DEF Grown, R
  <2> QED BY <2>1, <2>2
<1> DEFINE T == {d \in 0 .. N : R[d] \in SUBSET NodeID}
<1>7. 0 .. N \subseteq T
  <2>1. 0 \in T
    BY <1>5, NAssumption
  <2>2. ASSUME NEW d \in 0 .. (N - 1), d \in T  PROVE d + 1 \in T
    <3>1. Grown(R[d]) \in SUBSET NodeID
      BY <1>1, <2>2
    <3> QED BY <1>6, <3>1, NAssumption
  <2> HIDE DEF T
  <2> QED BY <2>1, <2>2, AllUpTo, NAssumption
<1>8. R \in [0 .. N -> SUBSET NodeID]
  <2> HIDE DEF R, Grown
  <2> QED BY <1>4, <1>5, <1>7
<1> QED BY <1>5, <1>6, <1>8

Inputs == graph \in Graphs /\ source \in NodeID

\* The next depth, which stays at N: no vertex is farther away.
Deeper(d) == IF d < N THEN d + 1 ELSE N

LEMMA ReachedFacts ==
  ASSUME Inputs
  PROVE  /\ Reached \in [0 .. N -> SUBSET NodeID]
         /\ Reached[0] = {source}
         /\ \A d \in 0 .. (N - 1) :
              /\ Reached[d] \subseteq Reached[d + 1]
              /\ \A p \in Reached[d], v \in NodeID :
                   Occurs(v, OutNeigh(graph, p)) => v \in Reached[d + 1]
              /\ \A v \in Reached[d + 1] :
                   v \in Reached[d] \/ \E p \in Reached[d] : Occurs(v, OutNeigh(graph, p))
<1>1. IsGraph(graph) /\ source \in NodeID
  BY DOBFSAssumption DEF Inputs
<1>2. \A p, v : Occurs(v, OutNeigh(graph, p)) <=> v \in OutSet(graph, p)
  BY DEF Occurs, OutSet, OutDegree
<1>3. /\ Reached \in [0 .. N -> SUBSET NodeID]
      /\ Reached[0] = {source}
      /\ \A d \in 0 .. (N - 1) :
           Reached[d + 1] = Reached[d] \union UNION {OutSet(graph, p) : p \in Reached[d]}
  BY <1>1, ReachedDef DEF Reached
<1> QED BY <1>2, <1>3

\* What is reached up to a depth is reached up to every greater one.
LEMMA ReachedGrows ==
  ASSUME Inputs, NEW d \in 0 .. N, NEW e \in 0 .. N, d <= e
  PROVE  Reached[d] \subseteq Reached[e]
<1> DEFINE T == {i \in 0 .. N : d <= i => Reached[d] \subseteq Reached[i]}
<1>1. 0 \in T
  BY NAssumption
<1>2. ASSUME NEW i \in 0 .. (N - 1), i \in T  PROVE i + 1 \in T
  <2>1. Reached[i] \subseteq Reached[i + 1] /\ i + 1 \in 0 .. N
    BY ReachedFacts, NAssumption
  <2>2. CASE d <= i
    BY <1>2, <2>1, <2>2
  <2>3. CASE d = i + 1
    BY <2>1, <2>3
  <2>4. CASE d > i + 1
    BY <2>1, <2>4
  <2> QED BY <2>2, <2>3, <2>4
<1>3. 0 .. N \subseteq T
  <2> HIDE DEF T
  <2> QED BY <1>1, <1>2, AllUpTo, NAssumption
<1> QED BY <1>3

\* A depth at which there is nobody is the last one.
LEMMA EmptyIsLast ==
  ASSUME Inputs, NEW d \in 0 .. N, AtDepth(d) = {}
  PROVE  \A e \in 0 .. N : e + 1 >= d => Reached[e] = Reached[d]
<1>1. d # 0
  BY DEF AtDepth
<1>2. d - 1 \in 0 .. (N - 1) /\ d - 1 + 1 = d /\ d - 1 \in 0 .. N
  BY <1>1, NAssumption
<1>3. Reached[d] = Reached[d - 1]
  <2>1. Reached[d] \subseteq Reached[d - 1]
    BY <1>1 DEF AtDepth
  <2> QED BY <1>2, <2>1, ReachedFacts
<1> DEFINE T == {e \in 0 .. N : e + 1 >= d => Reached[e] = Reached[d]}
<1>4. 0 \in T
  <2>1. 0 + 1 >= d => d - 1 = 0
    BY <1>1
  <2> QED BY <1>3, <2>1, NAssumption
<1>5. ASSUME NEW e \in 0 .. (N - 1), e \in T  PROVE e + 1 \in T
  <2>0. e + 1 \in 0 .. N /\ e \in 0 .. N
    BY NAssumption
  <2>1. CASE e + 1 >= d
    <3>1. Reached[e] = Reached[d - 1] /\ Reached[e] = Reached[d]
      BY <1>3, <1>5, <2>1
    <3>2. Reached[e + 1] \subseteq Reached[d]
      <4> SUFFICES ASSUME NEW v \in Reached[e + 1]  PROVE v \in Reached[d]
        OBVIOUS
      <4>1. v \in Reached[e] \/ \E p \in Reached[e] : Occurs(v, OutNeigh(graph, p))
        BY ReachedFacts
      <4>2. v \in NodeID
        BY <2>0, ReachedFacts
      <4>3. \A p \in Reached[d - 1] : Occurs(v, OutNeigh(graph, p)) => v \in Reached[d]
        BY <1>2, <4>2, ReachedFacts
      <4> QED BY <3>1, <4>1, <4>3
    <3>3. Reached[e] \subseteq Reached[e + 1]
      BY ReachedFacts
    <3> QED BY <2>0, <3>1, <3>2, <3>3
  <2>2. CASE e + 2 = d
    <3>1. e + 1 = d - 1
      BY <2>2
    <3> QED BY <1>3, <2>0, <3>1
  <2>3. CASE e + 2 < d
    BY <2>0, <2>3
  <2> QED BY <2>1, <2>2, <2>3
<1>6. 0 .. N \subseteq T
  <2> HIDE DEF T
  <2> QED BY <1>4, <1>5, AllUpTo, NAssumption
<1> QED BY <1>6

\* No vertex is N or more edges away from the source.
LEMMA NobodyAtN ==
  ASSUME Inputs
  PROVE  AtDepth(N) = {}
<1> DEFINE T == {d \in 0 .. N : AtDepth(d) # {} => Cardinality(Reached[d]) >= d + 1}
<1>1. \A d \in 0 .. N : IsFiniteSet(Reached[d]) /\ Cardinality(Reached[d]) \in Nat
                        /\ Cardinality(Reached[d]) <= N
  <2>1. IsFiniteSet(NodeID) /\ Cardinality(NodeID) = N
    BY NAssumption, FS_Interval DEF NodeID
  <2> QED BY <2>1, ReachedFacts, FS_Subset, FS_CardinalityType
<1>2. 0 \in T
  <2>1. Cardinality(Reached[0]) = 1
    BY ReachedFacts, FS_Singleton
  <2> QED BY <2>1, NAssumption
<1>3. ASSUME NEW d \in 0 .. (N - 1), d \in T  PROVE d + 1 \in T
  <2>0. d + 1 \in 0 .. N /\ d \in 0 .. N /\ d + 1 # 0 /\ d + 1 - 1 = d
    BY NAssumption
  <2> SUFFICES ASSUME AtDepth(d + 1) # {}
               PROVE  Cardinality(Reached[d + 1]) >= d + 1 + 1
    BY <2>0
  <2>1. AtDepth(d + 1) = Reached[d + 1] \ Reached[d]
    BY <2>0 DEF AtDepth
  <2>2. AtDepth(d) # {}
    <3>1. SUFFICES ASSUME AtDepth(d) = {}  PROVE Reached[d + 1] = Reached[d]
      BY <2>1
    <3> QED BY <2>0, <3>1, EmptyIsLast
  <2>3. Cardinality(Reached[d]) >= d + 1
    BY <1>3, <2>2
  <2>4. Reached[d] \subseteq Reached[d + 1] /\ Reached[d] # Reached[d + 1]
    BY <2>1, ReachedFacts
  <2>5. Cardinality(Reached[d]) < Cardinality(Reached[d + 1])
    BY <1>1, <2>0, <2>4, FS_Subset, FS_CardinalityType
  <2> QED BY <1>1, <2>0, <2>3, <2>5
<1>4. N \in T
  <2> HIDE DEF T
  <2> QED BY <1>2, <1>3, AllUpTo, NAssumption
<1> QED BY <1>1, <1>4, NAssumption

\* One level and the next.
LEMMA LevelFacts ==
  ASSUME Inputs, NEW d \in 0 .. N
  PROVE  /\ Deeper(d) \in 0 .. N
         /\ Reached[d] \subseteq NodeID /\ source \in Reached[d]
         /\ AtDepth(d) \subseteq Reached[d]
         /\ Reached[d] \subseteq Reached[Deeper(d)] /\ Reached[Deeper(d)] \subseteq Reached[N]
         /\ AtDepth(Deeper(d)) = Reached[Deeper(d)] \ Reached[d]
         /\ \A p \in Reached[d], v \in NodeID :
              Occurs(v, OutNeigh(graph, p)) =>
                v \in IF p \in AtDepth(d) THEN Reached[Deeper(d)] ELSE Reached[d]
         /\ \A v \in AtDepth(Deeper(d)) :
              \E p \in AtDepth(d) : Occurs(v, OutNeigh(graph, p))
         /\ AtDepth(d) = {} => Reached[d] = Reached[N]
<1> DEFINE e == Deeper(d)
<1>1. e \in 0 .. N /\ N \in 0 .. N /\ 0 \in 0 .. N /\ d <= e /\ e <= N
  BY NAssumption DEF Deeper
<1>2. Reached[d] \subseteq NodeID /\ source \in Reached[d]
  <2>1. Reached[0] \subseteq Reached[d]
    BY <1>1, ReachedGrows
  <2> QED BY <2>1, ReachedFacts
<1>3. AtDepth(d) \subseteq Reached[d]
  BY ReachedFacts DEF AtDepth
<1>4. Reached[d] \subseteq Reached[e] /\ Reached[e] \subseteq Reached[N]
  BY <1>1, ReachedGrows
<1>5. AtDepth(e) = Reached[e] \ Reached[d]
  <2>1. CASE d < N
    <3>1. e = d + 1 /\ e # 0 /\ e - 1 = d
      BY <2>1, NAssumption DEF Deeper
    <3> QED BY <3>1 DEF AtDepth
  <2>2. CASE d = N
    BY <2>2, NobodyAtN DEF Deeper
  <2> QED BY <2>1, <2>2, NAssumption
\* What leaves a vertex before the level was reached with it.
<1>6. d # 0 => /\ d - 1 \in 0 .. (N - 1) /\ d - 1 + 1 = d
               /\ AtDepth(d) = Reached[d] \ Reached[d - 1]
  BY NAssumption DEF AtDepth
<1>7. ASSUME NEW p \in Reached[d], NEW v \in NodeID, Occurs(v, OutNeigh(graph, p)),
             p \notin AtDepth(d)
      PROVE  v \in Reached[d]
  <2>1. d # 0
    BY <1>7, ReachedFacts DEF AtDepth
  <2>2. p \in Reached[d - 1]
    BY <1>6, <1>7, <2>1
  <2> QED BY <1>6, <1>7, <2>1, <2>2, ReachedFacts
<1>8. ASSUME NEW p \in Reached[d], NEW v \in NodeID, Occurs(v, OutNeigh(graph, p))
      PROVE  v \in Reached[e]
  <2>1. CASE d < N
    <3>1. e = d + 1 /\ d \in 0 .. (N - 1)
      BY <2>1, NAssumption DEF Deeper
    <3> QED BY <1>8, <3>1, ReachedFacts
  <2>2. CASE d = N
    <3>1. p \notin AtDepth(d)
      BY <2>2, NobodyAtN
    <3> QED BY <1>4, <1>7, <1>8, <3>1
  <2> QED BY <2>1, <2>2, NAssumption
<1>9. ASSUME NEW v \in AtDepth(e)
      PROVE  \E p \in AtDepth(d) : Occurs(v, OutNeigh(graph, p))
  <2>1. d < N
    <3>1. SUFFICES ASSUME d = N  PROVE FALSE
      BY NAssumption
    <3>2. e = N
      BY <3>1 DEF Deeper
    <3> QED BY <1>9, <3>2, NobodyAtN
  <2>2. e = d + 1 /\ d \in 0 .. (N - 1)
    BY <2>1, NAssumption DEF Deeper
  <2>3. v \in Reached[d + 1] /\ v \notin Reached[d] /\ v \in NodeID
    BY <1>1, <1>5, <1>9, <2>2, ReachedFacts
  <2>4. PICK p \in Reached[d] : Occurs(v, OutNeigh(graph, p))
    BY <2>2, <2>3, ReachedFacts
  <2>5. p \in AtDepth(d)
    BY <1>7, <2>3, <2>4
  <2> QED BY <2>4, <2>5
<1>10. AtDepth(d) = {} => Reached[d] = Reached[N]
  BY <1>1, EmptyIsLast, NAssumption
<1> QED BY <1>1, <1>2, <1>3, <1>4, <1>5, <1>7, <1>8, <1>9, <1>10

\* The depth of a vertex is unique.
LEMMA OneDepth ==
  ASSUME Inputs, NEW d \in 0 .. N, NEW e \in 0 .. N, NEW v, v \in AtDepth(d), v \in AtDepth(e)
  PROVE  d = e
<1>1. ASSUME NEW i \in 0 .. N, NEW j \in 0 .. N, v \in AtDepth(i), v \in AtDepth(j), i < j
      PROVE  FALSE
  <2>1. v \in Reached[i]
    BY <1>1, LevelFacts
  <2>2. j - 1 \in 0 .. N /\ i <= j - 1 /\ j # 0
    BY <1>1, NAssumption
  <2>3. v \in Reached[j - 1]
    BY <2>1, <2>2, ReachedGrows
  <2> QED BY <1>1, <2>2, <2>3 DEF AtDepth
<1> QED BY <1>1

-----------------------------------------------------------------------------
(* The queue and the buffers in front of it. *)

Cells == NodeID \union {BlankItem}

\* What the queue holds; what was put there before the level, and since.
Stored == {queue.shared[i] : i \in 0 .. (queue.in - 1)}
Old == {queue.shared[i] : i \in 0 .. (queue.end - 1)}
New == {queue.shared[i] : i \in queue.end .. (queue.in - 1)}
Buffers == [t \in Threads |-> {lqueue[t][i] : i \in 1 .. Len(lqueue[t])}]
Pushed == New \union UNION {Buffers[t] : t \in Threads}

\* Nothing is in the queue and the buffers twice, so that the queue is never full.
QueueInv ==
  /\ queue \in Queues(N, Cells)
  /\ queue.start <= queue.end /\ queue.end <= queue.in /\ queue.in <= N
  /\ \A i \in 0 .. (queue.in - 1) : queue.shared[i] \in NodeID
  /\ EnqueuedOnce
  /\ lqueue \in [Threads -> Seq(NodeID)]
  /\ \A t \in Threads : Len(lqueue[t]) <= BufferSize
  /\ \A t \in Threads : \A i, j \in 1 .. Len(lqueue[t]) : i # j => lqueue[t][i] # lqueue[t][j]
  /\ \A t, s \in Threads : t # s => Buffers[t] \intersect Buffers[s] = {}
  /\ \A t \in Threads : Buffers[t] \intersect Stored = {}

\* Only shared_in and the cells from it on have changed.
Appended ==
  /\ queue'.start = queue.start /\ queue'.end = queue.end
  /\ queue'.in \in Nat /\ queue.in <= queue'.in
  /\ \A c \in 0 .. (queue.in - 1) : queue'.shared[c] = queue.shared[c]

\* There is room for a buffer: the queue and the buffer hold different vertices.
LEMMA RoomToFlush ==
  ASSUME QueueInv, NEW t \in Threads
  PROVE  queue.in \in Nat /\ Len(lqueue[t]) \in Nat /\ queue.in + Len(lqueue[t]) <= N
<1> DEFINE m == queue.in
           n == Len(lqueue[t])
           f == [i \in 1 .. (m + n) |-> IF i <= m THEN queue.shared[i - 1] ELSE lqueue[t][i - m]]
<1>1. m \in Nat /\ n \in Nat /\ lqueue[t] \in Seq(NodeID)
  BY DEF QueueInv, Queues
<1>2. ASSUME NEW i \in 1 .. (m + n)
      PROVE  /\ i <= m => f[i] \in NodeID /\ f[i] \in Stored /\ i - 1 \in 0 .. (m - 1)
                          /\ f[i] = queue.shared[i - 1]
             /\ ~ (i <= m) => f[i] \in NodeID /\ f[i] \in Buffers[t] /\ i - m \in 1 .. n
                              /\ f[i] = lqueue[t][i - m]
  <2>1. CASE i <= m
    <3>1. i - 1 \in 0 .. (m - 1) /\ f[i] = queue.shared[i - 1]
      BY <1>1, <2>1
    <3> QED BY <2>1, <3>1 DEF QueueInv, Stored
  <2>2. CASE ~ (i <= m)
    <3>1. i - m \in 1 .. n /\ f[i] = lqueue[t][i - m]
      BY <1>1, <2>2
    <3>2. lqueue[t][i - m] \in NodeID
      BY <1>1, <3>1
    <3> QED BY <2>2, <3>1, <3>2 DEF Buffers
  <2> QED BY <2>1, <2>2
<1>3. f \in [1 .. (m + n) -> NodeID]
  BY <1>2
<1>4. ASSUME NEW i \in 1 .. (m + n), NEW j \in 1 .. (m + n), i # j  PROVE f[i] # f[j]
  <2> HIDE DEF f, m, n
  <2>1. CASE i <= m /\ j <= m
    <3>1. i - 1 # j - 1
      BY <1>1, <1>4
    <3> QED BY <1>2, <2>1, <3>1 DEF QueueInv, EnqueuedOnce, m
  <2>2. CASE ~ (i <= m) /\ ~ (j <= m)
    <3>1. i - m # j - m
      BY <1>1, <1>4
    <3> QED BY <1>2, <2>2, <3>1 DEF QueueInv, n
  <2>3. CASE i <= m /\ ~ (j <= m)
    BY <1>2, <2>3 DEF QueueInv
  <2>4. CASE ~ (i <= m) /\ j <= m
    BY <1>2, <2>4 DEF QueueInv
  <2> QED BY <2>1, <2>2, <2>3, <2>4
<1>5. IsFiniteSet(NodeID) /\ Cardinality(NodeID) = N
  BY NAssumption, FS_Interval DEF NodeID
<1>6. Cardinality(1 .. (m + n)) = m + n
  <2> DEFINE z == m + n
  <2>1. z \in Nat
    BY <1>1
  <2> HIDE DEF z
  <2>2. Cardinality(1 .. z) = IF 1 > z THEN 0 ELSE z - 1 + 1
    BY <2>1, FS_Interval
  <2>3. Cardinality(1 .. z) = z
    BY <2>1, <2>2
  <2> QED BY <2>3 DEF z
<1>7. f \in Injection(1 .. (m + n), NodeID)
  <2> HIDE DEF f
  <2> QED BY <1>3, <1>4, Fun_IsInj
<1>8. Cardinality(1 .. (m + n)) <= Cardinality(NodeID)
  <2> HIDE DEF f
  <2> QED BY <1>5, <1>7, FS_Injection
<1> QED BY <1>1, <1>5, <1>6, <1>8

\* A flush puts the buffer behind what the queue holds.
LEMMA FlushFills ==
  ASSUME QueueInv, NEW t \in Threads, FlushTo(t, queue)
  PROVE  /\ queue' \in Queues(N, Cells)
         /\ queue'.in = queue.in + Len(lqueue[t]) /\ queue'.in <= N
         /\ Appended
         /\ \A i \in 1 .. Len(lqueue[t]) : queue'.shared[queue.in + i - 1] = lqueue[t][i]
<1> DEFINE m == queue.in
           b == lqueue[t]
           n == Len(b)
           q == FlushClaim(queue, b)
<1>1. m \in Nat /\ n \in Nat /\ m + n <= N
  BY RoomToFlush
<1>2. queue \in Queues(N, Cells) /\ b \in Seq(NodeID) /\ b \in Seq(Cells)
  BY DEF QueueInv, Cells
<1>3. q = [shared |-> queue.shared, start |-> queue.start, end |-> queue.end, in |-> m + n]
  BY <1>2 DEF FlushClaim, Queues
<1>4. q \in Queues(N, Cells)
  BY <1>1, <1>2, <1>3 DEF Queues
<1>5. queue' = Copied(q, m, b, N)
  <2> HIDE DEF q, b, m, n
  <2>1. FlushCopy(q, m, b, N) = Copied(q, m, b, N)
    BY <1>1, <1>2, <1>4, NAssumption, FlushCopies DEF n
  <2> QED BY <2>1 DEF FlushTo, q, b, m
<1>6. queue' = [shared |-> [c \in 0 .. (N - 1) |-> IF c \in m .. (m + n - 1)
                                                    THEN b[c - m + 1] ELSE queue.shared[c]],
                start |-> queue.start, end |-> queue.end, in |-> m + n]
  <2> DEFINE cells == [c \in 0 .. (N - 1) |-> IF c \in m .. (m + Len(b) - 1)
                                              THEN b[c - m + 1] ELSE q.shared[c]]
  <2>1. ASSUME NEW X
        PROVE  [q EXCEPT !.shared = X]
                 = [shared |-> X, start |-> queue.start, end |-> queue.end, in |-> m + n]
    BY <1>3
  <2>2. queue' = [q EXCEPT !.shared = cells]
    BY <1>5 DEF Copied
  <2>3. queue' = [shared |-> cells, start |-> queue.start, end |-> queue.end, in |-> m + n]
    <3> HIDE DEF cells, q
    <3> QED BY <2>1, <2>2
  <2>4. q.shared = queue.shared
    BY <1>3
  <2> HIDE DEF q
  <2> QED BY <2>3, <2>4
<1>7. ASSUME NEW c \in m .. (m + n - 1)  PROVE b[c - m + 1] \in NodeID
  BY <1>1, <1>2, <1>7
<1>8. queue' \in Queues(N, Cells)
  <2>1. ASSUME NEW c \in 0 .. (N - 1)
        PROVE  (IF c \in m .. (m + n - 1) THEN b[c - m + 1] ELSE queue.shared[c]) \in Cells
    BY <1>2, <1>7 DEF Cells, Queues
  <2>2. queue.start \in Nat /\ queue.end \in Nat /\ m + n \in Nat
    BY <1>1, <1>2 DEF Queues
  <2> HIDE DEF m, n, b, q
  <2> QED BY <1>6, <2>1, <2>2 DEF Queues
<1>9. /\ queue'.start = queue.start /\ queue'.end = queue.end /\ queue'.in = m + n
      /\ \A c \in 0 .. (N - 1) :
           queue'.shared[c] = IF c \in m .. (m + n - 1) THEN b[c - m + 1] ELSE queue.shared[c]
  <2> HIDE DEF m, n, b, q
  <2> QED BY <1>6
<1>10. ASSUME NEW c \in 0 .. (m - 1)  PROVE queue'.shared[c] = queue.shared[c]
  <2>1. c \in 0 .. (N - 1) /\ c \notin m .. (m + n - 1)
    BY <1>1, NAssumption
  <2> QED BY <1>9, <2>1
<1>11. ASSUME NEW i \in 1 .. n  PROVE queue'.shared[m + i - 1] = b[i]
  <2> DEFINE c == m + i - 1
  <2> HIDE DEF m, n, b, q
  <2>1. c \in 0 .. (N - 1) /\ c \in m .. (m + n - 1)
    BY <1>1, NAssumption
  <2>2. c - m + 1 = i
    BY <1>1
  <2> HIDE DEF c
  <2>3. queue'.shared[c] = b[i]
    BY <1>9, <2>1, <2>2
  <2> QED BY <2>3 DEF c
<1> QED BY <1>1, <1>8, <1>9, <1>10, <1>11 DEF Appended

\* What only appends to the queue keeps what is in front of the end.
LEMMA AppendedKeeps ==
  ASSUME QueueInv, Appended
  PROVE  /\ Old' = Old /\ Elements(queue)' = Elements(queue)
         /\ \A c \in 0 .. (queue.end - 1) : queue'.shared[c] = queue.shared[c]
<1>1. /\ queue.start \in Nat /\ queue.end \in Nat /\ queue.in \in Nat
      /\ queue.start <= queue.end /\ queue.end <= queue.in
  BY DEF QueueInv, Queues
<1>2. ASSUME NEW c \in 0 .. (queue.end - 1)  PROVE queue'.shared[c] = queue.shared[c]
  <2>1. c \in 0 .. (queue.in - 1)
    BY <1>1
  <2> QED BY <2>1 DEF Appended
<1>3. Old' = Old
  BY <1>2 DEF Old, Appended
<1>4. ASSUME NEW c \in queue.start .. (queue.end - 1)  PROVE queue'.shared[c] = queue.shared[c]
  <2>1. c \in 0 .. (queue.end - 1)
    BY <1>1
  <2> QED BY <1>2, <2>1
<1>5. Elements(queue') = Elements(queue)
  BY <1>4 DEF Elements, Appended
<1> QED BY <1>2, <1>3, <1>5

\* The part of QueueInv that is about the queue alone.
QueueOnly ==
  /\ queue \in Queues(N, Cells)
  /\ queue.start <= queue.end /\ queue.end <= queue.in /\ queue.in <= N
  /\ \A i \in 0 .. (queue.in - 1) : queue.shared[i] \in NodeID
  /\ EnqueuedOnce

LEMMA FlushedQueue ==
  ASSUME QueueInv, NEW t \in Threads, FlushTo(t, queue)
  PROVE  /\ QueueOnly' /\ Appended
         /\ Stored' = Stored \union Buffers[t] /\ New' = New \union Buffers[t]
<1> DEFINE m == queue.in
           n == Len(lqueue[t])
           s == queue'.shared
<1>1. m \in Nat /\ n \in Nat /\ m + n <= N
  BY RoomToFlush
<1>2. /\ queue' \in Queues(N, Cells) /\ queue'.in = m + n /\ Appended
      /\ \A i \in 1 .. n : s[m + i - 1] = lqueue[t][i]
  BY FlushFills
<1>20. queue'.in - 1 = m + n - 1
  <2>1. queue'.in = m + n
    BY <1>2
  <2> HIDE DEF m, n
  <2> QED BY <1>1, <2>1
<1>3. ASSUME NEW c \in 0 .. (m + n - 1)
      PROVE  /\ c < m => c \in 0 .. (m - 1) /\ s[c] = queue.shared[c]
                         /\ s[c] \in NodeID /\ s[c] \in Stored
             /\ ~ (c < m) => c - m + 1 \in 1 .. n /\ s[c] = lqueue[t][c - m + 1]
                             /\ s[c] \in NodeID /\ s[c] \in Buffers[t]
  <2>1. CASE c < m
    <3>1. c \in 0 .. (m - 1)
      BY <1>1, <2>1
    <3> QED BY <1>2, <2>1, <3>1 DEF Appended, QueueInv, Stored
  <2>2. CASE ~ (c < m)
    <3> DEFINE i == c - m + 1
    <3>1. i \in 1 .. n /\ m + i - 1 = c
      BY <1>1, <2>2
    <3> HIDE DEF i
    <3>2. s[c] = lqueue[t][i]
      BY <1>2, <3>1
    <3>3. lqueue[t] \in Seq(NodeID)
      BY DEF QueueInv
    <3>4. lqueue[t][i] \in NodeID /\ lqueue[t][i] \in Buffers[t]
      BY <3>1, <3>3 DEF Buffers
    <3> QED BY <2>2, <3>1, <3>2, <3>4 DEF i
  <2> QED BY <2>1, <2>2
<1>4. ASSUME NEW c \in 0 .. (m + n - 1), NEW e \in 0 .. (m + n - 1), c # e  PROVE s[c] # s[e]
  <2> HIDE DEF m, n, s
  <2>1. CASE c < m /\ e < m
    BY <1>3, <1>4, <2>1 DEF QueueInv, EnqueuedOnce, m
  <2>2. CASE ~ (c < m) /\ ~ (e < m)
    <3>1. c - m + 1 # e - m + 1
      BY <1>1, <1>4
    <3> QED BY <1>3, <2>2, <3>1 DEF QueueInv, n
  <2>3. CASE c < m /\ ~ (e < m)
    BY <1>3, <2>3 DEF QueueInv
  <2>4. CASE ~ (c < m) /\ e < m
    BY <1>3, <2>4 DEF QueueInv
  <2> QED BY <2>1, <2>2, <2>3, <2>4
<1>5. QueueOnly'
  <2>1. /\ queue'.start <= queue'.end /\ queue'.end <= queue'.in /\ queue'.in <= N
    <3>1. /\ queue.start <= queue.end /\ queue.end <= queue.in
          /\ queue.start \in Nat /\ queue.end \in Nat
      BY DEF QueueInv, Queues
    <3> QED BY <1>1, <1>2, <3>1 DEF Appended
  <2>2. queue'.in - 1 = m + n - 1
    BY <1>20
  <2>3. \A i \in 0 .. (queue'.in - 1) : queue'.shared[i] \in NodeID
    <3> HIDE DEF m, n
    <3> QED BY <1>3, <2>2
  <2>4. \A i, j \in 0 .. (queue'.in - 1) : i # j => queue'.shared[i] # queue'.shared[j]
    <3> HIDE DEF m, n
    <3> QED BY <1>4, <2>2
  <2>5. EnqueuedOnce'
    BY <2>4 DEF EnqueuedOnce
  <2> HIDE DEF m, n, s
  <2> QED BY <1>2, <2>1, <2>3, <2>5 DEF QueueOnly
<1>6. /\ queue.end \in Nat /\ queue.end <= m /\ queue'.end = queue.end
  BY <1>2 DEF QueueInv, Queues, Appended
<1>7. ASSUME NEW from \in 0 .. m
      PROVE  {s[c] : c \in from .. (m + n - 1)}
               = {queue.shared[c] : c \in from .. (m - 1)} \union Buffers[t]
  <2>1. ASSUME NEW c \in from .. (m + n - 1)
        PROVE  s[c] \in {queue.shared[e] : e \in from .. (m - 1)} \union Buffers[t]
    <3>1. c \in 0 .. (m + n - 1) /\ (c < m => c \in from .. (m - 1))
      BY <1>1
    <3> HIDE DEF m, n, s
    <3> QED BY <1>3, <3>1
  <2>2. ASSUME NEW e \in from .. (m - 1)
        PROVE  queue.shared[e] \in {s[c] : c \in from .. (m + n - 1)}
    <3>1. e \in from .. (m + n - 1) /\ e \in 0 .. (m + n - 1) /\ e < m
      BY <1>1
    <3>2. s[e] = queue.shared[e]
      <4> HIDE DEF m, n, s
      <4> QED BY <1>3, <3>1
    <3> HIDE DEF m, n, s
    <3> QED BY <3>1, <3>2
  <2>3. ASSUME NEW i \in 1 .. n
        PROVE  lqueue[t][i] \in {s[c] : c \in from .. (m + n - 1)}
    <3> DEFINE c == m + i - 1
    <3>1. c \in from .. (m + n - 1)
      BY <1>1
    <3>2. s[c] = lqueue[t][i]
      BY <1>2
    <3> HIDE DEF m, n, s, c
    <3> QED BY <3>1, <3>2
  <2>4. Buffers[t] = {lqueue[t][i] : i \in 1 .. n}
    BY DEF Buffers
  <2> HIDE DEF m, n, s
  <2> QED BY <2>1, <2>2, <2>3, <2>4
<1>8. Stored' = Stored \union Buffers[t]
  <2>1. 0 \in 0 .. m
    BY <1>1
  <2>2. Stored' = {s[c] : c \in 0 .. (queue'.in - 1)}
    BY DEF Stored
  <2>3. Stored = {queue.shared[c] : c \in 0 .. (m - 1)}
    BY DEF Stored
  <2> HIDE DEF m, n, s
  <2> QED BY <1>6, <1>7, <1>20, <2>1, <2>2, <2>3
<1>9. New' = New \union Buffers[t]
  <2>1. queue.end \in 0 .. m
    BY <1>1, <1>6
  <2>2. New' = {s[c] : c \in queue'.end .. (queue'.in - 1)}
    BY DEF New
  <2>3. New = {queue.shared[c] : c \in queue.end .. (m - 1)}
    BY DEF New
  <2> HIDE DEF m, n, s
  <2> QED BY <1>6, <1>7, <1>20, <2>1, <2>2, <2>3
<1> QED BY <1>2, <1>5, <1>8, <1>9

LEMMA StoredSplit ==
  ASSUME QueueInv
  PROVE  Stored = Old \union New
<1>1. /\ queue.end \in Nat /\ queue.in \in Nat /\ queue.end <= queue.in
  BY DEF QueueInv, Queues
<1>2. \A i : i \in 0 .. (queue.in - 1) <=>
               i \in 0 .. (queue.end - 1) \/ i \in queue.end .. (queue.in - 1)
  BY <1>1
<1> QED BY <1>2 DEF Stored, Old, New

\* A thread flushes its buffer and has b in it afterwards.
LEMMA FlushKeeps ==
  ASSUME QueueInv, NEW t \in Threads, FlushTo(t, queue),
         NEW b \in Seq(NodeID), Len(b) <= 1, lqueue' = [lqueue EXCEPT ![t] = b],
         \A i \in 1 .. Len(b) : b[i] \notin Stored /\ b[i] \notin Pushed
  PROVE  /\ QueueInv' /\ Appended
         /\ Pushed' = Pushed \union {b[i] : i \in 1 .. Len(b)}
<1> DEFINE B == {b[i] : i \in 1 .. Len(b)}
<1>1. /\ QueueOnly' /\ Appended
      /\ Stored' = Stored \union Buffers[t] /\ New' = New \union Buffers[t]
  BY FlushedQueue
<1>2. lqueue \in [Threads -> Seq(NodeID)] /\ lqueue' \in [Threads -> Seq(NodeID)]
  BY DEF QueueInv
<1>3. lqueue'[t] = b /\ \A s \in Threads : s # t => lqueue'[s] = lqueue[s]
  BY <1>2
<1>4. Buffers'[t] = B /\ \A s \in Threads : s # t => Buffers'[s] = Buffers[s]
  BY <1>3 DEF Buffers
<1>5. \A s \in Threads : Len(lqueue'[s]) <= BufferSize
  BY <1>3, DOBFSAssumption DEF QueueInv
<1>6. ASSUME NEW s \in Threads, NEW i \in 1 .. Len(lqueue'[s]), NEW j \in 1 .. Len(lqueue'[s]), i # j
      PROVE  lqueue'[s][i] # lqueue'[s][j]
  <2>1. CASE s = t
    BY <1>3, <1>6, <2>1
  <2>2. CASE s # t
    BY <1>3, <1>6, <2>2 DEF QueueInv
  <2> QED BY <2>1, <2>2
<1>7. B \intersect Stored = {} /\ \A s \in Threads : B \intersect Buffers[s] = {}
  BY DEF Pushed
<1> HIDE DEF B
<1>8. ASSUME NEW s \in Threads, NEW r \in Threads, s # r
      PROVE  Buffers'[s] \intersect Buffers'[r] = {}
  BY <1>4, <1>7, <1>8 DEF QueueInv
<1>9. ASSUME NEW s \in Threads  PROVE Buffers'[s] \intersect Stored' = {}
  <2>1. CASE s = t
    BY <1>1, <1>4, <1>7, <2>1
  <2>2. CASE s # t
    BY <1>1, <1>4, <2>2 DEF QueueInv
  <2> QED BY <2>1, <2>2
<1>10. QueueInv'
  BY <1>1, <1>2, <1>5, <1>6, <1>8, <1>9 DEF QueueInv, QueueOnly
<1>11. Pushed' = Pushed \union B
  BY <1>1, <1>4 DEF Pushed
<1> QED BY <1>1, <1>10, <1>11 DEF B

\* push_back of a vertex that neither the queue nor a buffer holds.
LEMMA PushKeeps ==
  ASSUME QueueInv, NEW t \in Threads, NEW x \in NodeID, PushLocal(t, x),
         x \notin Stored, x \notin Pushed
  PROVE  QueueInv' /\ Appended /\ Pushed' = Pushed \union {x}
<1>1. CASE Len(lqueue[t]) = BufferSize
  <2>1. FlushTo(t, queue) /\ lqueue' = [lqueue EXCEPT ![t] = <<x>>]
    BY <1>1 DEF PushLocal
  <2> DEFINE b == <<x>>
  <2>2. b \in Seq(NodeID) /\ Len(b) = 1 /\ {b[i] : i \in 1 .. Len(b)} = {x}
        /\ \A i \in 1 .. Len(b) : b[i] = x
    OBVIOUS
  <2>3. lqueue' = [lqueue EXCEPT ![t] = b]
    BY <2>1
  <2> HIDE DEF b
  <2>4. Len(b) <= 1 /\ \A i \in 1 .. Len(b) : b[i] \notin Stored /\ b[i] \notin Pushed
    BY <2>2
  <2>5. QueueInv' /\ Appended /\ Pushed' = Pushed \union {b[i] : i \in 1 .. Len(b)}
    BY <2>1, <2>2, <2>3, <2>4, FlushKeeps
  <2> QED BY <2>2, <2>5
<1>2. CASE Len(lqueue[t]) # BufferSize
  <2> DEFINE b == Append(lqueue[t], x)
             n == Len(lqueue[t])
  <2>1. lqueue' = [lqueue EXCEPT ![t] = b] /\ queue' = queue
    BY <1>2 DEF PushLocal
  <2>2. lqueue \in [Threads -> Seq(NodeID)] /\ n \in Nat /\ n <= BufferSize
    BY DEF QueueInv
  <2>3. /\ b \in Seq(NodeID) /\ Len(b) = n + 1 /\ b[n + 1] = x
        /\ \A i \in 1 .. n : b[i] = lqueue[t][i]
    BY <2>2
  <2>4. {b[i] : i \in 1 .. Len(b)} = Buffers[t] \union {x}
    <3>1. \A i : i \in 1 .. (n + 1) <=> i \in 1 .. n \/ i = n + 1
      BY <2>2
    <3> HIDE DEF b
    <3> QED BY <2>3, <3>1 DEF Buffers
  <2>5. ASSUME NEW i \in 1 .. Len(b), NEW j \in 1 .. Len(b), i # j  PROVE b[i] # b[j]
    <3>1. \A e \in 1 .. (n + 1) : e \in 1 .. n \/ e = n + 1
      BY <2>2
    <3>2. \A e \in 1 .. n : lqueue[t][e] # x
      BY DEF Pushed, Buffers
    <3> HIDE DEF b
    <3>3. CASE i \in 1 .. n /\ j \in 1 .. n
      BY <2>3, <2>5, <3>3 DEF QueueInv
    <3>4. CASE i \in 1 .. n /\ j = n + 1
      BY <2>3, <3>2, <3>4
    <3>5. CASE i = n + 1 /\ j \in 1 .. n
      BY <2>3, <3>2, <3>5
    <3> QED BY <2>3, <2>5, <3>1, <3>3, <3>4, <3>5
  <2>6. Len(b) <= BufferSize
    <3> HIDE DEF b
    <3> QED BY <1>2, <2>2, <2>3, DOBFSAssumption
  <2> HIDE DEF b, n
  <2>7. lqueue'[t] = b /\ \A s \in Threads : s # t => lqueue'[s] = lqueue[s]
    BY <2>1, <2>2
  <2>8. Buffers'[t] = Buffers[t] \union {x} /\ \A s \in Threads : s # t => Buffers'[s] = Buffers[s]
    <3>1. \A s \in Threads : /\ Buffers'[s] = {lqueue'[s][i] : i \in 1 .. Len(lqueue'[s])}
                            /\ Buffers[s] = {lqueue[s][i] : i \in 1 .. Len(lqueue[s])}
      BY DEF Buffers
    <3>2. \A s \in Threads : s # t => Buffers'[s] = Buffers[s]
      <4> SUFFICES ASSUME NEW s \in Threads, s # t  PROVE Buffers'[s] = Buffers[s]
        OBVIOUS
      <4>1. lqueue'[s] = lqueue[s]
        BY <2>7
      <4> HIDE <2>7
      <4> QED BY <4>1 DEF Buffers
    <3>3. Buffers'[t] = {b[i] : i \in 1 .. Len(b)}
      BY <2>7, <3>1
    <3> QED BY <2>4, <3>2, <3>3
  <2>9. lqueue' \in [Threads -> Seq(NodeID)]
    BY <2>1, <2>2, <2>3
  <2>10. Stored' = Stored /\ New' = New /\ EnqueuedOnce'
    BY <2>1 DEF Stored, New, QueueInv, EnqueuedOnce
  <2>11. \A s \in Threads : x \notin Buffers[s]
    BY DEF Pushed
  <2>12. ASSUME NEW s \in Threads, NEW r \in Threads, s # r
         PROVE  Buffers'[s] \intersect Buffers'[r] = {}
    BY <2>8, <2>11, <2>12 DEF QueueInv
  <2>13. ASSUME NEW s \in Threads  PROVE Buffers'[s] \intersect Stored' = {}
    BY <2>8, <2>10 DEF QueueInv
  <2>14. ASSUME NEW s \in Threads
         PROVE  /\ Len(lqueue'[s]) <= BufferSize
                /\ \A i, j \in 1 .. Len(lqueue'[s]) : i # j => lqueue'[s][i] # lqueue'[s][j]
    BY <2>5, <2>6, <2>7 DEF QueueInv
  <2>15. QueueInv'
    BY <2>1, <2>9, <2>10, <2>12, <2>13, <2>14 DEF QueueInv
  <2>16. Pushed' = Pushed \union {x}
    BY <2>8, <2>10 DEF Pushed
  <2>17. Appended
    BY <2>1 DEF Appended, QueueInv, Queues
  <2> QED BY <2>15, <2>16, <2>17
<1> QED BY <1>1, <1>2

-----------------------------------------------------------------------------
(* The inductive invariant. *)

\* The neighbours a thread has not looked at yet in its vertex; top-down.
AheadOf(g, location, v, i) ==
  CASE location = "next" -> {OutNeigh(g, v)[j] : j \in (i + 1) .. OutDegree(g, v)}
    [] location = "cas"  -> {OutNeigh(g, v)[j] : j \in i .. OutDegree(g, v)}
    [] OTHER -> {}
Ahead == [t \in Threads |-> AheadOf(graph, pc[t], u[t], k[t])]
\* What threads may still come to.
Pending == {v \in NodeID : \/ \E i \in todo : v \in OutSet(graph, queue.shared[i])
                          \/ \E t \in Threads : v \in Ahead[t]}

\* The vertices of a thread's chunk it is not done with; bottom-up.
ChunkOf(v) == v \div ChunkSize
RestOf(location, v) == IF location = "idle" THEN {}
                       ELSE {w \in NodeID : ChunkOf(w) = ChunkOf(v) /\ w >= v}
Rest == [t \in Threads |-> RestOf(pc[t], u[t])]
Unlooked == {v \in NodeID : ChunkOf(v) \in todo \/ \E t \in Threads : v \in Rest[t]}

\* The vertices that have a parent and not yet a bit in curr.
BitsToCome == {v \in NodeID : \E t \in Threads : pc[t] \in {"readWord", "writeWord"} /\ u[t] = v}

Idle == \A t \in Threads : pc[t] = "idle"

\* Every vertex visited but the source has its parent one level up.
TreeInv ==
  /\ parent[source] = source
  /\ \A v \in Visited \ {source} :
       /\ Occurs(parent[v], InNeigh(graph, v))
       /\ \E e \in 1 .. N : v \in AtDepth(e) /\ parent[v] \in AtDepth(e - 1)

ParentInv ==
  /\ parent \in [NodeID -> Int]
  /\ \A n \in NodeID : parent[n] < N
  /\ \A n \in NodeID : parent[n] < 0 =>
       parent[n] = IF phase = "done" THEN -1 ELSE InitParent(n)
  /\ TreeInv

Locations == {"idle", "next", "cas", "look", "readWord", "writeWord"}

LocalsOK ==
  /\ front \subseteq NodeID
  /\ count \in Nat
  /\ pc \in [Threads -> Locations]
  /\ u \in [Threads -> NodeID] /\ k \in [Threads -> Nat] /\ curr_val \in [Threads -> Int]
  /\ word \in [Threads -> SUBSET NodeID]

Data == Inputs /\ ParentInv /\ LocalsOK /\ QueueInv

AtTest(d) ==
  /\ Elements(queue) = AtDepth(d) /\ Visited = Reached[d]
  /\ Stored \subseteq Reached[d] /\ Pushed = {}
  /\ front \subseteq Reached[d]
  /\ Idle

\* At "cas", a thread has read that the neighbour is not visited.
AtCas(t) ==
  LET v == OutNeigh(graph, u[t])[k[t]]
  IN  k[t] # 0 /\ curr_val[t] = InitParent(v)

AtTopDown(d) ==
  /\ Elements(queue) = AtDepth(d) /\ Old \subseteq Reached[d]
  /\ Reached[d] \subseteq Visited /\ Visited \subseteq Reached[Deeper(d)]
  /\ Pushed = Visited \ Reached[d]
  /\ count = EdgesOf(graph, Pushed)
  /\ front \subseteq Reached[d]
  /\ todo \subseteq queue.start .. (queue.end - 1)
  /\ \A t \in Threads :
       /\ pc[t] \in {"idle", "next", "cas"}
       /\ pc[t] # "idle" => u[t] \in AtDepth(d) /\ k[t] <= OutDegree(graph, u[t])
       /\ pc[t] = "cas" => AtCas(t)
  /\ AtDepth(Deeper(d)) \subseteq Visited \union Pending

AtBottomUp(d) ==
  /\ AtDepth(d) \subseteq front /\ front \subseteq Reached[d] /\ (AtDepth(d) = {} => front = {})
  /\ Reached[d] \subseteq Visited /\ Visited \subseteq Reached[Deeper(d)]
  /\ Stored \subseteq Reached[d] /\ Pushed = {}
  /\ curr \union BitsToCome = Visited \ Reached[d]
  /\ todo \subseteq Chunks
  /\ \A t \in Threads :
       /\ pc[t] \in {"idle", "look", "readWord", "writeWord"}
       /\ pc[t] # "idle" => ChunkOf(u[t]) \notin todo
       /\ pc[t] = "writeWord" => word[t] = curr \intersect WordOf(u[t])
       /\ \A s \in Threads : s # t /\ pc[s] # "idle" /\ pc[t] # "idle" => ChunkOf(u[s]) # ChunkOf(u[t])
  /\ AtDepth(Deeper(d)) \subseteq Visited \union Unlooked

AtToQueue(d) ==
  /\ front = AtDepth(d) /\ Visited = Reached[d]
  /\ Old \subseteq Reached[d] /\ Old \intersect front = {}
  /\ Pushed = front \ todo
  /\ Idle

AtDone == Visited = Reached[N] /\ Idle /\ Elements(queue) = {}

InvAt(d) ==
  /\ phase \in {"test", "topDown", "bottomUp", "toQueue", "done"}
  /\ phase = "test" => AtTest(d)
  /\ phase = "topDown" => AtTopDown(d)
  /\ phase = "bottomUp" => AtBottomUp(d)
  /\ phase = "toQueue" => AtToQueue(d)
  /\ phase = "done" => AtDone

Inv == Data /\ \E d \in 0 .. N : InvAt(d)

-----------------------------------------------------------------------------
(* EdgesOf adds up the costs of the vertices. *)

Cost(g, S, n) == IF n \notin S THEN 0 ELSE IF OutDegree(g, n) = 0 THEN 1 ELSE OutDegree(g, n)

\* The running sum EdgesOf ends with.
LEMMA EdgesSum ==
  ASSUME NEW g, IsGraph(g), NEW S
  PROVE  \E s \in [0 .. N -> Int] :
           /\ s[0] = 0 /\ EdgesOf(g, S) = s[N]
           /\ \A i \in 0 .. (N - 1) : s[i + 1] = s[i] + Cost(g, S, i)
<1> DEFINE scouted == [n \in NodeID |-> Cost(g, S, n)]
           body(h) == [n \in 0 .. N |-> IF n = 0 THEN 0 ELSE h[n - 1] + scouted[n - 1]]
           s == CHOOSE h : h = body(h)
<1>1. \A i \in 0 .. (N - 1) : scouted[i] = Cost(g, S, i) /\ scouted[i] \in Int
  BY DEF IsGraph, NodeID, Cost, OutDegree, OutNeigh
<1>2. EdgesOf(g, S) = s[N]
  BY DEF EdgesOf, Cost
<1> HIDE DEF scouted
<1>3. \E h \in [0 .. N -> Int] : h = body(h)
  BY <1>1, RunningSum, NAssumption
<1>4. s = body(s)
  BY <1>3
<1>5. s[0] = 0 /\ DOMAIN s = 0 .. N
  <2> HIDE DEF s
  <2> QED BY <1>4, NAssumption
<1>6. ASSUME NEW i \in 0 .. (N - 1)  PROVE s[i + 1] = s[i] + scouted[i]
  <2>1. \A n \in 0 .. N : n # 0 => s[n] = s[n - 1] + scouted[n - 1]
    BY <1>4
  <2>2. i + 1 \in 0 .. N /\ i + 1 # 0 /\ i + 1 - 1 = i
    BY NAssumption
  <2> HIDE DEF s
  <2> QED BY <2>1, <2>2
<1>7. s \in [0 .. N -> Int]
  <2> DEFINE T == {i \in 0 .. N : s[i] \in Int}
  <2> HIDE DEF s
  <2>1. 0 \in T
    BY <1>5, NAssumption
  <2>2. ASSUME NEW i \in 0 .. (N - 1), i \in T  PROVE i + 1 \in T
    BY <1>1, <1>6, <2>2, NAssumption
  <2>3. 0 .. N \subseteq T
    <3> HIDE DEF T
    <3> QED BY <2>1, <2>2, AllUpTo, NAssumption
  <2>4. s = [i \in 0 .. N |-> s[i]]
    BY <1>4
  <2> QED BY <2>3, <2>4
<1> HIDE DEF s
<1> QED BY <1>1, <1>2, <1>5, <1>6, <1>7

LEMMA EdgesOfNone ==
  ASSUME NEW g, IsGraph(g)
  PROVE  EdgesOf(g, {}) = 0
<1>1. PICK s \in [0 .. N -> Int] : /\ s[0] = 0 /\ EdgesOf(g, {}) = s[N]
                                   /\ \A i \in 0 .. (N - 1) : s[i + 1] = s[i] + Cost(g, {}, i)
  BY EdgesSum
<1> DEFINE T == {i \in 0 .. N : s[i] = 0}
<1>2. 0 \in T
  BY <1>1, NAssumption
<1>3. ASSUME NEW i \in 0 .. (N - 1), i \in T  PROVE i + 1 \in T
  BY <1>1, <1>3, NAssumption DEF Cost
<1>4. 0 .. N \subseteq T
  <2> HIDE DEF T
  <2> QED BY <1>2, <1>3, AllUpTo, NAssumption
<1> QED BY <1>1, <1>4, NAssumption

LEMMA EdgesOfOneMore ==
  ASSUME NEW g, IsGraph(g), NEW S, NEW v \in NodeID, v \notin S
  PROVE  EdgesOf(g, S \union {v}) = EdgesOf(g, S) + Cost(g, {v}, v) /\ EdgesOf(g, S) \in Int
<1> DEFINE R == S \union {v}
<1>1. PICK s \in [0 .. N -> Int] : /\ s[0] = 0 /\ EdgesOf(g, S) = s[N]
                                   /\ \A i \in 0 .. (N - 1) : s[i + 1] = s[i] + Cost(g, S, i)
  BY EdgesSum
<1>2. PICK r \in [0 .. N -> Int] : /\ r[0] = 0 /\ EdgesOf(g, R) = r[N]
                                   /\ \A i \in 0 .. (N - 1) : r[i + 1] = r[i] + Cost(g, R, i)
  <2> HIDE DEF R
  <2> QED BY EdgesSum
<1>3. \A i \in NodeID : /\ Cost(g, S, i) \in Int /\ Cost(g, R, i) \in Int /\ Cost(g, {v}, v) \in Int
                        /\ Cost(g, R, i) = Cost(g, S, i) + IF i = v THEN Cost(g, {v}, v) ELSE 0
  <2>1. \A i \in NodeID : OutDegree(g, i) \in Nat
    BY DEF IsGraph, OutDegree, OutNeigh
  <2> QED BY <2>1 DEF Cost
<1> DEFINE T == {i \in 0 .. N : r[i] = s[i] + IF v < i THEN Cost(g, {v}, v) ELSE 0}
<1>4. 0 \in T
  BY <1>1, <1>2, NAssumption DEF NodeID
<1>5. ASSUME NEW i \in 0 .. (N - 1), i \in T  PROVE i + 1 \in T
  <2>1. i \in NodeID /\ i \in 0 .. N /\ i + 1 \in 0 .. N /\ v \in Int
    BY NAssumption DEF NodeID
  <2>2. r[i] = s[i] + IF v < i THEN Cost(g, {v}, v) ELSE 0
    BY <1>5
  <2>3. r[i + 1] = s[i + 1] + IF v < i + 1 THEN Cost(g, {v}, v) ELSE 0
    <3> HIDE DEF R, T
    <3>1. s[i] \in Int /\ r[i] \in Int /\ Cost(g, {v}, v) \in Int
      BY <1>3, <2>1
    <3>2. s[i + 1] = s[i] + Cost(g, S, i) /\ r[i + 1] = r[i] + Cost(g, R, i)
      BY <1>1, <1>2
    <3> DEFINE x == Cost(g, {v}, v)  y == Cost(g, S, i)  z == Cost(g, R, i)
    <3>30. i \in NodeID /\ i \in Int
      BY <2>1
    <3>31. y \in Int /\ z \in Int /\ x \in Int /\ (i = v => z = y + x) /\ (i # v => z = y)
      <4>1. y \in Int /\ z \in Int /\ x \in Int /\ z = y + IF i = v THEN x ELSE 0
        BY <1>3, <3>30
      <4> HIDE DEF x, y, z
      <4>2. CASE i = v
        BY <4>1, <4>2
      <4>3. CASE i # v
        BY <4>1, <4>3
      <4> QED BY <4>1, <4>2, <4>3
    <3> HIDE DEF x, y, z
    <3>3. CASE i = v
      BY <2>1, <2>2, <3>1, <3>2, <3>3, <3>31 DEF x, y, z
    <3>4. CASE i # v
      <4>1. v < i <=> v < i + 1
        BY <2>1, <3>4
      <4> QED BY <2>1, <2>2, <3>1, <3>2, <3>31, <4>1 DEF x, y, z
    <3> QED BY <3>3, <3>4
  <2> QED BY <2>1, <2>3
<1>6. 0 .. N \subseteq T
  <2> HIDE DEF T
  <2> QED BY <1>4, <1>5, AllUpTo, NAssumption
<1>7. N \in 0 .. N /\ v < N
  BY NAssumption DEF NodeID
<1>8. r[N] = s[N] + Cost(g, {v}, v) /\ s[N] \in Int
  BY <1>6, <1>7
<1> HIDE DEF R
<1>9. EdgesOf(g, R) = EdgesOf(g, S) + Cost(g, {v}, v) /\ EdgesOf(g, S) \in Int
  BY <1>1, <1>2, <1>8
<1> QED BY <1>9 DEF R

-----------------------------------------------------------------------------
(* Words and chunks of vertices. *)

LEMMA Division ==
  ASSUME NEW c \in Nat \ {0}, NEW x \in Nat
  PROVE  /\ x \div c \in Nat /\ c * (x \div c) <= x /\ x < c * (x \div c) + c
         /\ x = c * (x \div c) + (x % c) /\ x % c \in 0 .. (c - 1)
  OBVIOUS

\* The quotient is the only number with these bounds.
LEMMA Quotients ==
  ASSUME NEW c \in Nat \ {0}, NEW x \in Nat, NEW b \in Nat
  PROVE  x \div c = b <=> c * b <= x /\ x < c * b + c
<1> DEFINE q == x \div c
<1>1. q \in Nat /\ c * q <= x /\ x < c * q + c
  BY Division
<1> HIDE DEF q
<1>2. ASSUME NEW i \in Nat, NEW j \in Nat, i < j  PROVE c * i + c <= c * j
  <2>1. i + 1 <= j
    BY <1>2
  <2>2. c * (i + 1) <= c * j
    BY <2>1
  <2>3. c * (i + 1) = c * i + c
    OBVIOUS
  <2> QED BY <2>2, <2>3
<1>3. ASSUME c * b <= x, x < c * b + c  PROVE q = b
  <2>1. c * q \in Nat /\ c * b \in Nat
    BY <1>1
  <2>2. CASE q < b
    BY <1>1, <1>2, <1>3, <2>1, <2>2
  <2>3. CASE b < q
    BY <1>1, <1>2, <1>3, <2>1, <2>3
  <2> QED BY <1>1, <2>2, <2>3
<1> QED BY <1>1, <1>3 DEF q

LEMMA ChunkTypes ==
  /\ ChunkSize \in Nat \ {0} /\ WordBits \in Nat \ {0} /\ N \in Nat \ {0}
  /\ NodeID = 0 .. (N - 1) /\ NodeID \subseteq Nat
  BY DOBFSAssumption, NAssumption DEF NodeID

\* The chunk c begins with c * ChunkSize, and every vertex is in one of the chunks.
LEMMA ChunkBegins ==
  /\ \A c \in Chunks : /\ c * ChunkSize \in NodeID /\ ChunkOf(c * ChunkSize) = c
                       /\ \A v \in NodeID : ChunkOf(v) = c => v >= c * ChunkSize
  /\ \A v \in NodeID : ChunkOf(v) \in Chunks
<1> DEFINE z == ChunkSize  last == N - 1  m == last \div z
<1>1. z \in Nat \ {0} /\ last \in Nat /\ NodeID = 0 .. last
  BY ChunkTypes
<1> HIDE DEF z, last
<1>2. m \in Nat /\ z * m <= last /\ last < z * m + z
  BY <1>1, Division
<1>3. ASSUME NEW c \in 0 .. m  PROVE z * c \in NodeID /\ (z * c) \div z = c
  <2>1. c \in Nat /\ c <= m
    BY <1>2
  <2>2. z * c <= z * m /\ z * c \in Nat /\ z * m \in Nat
    <3>1. m - c \in Nat /\ z * (m - c) \in Nat /\ z * (m - c) = z * m - z * c
      BY <1>1, <1>2, <2>1
    <3>2. z * c \in Nat /\ z * m \in Nat
      BY <1>1, <1>2, <2>1
    <3> QED BY <3>1, <3>2
  <2>3. z * c \in NodeID
    <3> HIDE DEF m
    <3> DEFINE x == z * c  y == z * m
    <3> HIDE DEF x, y
    <3>1. x <= y /\ x \in Nat /\ y \in Nat /\ y <= last
      BY <1>2, <2>2 DEF x, y
    <3>2. x \in NodeID
      BY <1>1, <3>1
    <3> QED BY <3>2 DEF x
  <2>4. z * c <= z * c /\ z * c < z * c + z
    BY <1>1, <2>2
  <2> QED BY <1>1, <2>1, <2>2, <2>3, <2>4, Quotients
<1>4. ASSUME NEW v \in NodeID
      PROVE  v \div z \in 0 .. m /\ z * (v \div z) <= v
  <2> DEFINE q == v \div z
  <2>1. v \in Nat /\ v <= last
    BY <1>1
  <2>2. q \in Nat /\ z * q <= v
    BY <1>1, <2>1, Division
  <2> HIDE DEF q, m
  <2>3. ASSUME m < q  PROVE FALSE
    <3>1. q - m - 1 \in Nat /\ z * (q - m - 1) \in Nat /\ z * (q - m - 1) = z * q - z * m - z
      BY <1>1, <1>2, <2>2, <2>3
    <3>2. z * q \in Nat /\ z * m \in Nat
      BY <1>1, <1>2, <2>2
    <3> QED BY <1>1, <1>2, <2>1, <2>2, <3>1, <3>2
  <2>4. q \in 0 .. m
    BY <1>2, <2>2, <2>3
  <2> QED BY <2>2, <2>4 DEF q
<1>5. \A c \in 0 .. m : c * z = z * c
  BY <1>1, <1>2
<1>6. Chunks = 0 .. m
  BY DEF Chunks, z, m, last
<1>7. \A v : ChunkOf(v) = v \div z
  BY DEF ChunkOf, z
<1> HIDE DEF m
<1>8. \A v \in NodeID : ChunkOf(v) \in 0 .. m /\ z * ChunkOf(v) <= v
  BY <1>4, <1>7
<1>9. ASSUME NEW c \in 0 .. m
      PROVE  /\ c * z \in NodeID /\ ChunkOf(c * z) = c
             /\ \A v \in NodeID : ChunkOf(v) = c => v >= c * z
  <2> DEFINE x == z * c
  <2>1. c * z = x
    BY <1>5
  <2>2. x \in NodeID /\ ChunkOf(x) = c
    BY <1>3, <1>7
  <2>3. ASSUME NEW v \in NodeID, ChunkOf(v) = c  PROVE v >= x
    <3>1. x <= v
      BY <1>8, <2>3
    <3> HIDE DEF x
    <3> QED BY <1>1, <2>2, <3>1
  <2> HIDE DEF x
  <2> QED BY <2>1, <2>2, <2>3
<1> QED BY <1>6, <1>8, <1>9 DEF z

\* The condition of Advance: the next vertex is in the same chunk.
LEMMA ChunkGoesOn ==
  ASSUME NEW v \in NodeID
  PROVE  /\ v + 1 < N /\ (v + 1) % ChunkSize # 0 =>
              v + 1 \in NodeID /\ ChunkOf(v + 1) = ChunkOf(v)
         /\ \A w \in NodeID : w > v /\ ChunkOf(w) = ChunkOf(v) =>
              v + 1 < N /\ (v + 1) % ChunkSize # 0
<1> DEFINE z == ChunkSize
<1>1. z \in Nat \ {0} /\ v \in Nat /\ v < N /\ N \in Nat /\ NodeID = 0 .. (N - 1)
      /\ \A x : ChunkOf(x) = x \div z
  BY ChunkTypes DEF ChunkOf
<1> HIDE DEF z
<1> DEFINE q == (v + 1) \div z  r == (v + 1) % z
<1>2. q \in Nat /\ v + 1 = z * q + r /\ r \in 0 .. (z - 1) /\ z * q \in Nat
  <2>1. v + 1 \in Nat
    BY <1>1
  <2>2. q \in Nat /\ v + 1 = z * q + r /\ r \in 0 .. (z - 1)
    BY <1>1, <2>1, Division
  <2> HIDE DEF q, r
  <2> QED BY <1>1, <2>2
<1>3. ASSUME v + 1 < N, r # 0  PROVE v + 1 \in NodeID /\ ChunkOf(v + 1) = ChunkOf(v)
  <2>1. z * q <= v /\ v < z * q + z
    <3> DEFINE x == z * q
    <3> HIDE DEF x, q, r
    <3>1. v + 1 = x + r /\ r \in 0 .. (z - 1) /\ x \in Nat
      BY <1>2 DEF x
    <3>2. x <= v /\ v < x + z
      BY <1>1, <1>3, <3>1
    <3> QED BY <3>2 DEF x
  <2>2. v \div z = q
    <3> HIDE DEF q, r
    <3> QED BY <1>1, <1>2, <2>1, Quotients
  <2> QED BY <1>1, <1>3, <2>2
<1>4. ASSUME NEW w \in NodeID, w > v, ChunkOf(w) = ChunkOf(v)  PROVE v + 1 < N /\ r # 0
  <2> DEFINE b == v \div z  x == z * b
  <2>1. b \in Nat /\ x <= v /\ v < x + z /\ w < x + z /\ x \in Nat /\ w \in Nat
    <3>1. b \in Nat /\ x <= v /\ v < x + z
      BY <1>1, Division
    <3>2. w \in Nat /\ w \div z = b
      BY <1>1, <1>4
    <3>3. w < x + z
      BY <1>1, <3>2, Division
    <3> HIDE DEF b
    <3> QED BY <1>1, <3>1, <3>2, <3>3
  <2>2. z * b <= v + 1 /\ v + 1 < z * b + z /\ v + 1 \in Nat
    <3> HIDE DEF x, b
    <3>1. x <= v + 1 /\ v + 1 < x + z /\ v + 1 \in Nat
      BY <1>1, <1>4, <2>1
    <3> QED BY <3>1 DEF x
  <2> HIDE DEF b
  <2>3. q = b
    BY <1>1, <2>1, <2>2, Quotients
  <2>4. v + 1 = x + r
    BY <1>2, <2>3
  <2> HIDE DEF q, r, x
  <2>5. r # 0
    BY <1>1, <1>2, <2>1, <2>4
  <2>6. v + 1 < N
    BY <1>1, <1>4
  <2> QED BY <2>5, <2>6
<1> QED BY <1>3, <1>4 DEF z

\* A word of a bitmap is not shared between chunks.
LEMMA WordInChunk ==
  ASSUME NEW v \in NodeID, NEW w \in NodeID, w \in WordOf(v)
  PROVE  ChunkOf(w) = ChunkOf(v)
<1> DEFINE z == ChunkSize  b == WordBits  q == z \div b
<1>1. z \in Nat \ {0} /\ b \in Nat \ {0} /\ NodeID \subseteq Nat
  BY ChunkTypes
<1>2. q \in Nat /\ z = b * q
  <2>1. z % b = 0
    BY DOBFSAssumption
  <2> HIDE DEF z, b
  <2>2. q \in Nat /\ z = b * q + (z % b)
    BY <1>1, Division
  <2> HIDE DEF q
  <2>3. b * q \in Nat
    BY <1>1, <2>2
  <2> QED BY <2>1, <2>2, <2>3
<1> HIDE DEF z, b, q
\* x begins a chunk and is the first of a word; so nobody's word is cut there.
<1>3. ASSUME NEW i \in NodeID, NEW j \in NodeID, i \div b = j \div b,
             i \div z < j \div z
      PROVE  FALSE
  <2> DEFINE a == i \div b  c == j \div z  d == i \div z
  <2>1. i \in Nat /\ j \in Nat
    BY <1>1
  <2>2. a \in Nat /\ b * a <= i /\ i < b * a + b /\ b * a <= j /\ j < b * a + b
    BY <1>1, <1>3, <2>1, Division
  <2>3. c \in Nat /\ d \in Nat /\ z * c <= j /\ i < z * d + z /\ d < c
    BY <1>1, <1>3, <2>1, Division
  <2> HIDE DEF a, c, d
  <2> DEFINE m == q * c
  <2>4. m \in Nat /\ z * c = b * m
    BY <1>1, <1>2, <2>3
  <2>5. z * d + z <= z * c
    <3>1. c - d - 1 \in Nat /\ z * (c - d - 1) \in Nat /\ z * (c - d - 1) = z * c - z * d - z
      BY <1>1, <2>3
    <3>2. z * c \in Nat /\ z * d \in Nat
      BY <1>1, <2>3
    <3> QED BY <1>1, <3>1, <3>2
  <2> HIDE DEF m
  <2>6. b * m \in Nat /\ b * a \in Nat /\ z * d \in Nat
    BY <1>1, <2>2, <2>3, <2>4
  <2>7. i < b * m /\ b * m <= j
    BY <1>1, <2>1, <2>3, <2>4, <2>5, <2>6
  <2>8. b * a < b * m /\ b * m < b * a + b
    BY <1>1, <2>1, <2>2, <2>6, <2>7
  <2>9. CASE a < m
    <3>1. m - a - 1 \in Nat /\ b * (m - a - 1) \in Nat /\ b * (m - a - 1) = b * m - b * a - b
      BY <1>1, <2>2, <2>4, <2>9
    <3> QED BY <1>1, <2>6, <2>8, <3>1
  <2>10. CASE m <= a
    <3>1. a - m \in Nat /\ b * (a - m) \in Nat /\ b * (a - m) = b * a - b * m
      BY <1>1, <2>2, <2>4, <2>10
    <3> QED BY <2>6, <2>8, <3>1
  <2> QED BY <2>2, <2>4, <2>9, <2>10
<1>4. w \div b = v \div b
  BY DEF WordOf, b
<1>5. v \in Nat /\ w \in Nat /\ v \div z \in Nat /\ w \div z \in Nat
  BY <1>1, Division
<1>6. w \div z = v \div z
  BY <1>3, <1>4, <1>5
<1> QED BY <1>6 DEF ChunkOf, z

-----------------------------------------------------------------------------
(* What the steps have in common. *)

LEMMA Rigid ==
  ASSUME UNCHANGED <<graph, source>>
  PROVE  /\ Reached' = Reached /\ Inputs' = Inputs
         /\ \A d : AtDepth(d)' = AtDepth(d)
         /\ \A n : InitParent(n)' = InitParent(n)
<1>1. Reached' = Reached /\ Inputs' = Inputs
  BY DEF Reached, Inputs
<1>2. \A d : AtDepth(d)' = AtDepth(d)
  BY <1>1 DEF AtDepth
<1>3. \A n : InitParent(n)' = InitParent(n)
  BY DEF InitParent, OutDegree, OutNeigh
<1> QED BY <1>1, <1>2, <1>3

LEMMA SameQueue ==
  ASSUME UNCHANGED <<queue, lqueue>>
  PROVE  /\ QueueInv' = QueueInv /\ Elements(queue)' = Elements(queue)
         /\ Stored' = Stored /\ Old' = Old /\ New' = New /\ Pushed' = Pushed
         /\ Buffers' = Buffers
<1>1. Stored' = Stored /\ Old' = Old /\ New' = New /\ Buffers' = Buffers
  BY DEF Stored, Old, New, Buffers
<1>2. Pushed' = Pushed
  BY <1>1 DEF Pushed
<1>3. Elements(queue)' = Elements(queue)
  BY DEF Elements
<1>4. QueueInv' = QueueInv
  BY <1>1 DEF QueueInv, EnqueuedOnce
<1> QED BY <1>1, <1>2, <1>3, <1>4

LEMMA SameParent ==
  ASSUME ParentInv, phase # "done", phase' # "done", UNCHANGED <<graph, source, parent>>
  PROVE  ParentInv' /\ Visited' = Visited
<1>1. Visited' = Visited
  BY DEF Visited
<1>2. TreeInv'
  BY <1>1, Rigid DEF ParentInv, TreeInv, InNeigh
<1> QED BY <1>1, <1>2, Rigid DEF ParentInv

\* A vertex of the level being searched adopts one of the next level.
LEMMA Adopts ==
  ASSUME Inputs, ParentInv, phase # "done", UNCHANGED <<graph, source, phase>>,
         NEW d \in 0 .. N, NEW p \in AtDepth(d), NEW v \in AtDepth(Deeper(d)),
         Occurs(v, OutNeigh(graph, p)), v \notin Visited,
         parent' = [parent EXCEPT ![v] = p]
  PROVE  ParentInv' /\ Visited' = Visited \union {v} /\ v \in NodeID /\ p \in NodeID
<1>1. d < N
  <2>1. CASE d = N
    BY <2>1, NobodyAtN DEF Deeper
  <2> QED BY <2>1, NAssumption
<1>2. Deeper(d) = d + 1 /\ d + 1 \in 1 .. N /\ d + 1 - 1 = d
  BY <1>1, NAssumption DEF Deeper
<1>3. p \in NodeID /\ v \in NodeID /\ v \in AtDepth(d + 1) /\ p \in 0 .. (N - 1)
  BY <1>2, LevelFacts DEF NodeID
<1>4. /\ parent' \in [NodeID -> Int] /\ parent'[v] = p
      /\ \A n \in NodeID : n # v => parent'[n] = parent[n]
  BY <1>3, NAssumption DEF ParentInv
<1>5. p >= 0 /\ p < N
  BY <1>3, NAssumption
<1>6. Visited' = Visited \union {v}
  BY <1>3, <1>4, <1>5 DEF Visited
<1>7. source # v
  BY LevelFacts
<1>8. Occurs(p, InNeigh(graph, v))
  BY <1>3, DOBFSAssumption DEF Inputs, IsGraph
<1>9. \E e \in 1 .. N : v \in AtDepth(e) /\ p \in AtDepth(e - 1)
  BY <1>2, <1>3
<1>10. \A n \in Visited \ {source} :
         /\ Occurs(parent[n], InNeigh(graph, n))
         /\ \E e \in 1 .. N : n \in AtDepth(e) /\ parent[n] \in AtDepth(e - 1)
  BY DEF ParentInv, TreeInv
<1>11. \A n \in Visited' \ {source} :
         /\ Occurs(parent'[n], InNeigh(graph, n))
         /\ \E e \in 1 .. N : n \in AtDepth(e) /\ parent'[n] \in AtDepth(e - 1)
  <2> TAKE n \in Visited' \ {source}
  <2>1. CASE n = v
    BY <1>4, <1>8, <1>9, <2>1
  <2>2. CASE n # v
    <3>1. n \in NodeID /\ n \in Visited \ {source}
      BY <1>3, <1>6, <2>2 DEF Visited
    <3> QED BY <1>4, <1>10, <2>2, <3>1
  <2> QED BY <2>1, <2>2
<1>12. TreeInv'
  BY <1>4, <1>7, <1>11, Rigid DEF TreeInv, InNeigh, ParentInv, Inputs
<1>13. ASSUME NEW n \in NodeID
       PROVE  parent'[n] < N /\ (parent'[n] < 0 => parent'[n] = InitParent(n))
  BY <1>4, <1>5 DEF ParentInv
<1>14. ParentInv'
  BY <1>4, <1>12, <1>13, Rigid DEF ParentInv
<1> QED BY <1>3, <1>6, <1>14

\* A step that adopts, the level being that of depth d.
Adoption(d) ==
  \E p \in AtDepth(d), v \in AtDepth(Deeper(d)) :
    /\ Occurs(v, OutNeigh(graph, p)) /\ v \notin Visited
    /\ parent' = [parent EXCEPT ![v] = p]

\* The window is moved past everything that was pushed.
LEMMA SlideKeeps ==
  ASSUME QueueInv, queue' = SlideWindow(queue), UNCHANGED lqueue
  PROVE  /\ QueueInv' /\ Stored' = Stored /\ Old' = Stored /\ New' = {}
         /\ Elements(queue)' = New /\ Buffers' = Buffers
         /\ queue'.start = queue.end /\ queue'.end = queue.in /\ queue'.in = queue.in
<1>1. /\ queue.start \in Nat /\ queue.end \in Nat /\ queue.in \in Nat
      /\ queue.start <= queue.end /\ queue.end <= queue.in /\ queue \in Queues(N, Cells)
  BY DEF QueueInv, Queues
<1>2. queue' = [shared |-> queue.shared, start |-> queue.end, end |-> queue.in, in |-> queue.in]
  BY <1>1 DEF SlideWindow, Queues
<1>3. queue' \in Queues(N, Cells)
  BY <1>1, <1>2 DEF Queues
<1>4. /\ queue'.start = queue.end /\ queue'.end = queue.in /\ queue'.in = queue.in
      /\ queue'.shared = queue.shared
  BY <1>2
<1>5. Stored' = Stored /\ Old' = Stored /\ Elements(queue)' = New /\ Buffers' = Buffers
  BY <1>4 DEF Stored, Old, Elements, New, Buffers
<1>6. New' = {}
  <2>1. \A i : i \notin queue.in .. (queue.in - 1)
    BY <1>1
  <2> QED BY <1>4, <2>1 DEF New
<1>7. QueueInv'
  BY <1>1, <1>3, <1>4, <1>5 DEF QueueInv, EnqueuedOnce
<1> QED BY <1>4, <1>5, <1>6, <1>7

\* Nothing was pushed in this region yet.
LEMMA NothingPushed ==
  ASSUME QueueInv, Pushed = {}
  PROVE  /\ queue.in = queue.end /\ Stored = Old /\ New = {}
         /\ \A t \in Threads : Buffers[t] = {} /\ lqueue[t] = << >>
<1>1. queue.end \in Nat /\ queue.in \in Nat /\ queue.end <= queue.in
  BY DEF QueueInv, Queues
<1>2. New = {} /\ \A t \in Threads : Buffers[t] = {}
  BY DEF Pushed
<1>3. queue.in = queue.end
  <2>1. SUFFICES ASSUME queue.end < queue.in  PROVE FALSE
    BY <1>1
  <2>2. queue.end \in queue.end .. (queue.in - 1)
    BY <1>1, <2>1
  <2> QED BY <1>2, <2>2 DEF New
<1>4. ASSUME NEW t \in Threads  PROVE lqueue[t] = << >>
  <2>1. lqueue[t] \in Seq(NodeID)
    BY DEF QueueInv
  <2>2. \A i \in 1 .. Len(lqueue[t]) : FALSE
    BY <1>2 DEF Buffers
  <2>3. Len(lqueue[t]) = 0
    <3>1. Len(lqueue[t]) \in Nat
      BY <2>1
    <3>2. SUFFICES ASSUME Len(lqueue[t]) > 0  PROVE FALSE
      BY <3>1
    <3>3. 1 \in 1 .. Len(lqueue[t])
      BY <3>1, <3>2
    <3> QED BY <2>2, <3>3
  <2> QED BY <2>1, <2>3
<1> QED BY <1>2, <1>3, <1>4, StoredSplit

LEMMA InitParentNegative ==
  ASSUME Inputs, NEW n \in NodeID
  PROVE  InitParent(n) \in Int /\ InitParent(n) < 0 /\ - InitParent(n) = Cost(graph, {n}, n)
<1>1. OutDegree(graph, n) \in Nat
  BY DOBFSAssumption DEF Inputs, IsGraph, OutDegree, OutNeigh
<1> QED BY <1>1 DEF InitParent, Cost

LEMMA InitInv ==
  ASSUME Init
  PROVE  Inv
<1>1. Inputs /\ 0 \in 0 .. N /\ source \in NodeID /\ source \in 0 .. (N - 1)
  BY NAssumption DEF Init, Inputs, NodeID
<1>2. Reached[0] = {source} /\ AtDepth(0) = {source}
  BY <1>1, ReachedFacts DEF AtDepth
<1>3. ParentInv /\ Visited = {source}
  <2>1. parent = [n \in NodeID |-> IF n = source THEN source ELSE InitParent(n)] /\ phase = "test"
    BY DEF Init
  <2>2. \A n \in NodeID : InitParent(n) \in Int /\ InitParent(n) < 0
    BY <1>1, InitParentNegative
  <2>3. source \in Int /\ source >= 0 /\ source < N
    BY <1>1, NAssumption
  <2>40. \A n \in NodeID : parent[n] = IF n = source THEN source ELSE InitParent(n)
    BY <2>1
  <2>4. Visited = {source} /\ parent[source] = source
    <3> HIDE <2>1
    <3>1. \A n \in NodeID : ~ (InitParent(n) >= 0)
      BY <2>2
    <3> QED BY <1>1, <2>40, <2>3, <3>1 DEF Visited
  <2>5. parent \in [NodeID -> Int]
    BY <2>1, <2>2, <2>3
  <2>6. \A n \in NodeID : parent[n] < N /\ (parent[n] < 0 => parent[n] = InitParent(n))
    BY <2>1, <2>2, <2>3, NAssumption
  <2> QED BY <2>1, <2>4, <2>5, <2>6 DEF ParentInv, TreeInv
<1>5. LocalsOK
  BY NAssumption DEF Init, LocalsOK, Locations, NodeID
<1>6. queue = [shared |-> [i \in 0 .. (N - 1) |-> IF i = 0 THEN source ELSE BlankItem],
               start |-> 0, end |-> 1, in |-> 1]
  <2> DEFINE new == [i \in 0 .. (N - 1) |-> BlankItem]
             cells == [i \in 0 .. (N - 1) |-> IF i = 0 THEN source ELSE BlankItem]
  <2>1. [new EXCEPT ![0] = source] = cells
    BY NAssumption
  <2>2. NewQueue(N) = [shared |-> new, start |-> 0, end |-> 0, in |-> 0]
    BY DEF NewQueue
  <2> HIDE DEF new, cells
  <2>3. PushBack(NewQueue(N), source) = [shared |-> cells, start |-> 0, end |-> 0, in |-> 1]
    <3> DEFINE q == NewQueue(N)
               q1 == [q EXCEPT !.shared = [q.shared EXCEPT ![q.in] = source]]
    <3>1. PushBack(q, source) = [q1 EXCEPT !.in = q.in + 1]
      BY DEF PushBack
    <3>2. q.shared = new /\ q.in = 0
      BY <2>2
    <3>3. q1 = [q EXCEPT !.shared = cells]
      BY <2>1, <3>2
    <3>4. [q EXCEPT !.shared = cells] = [shared |-> cells, start |-> 0, end |-> 0, in |-> 0]
      BY <2>2
    <3> HIDE DEF q1, q
    <3>5. q1 = [shared |-> cells, start |-> 0, end |-> 0, in |-> 0]
      BY <3>3, <3>4
    <3>6. [q1 EXCEPT !.in = 1] = [shared |-> cells, start |-> 0, end |-> 0, in |-> 1]
      BY <3>5
    <3> QED BY <3>1, <3>2, <3>6 DEF q
  <2>4. queue = [shared |-> cells, start |-> 0, end |-> 1, in |-> 1]
    <3> DEFINE q == PushBack(NewQueue(N), source)
    <3>1. queue = [q EXCEPT !.start = q.end, !.end = q.in]
      BY DEF Init, SlideWindow
    <3>2. q = [shared |-> cells, start |-> 0, end |-> 0, in |-> 1]
      BY <2>3
    <3> HIDE DEF q
    <3>3. q.end = 0 /\ q.in = 1
      BY <3>2
    <3> DEFINE q1 == [q EXCEPT !.start = q.end]
    <3>4. q1 = [shared |-> cells, start |-> 0, end |-> 0, in |-> 1]
      BY <3>2
    <3>5. queue = [q1 EXCEPT !.end = q.in]
      BY <3>1
    <3> HIDE DEF q1
    <3> QED BY <3>3, <3>4, <3>5
  <2> QED BY <2>4 DEF cells
<1>7. /\ queue.start = 0 /\ queue.end = 1 /\ queue.in = 1 /\ queue.shared[0] = source
      /\ queue \in Queues(N, Cells)
  <2>1. 0 \in 0 .. (N - 1) /\ \A i \in 0 .. (N - 1) : (IF i = 0 THEN source ELSE BlankItem) \in Cells
    BY <1>1, NAssumption DEF Cells
  <2> QED BY <1>6, <2>1 DEF Queues
<1>8. \A i : (i \in 0 .. (1 - 1) <=> i = 0) /\ i \notin 1 .. (1 - 1)
  OBVIOUS
<1>9. Stored = {source} /\ Old = {source} /\ New = {} /\ Elements(queue) = {source}
  BY <1>7, <1>8 DEF Stored, Old, New, Elements
<1>10. \A t \in Threads : lqueue[t] = << >> /\ Buffers[t] = {}
  BY DEF Init, Buffers
<1>11. Pushed = {}
  BY <1>9, <1>10 DEF Pushed
<1>12. QueueInv
  <2>1. /\ queue.start <= queue.end /\ queue.end <= queue.in /\ queue.in <= N
    BY <1>7, NAssumption
  <2>2. /\ \A i \in 0 .. (queue.in - 1) : queue.shared[i] \in NodeID
        /\ EnqueuedOnce
    BY <1>1, <1>7, <1>8 DEF EnqueuedOnce
  <2>3. lqueue \in [Threads -> Seq(NodeID)]
    BY DEF Init
  <2>4. \A t \in Threads : Len(lqueue[t]) = 0 /\ \A i : i \notin 1 .. Len(lqueue[t])
    BY <1>10
  <2>5. \A t \in Threads : Len(lqueue[t]) <= BufferSize
    BY <2>4, DOBFSAssumption
  <2> QED BY <1>7, <1>10, <2>1, <2>2, <2>3, <2>4, <2>5 DEF QueueInv
<1>13. Idle
  BY DEF Idle, Init
<1>14. InvAt(0)
  BY <1>2, <1>3, <1>9, <1>11, <1>13 DEF InvAt, AtTest, Init
<1> QED BY <1>1, <1>3, <1>5, <1>12, <1>14 DEF Inv, Data

-----------------------------------------------------------------------------
(* The steps of a top-down level. *)

\* What the invariant says of a thread.
ThreadAt(d, t) ==
  /\ pc[t] \in {"idle", "next", "cas"}
  /\ pc[t] # "idle" => u[t] \in AtDepth(d) /\ k[t] <= OutDegree(graph, u[t])
  /\ pc[t] = "cas" => AtCas(t)

\* A step of a thread that writes nothing but its own variables and todo.
LEMMA ThreadKeeps ==
  ASSUME Data, NEW d \in 0 .. N, InvAt(d), NEW t \in Threads, phase = "topDown",
         UNCHANGED <<graph, source, parent, queue, lqueue, front, count, phase>>,
         LocalsOK', todo' \subseteq todo,
         \A s \in Threads : s # t => /\ pc'[s] = pc[s] /\ u'[s] = u[s] /\ k'[s] = k[s]
                                   /\ curr_val'[s] = curr_val[s],
         ThreadAt(d, t)', Pending \subseteq Pending' \union Visited
  PROVE  Data' /\ InvAt(d)'
<1>1. AtTopDown(d)
  BY DEF InvAt
<1>2. Inputs' /\ ParentInv' /\ QueueInv' /\ Visited' = Visited
  BY SameParent, SameQueue, Rigid DEF Data
<1>3. \A s \in Threads : ThreadAt(d, s)'
  <2> TAKE s \in Threads
  <2>1. CASE s # t
    BY <1>1, <2>1, Rigid DEF AtTopDown, ThreadAt, AtCas, OutNeigh, OutDegree
  <2> QED BY <2>1
<1>4. AtTopDown(d)'
  <2>1. Elements(queue)' = AtDepth(d)' /\ Old' \subseteq Reached'[d]
    BY <1>1, SameQueue, Rigid DEF AtTopDown
  <2>2. /\ Reached'[d] \subseteq Visited' /\ Visited' \subseteq Reached'[Deeper(d)]
        /\ Pushed' = Visited' \ Reached'[d] /\ count' = EdgesOf(graph', Pushed')
        /\ front' \subseteq Reached'[d]
    BY <1>1, <1>2, SameQueue, Rigid DEF AtTopDown
  <2>3. todo' \subseteq queue'.start .. (queue'.end - 1)
    BY <1>1 DEF AtTopDown
  <2>4. AtDepth(Deeper(d))' \subseteq Visited' \union Pending'
    BY <1>1, <1>2, Rigid DEF AtTopDown
  <2> QED BY <1>3, <2>1, <2>2, <2>3, <2>4 DEF AtTopDown, ThreadAt
<1> QED BY <1>2, <1>4 DEF Data, InvAt

LEMMA TakeElementKeeps ==
  ASSUME Data, NEW d \in 0 .. N, InvAt(d), NEW t \in Threads, NEW i \in todo, TakeElement(t, i)
  PROVE  Data' /\ InvAt(d)'
<1>1. phase = "topDown" /\ phase' = "topDown" /\ pc[t] = "idle" /\ AtTopDown(d)
  BY DEF TakeElement, InvAt
<1>2. UNCHANGED <<graph, source, parent, queue, lqueue, front, count, curr_val, word>>
  BY DEF TakeElement, inputs, bitmaps
<1> DEFINE p == queue.shared[i]
<1>3. p \in AtDepth(d) /\ p \in NodeID /\ OutDegree(graph, p) \in Nat
  <2>1. p \in AtDepth(d)
    BY <1>1 DEF AtTopDown, Elements
  <2>2. p \in NodeID
    BY <2>1, LevelFacts DEF Data
  <2> QED BY <2>1, <2>2, DOBFSAssumption DEF Data, Inputs, IsGraph, OutDegree, OutNeigh
<1>4. /\ u' = [u EXCEPT ![t] = p] /\ k' = [k EXCEPT ![t] = 0] /\ pc' = [pc EXCEPT ![t] = "next"]
      /\ todo' = todo \ {i}
  BY DEF TakeElement, Goto
<1> HIDE DEF p
<1>5. LocalsOK'
  BY <1>2, <1>3, <1>4 DEF LocalsOK, Data, Locations
<1>6. /\ u'[t] = p /\ k'[t] = 0 /\ pc'[t] = "next"
      /\ \A s \in Threads : s # t => u'[s] = u[s] /\ k'[s] = k[s] /\ pc'[s] = pc[s]
  BY <1>4 DEF LocalsOK, Data
<1>7. OutSet(graph, p) \subseteq Ahead'[t] /\ \A s \in Threads : s # t => Ahead'[s] = Ahead[s]
  <2>1. Ahead'[t] = AheadOf(graph, "next", p, 0)
    BY <1>2, <1>6 DEF Ahead
  <2>2. \A s \in Threads : s # t => Ahead'[s] = Ahead[s]
    BY <1>2, <1>6 DEF Ahead
  <2> QED BY <2>1, <2>2 DEF OutSet, AheadOf
<1>8. Ahead[t] = {}
  BY <1>1 DEF Ahead, AheadOf
<1>9. Pending \subseteq Pending'
  <2>1. \A j \in todo : j = i \/ j \in todo'
    BY <1>4
  <2>2. \A j : OutSet(graph', queue'.shared[j]) = OutSet(graph, queue.shared[j])
    BY <1>2
  <2>3. \A s \in Threads : s = t \/ Ahead'[s] = Ahead[s]
    BY <1>7
  <2>4. OutSet(graph, queue.shared[i]) \subseteq Ahead'[t]
    BY <1>7 DEF p
  <2> SUFFICES ASSUME NEW v \in Pending  PROVE v \in Pending'
    OBVIOUS
  <2>5. CASE \E j \in todo : v \in OutSet(graph, queue.shared[j])
    BY <2>1, <2>2, <2>4, <2>5 DEF Pending
  <2>6. CASE \E s \in Threads : v \in Ahead[s]
    BY <1>8, <2>3, <2>6 DEF Pending
  <2> QED BY <2>5, <2>6 DEF Pending
<1>10. ThreadAt(d, t)'
  BY <1>2, <1>3, <1>6, Rigid DEF ThreadAt
<1> QED BY <1>1, <1>2, <1>4, <1>5, <1>6, <1>9, <1>10, ThreadKeeps

\* A thread that has an edge to look at is in a top-down level.
LEMMA InTopDown ==
  ASSUME Data, NEW d \in 0 .. N, InvAt(d), NEW t \in Threads, pc[t] \in {"next", "cas"}
  PROVE  /\ phase = "topDown" /\ AtTopDown(d) /\ ThreadAt(d, t)
         /\ u[t] \in AtDepth(d) /\ u[t] \in NodeID /\ k[t] \in Nat
         /\ OutDegree(graph, u[t]) \in Nat
         /\ \A i \in 1 .. OutDegree(graph, u[t]) : OutNeigh(graph, u[t])[i] \in NodeID
<1>1. phase = "topDown"
  BY DEF InvAt, AtTest, AtBottomUp, AtToQueue, AtDone, Idle
<1>2. AtTopDown(d) /\ ThreadAt(d, t)
  BY <1>1 DEF InvAt, AtTopDown, ThreadAt
<1>3. u[t] \in AtDepth(d) /\ u[t] \in NodeID /\ k[t] \in Nat
  BY <1>2 DEF ThreadAt, Data, LocalsOK
<1>4. OutNeigh(graph, u[t]) \in Seq(NodeID)
  BY <1>3, DOBFSAssumption DEF Data, Inputs, IsGraph, OutNeigh
<1> QED BY <1>1, <1>2, <1>3, <1>4 DEF OutDegree

\* Pending when one thread moves and nothing leaves todo.
LEMMA PendingOfOthers ==
  ASSUME NEW t \in Threads, UNCHANGED <<graph, todo>>,
         \A j \in todo : queue'.shared[j] = queue.shared[j],
         \A s \in Threads : s # t => pc'[s] = pc[s] /\ u'[s] = u[s] /\ k'[s] = k[s],
         NEW S, Ahead[t] \subseteq Ahead'[t] \union S
  PROVE  Pending \subseteq Pending' \union S
<1>1. \A s \in Threads : s # t => Ahead'[s] = Ahead[s]
  BY DEF Ahead
<1>2. \A j \in todo : OutSet(graph', queue'.shared[j]) = OutSet(graph, queue.shared[j])
  OBVIOUS
<1> QED BY <1>1, <1>2 DEF Pending

LEMMA EndElementKeeps ==
  ASSUME Data, NEW d \in 0 .. N, InvAt(d), NEW t \in Threads, EndElement(t)
  PROVE  Data' /\ InvAt(d)'
<1>1. pc[t] = "next" /\ k[t] = OutDegree(graph, u[t])
  BY DEF EndElement
<1>2. phase = "topDown" /\ k[t] \in Nat
  BY <1>1, InTopDown
<1>3. UNCHANGED <<graph, source, parent, queue, lqueue, front, count, phase, todo, curr_val, word>>
  BY DEF EndElement, inputs, bitmaps
<1>4. u' = [u EXCEPT ![t] = 0] /\ k' = [k EXCEPT ![t] = 0] /\ pc' = [pc EXCEPT ![t] = "idle"]
  BY DEF EndElement, Goto
<1>5. LocalsOK'
  <2>1. 0 \in NodeID
    BY NAssumption DEF NodeID
  <2> QED BY <1>3, <1>4, <2>1 DEF LocalsOK, Data, Locations
<1>6. /\ pc'[t] = "idle"
      /\ \A s \in Threads : s # t => u'[s] = u[s] /\ k'[s] = k[s] /\ pc'[s] = pc[s]
  BY <1>4 DEF LocalsOK, Data
<1>7. Ahead[t] = {}
  <2>1. \A j : j \notin (k[t] + 1) .. OutDegree(graph, u[t])
    BY <1>1, <1>2
  <2> QED BY <1>1, <2>1 DEF Ahead, AheadOf
<1>8. Pending \subseteq Pending' \union Visited
  BY <1>3, <1>6, <1>7, PendingOfOthers
<1>9. ThreadAt(d, t)'
  BY <1>6 DEF ThreadAt
<1> QED BY <1>2, <1>3, <1>5, <1>6, <1>8, <1>9, ThreadKeeps

LEMMA ReadParentKeeps ==
  ASSUME Data, NEW d \in 0 .. N, InvAt(d), NEW t \in Threads, ReadParent(t)
  PROVE  Data' /\ InvAt(d)'
<1> DEFINE i == k[t] + 1
           list == OutNeigh(graph, u[t])
           v == list[i]
<1>1. pc[t] = "next" /\ k[t] < OutDegree(graph, u[t])
  BY DEF ReadParent
<1>2. /\ phase = "topDown" /\ u[t] \in AtDepth(d) /\ k[t] \in Nat
      /\ OutDegree(graph, u[t]) \in Nat
      /\ \A j \in 1 .. OutDegree(graph, u[t]) : list[j] \in NodeID
  BY <1>1, InTopDown
<1>3. i \in 1 .. OutDegree(graph, u[t]) /\ v \in NodeID
  BY <1>1, <1>2
<1>4. /\ UNCHANGED <<graph, source, parent, queue, lqueue, front, count, phase, todo, u, word>>
      /\ k' = [k EXCEPT ![t] = i]
  BY DEF ReadParent, inputs, bitmaps
<1>5. parent[v] \in Int /\ (parent[v] < 0 => parent[v] = InitParent(v))
  BY <1>2, <1>3 DEF Data, ParentInv
<1>6. k'[t] = i /\ \A s \in Threads : s # t => k'[s] = k[s]
  BY <1>4 DEF LocalsOK, Data
<1>7. CASE parent[v] < 0
  <2>1. curr_val' = [curr_val EXCEPT ![t] = parent[v]] /\ pc' = [pc EXCEPT ![t] = "cas"]
    BY <1>7 DEF ReadParent, Goto
  <2>2. LocalsOK'
    BY <1>2, <1>4, <1>5, <2>1 DEF LocalsOK, Data, Locations
  <2>3. /\ pc'[t] = "cas" /\ curr_val'[t] = InitParent(v)
        /\ \A s \in Threads : s # t => pc'[s] = pc[s] /\ curr_val'[s] = curr_val[s]
    BY <1>5, <1>7, <2>1 DEF LocalsOK, Data
  <2>4. Ahead'[t] = Ahead[t]
    <3>1. Ahead'[t] = AheadOf(graph, "cas", u[t], i) /\ Ahead[t] = AheadOf(graph, "next", u[t], k[t])
      BY <1>1, <1>4, <1>6, <2>3 DEF Ahead
    <3> QED BY <3>1 DEF AheadOf
  <2>5. Pending \subseteq Pending' \union Visited
    <3> HIDE DEF i, v
    <3> QED BY <1>4, <1>6, <2>3, <2>4, PendingOfOthers
  <2>6. ThreadAt(d, t)'
    <3>1. /\ pc'[t] \in {"idle", "next", "cas"}
          /\ u'[t] \in AtDepth(d)' /\ k'[t] <= OutDegree(graph', u'[t])
      BY <1>2, <1>3, <1>4, <1>6, <2>3, Rigid
    <3>2. AtCas(t)'
      <4>1. k'[t] # 0
        BY <1>2, <1>6
      <4>2. OutNeigh(graph', u'[t])[k'[t]] = v
        BY <1>4, <1>6
      <4> HIDE DEF i, v
      <4> QED BY <1>4, <2>3, <4>1, <4>2, Rigid DEF AtCas
    <3> QED BY <3>1, <3>2 DEF ThreadAt
  <2> HIDE DEF i, v
  <2> QED BY <1>2, <1>4, <1>6, <2>2, <2>3, <2>5, <2>6, ThreadKeeps
<1>8. CASE ~ (parent[v] < 0)
  <2>1. UNCHANGED <<curr_val, pc>>
    BY <1>8 DEF ReadParent
  <2>2. LocalsOK'
    BY <1>2, <1>4, <2>1 DEF LocalsOK, Data, Locations
  <2>3. v \in Visited
    BY <1>3, <1>5, <1>8 DEF Visited
  <2>4. Ahead[t] \subseteq Ahead'[t] \union Visited
    <3>1. Ahead'[t] = AheadOf(graph, "next", u[t], i) /\ Ahead[t] = AheadOf(graph, "next", u[t], k[t])
      BY <1>1, <1>4, <1>6, <2>1 DEF Ahead
    <3>2. \A j \in (k[t] + 1) .. OutDegree(graph, u[t]) :
            j = i \/ j \in (i + 1) .. OutDegree(graph, u[t])
      BY <1>2
    <3> HIDE DEF i
    <3> QED BY <2>3, <3>1, <3>2 DEF AheadOf
  <2>5. Pending \subseteq Pending' \union Visited
    <3> HIDE DEF i, v
    <3> QED BY <1>4, <1>6, <2>1, <2>4, PendingOfOthers
  <2>6. ThreadAt(d, t)'
    <3>1. u'[t] \in AtDepth(d)' /\ k'[t] <= OutDegree(graph', u'[t])
      BY <1>2, <1>3, <1>4, <1>6, <2>1, Rigid
    <3> QED BY <1>1, <2>1, <3>1 DEF ThreadAt
  <2> HIDE DEF i, v
  <2> QED BY <1>2, <1>4, <1>6, <2>1, <2>2, <2>5, <2>6, ThreadKeeps
<1> QED BY <1>7, <1>8

LEMMA CompareAndSwapKeeps ==
  ASSUME Data, NEW d \in 0 .. N, InvAt(d), NEW t \in Threads, CompareAndSwap(t)
  PROVE  Data' /\ InvAt(d)' /\ (UNCHANGED parent \/ Adoption(d))
<1> DEFINE list == OutNeigh(graph, u[t])
           v == list[k[t]]
<1>1. pc[t] = "cas"
  BY DEF CompareAndSwap
<1>2. /\ phase = "topDown" /\ AtTopDown(d) /\ u[t] \in AtDepth(d) /\ u[t] \in NodeID
      /\ k[t] \in Nat /\ OutDegree(graph, u[t]) \in Nat
      /\ \A j \in 1 .. OutDegree(graph, u[t]) : list[j] \in NodeID
      /\ k[t] <= OutDegree(graph, u[t]) /\ AtCas(t)
  BY <1>1, InTopDown DEF ThreadAt
<1>3. k[t] \in 1 .. OutDegree(graph, u[t]) /\ v \in NodeID /\ curr_val[t] = InitParent(v)
  BY <1>2 DEF AtCas
<1>4. /\ UNCHANGED <<graph, source, front, phase, todo, u, k, word>>
      /\ curr_val' = [curr_val EXCEPT ![t] = 0] /\ pc' = [pc EXCEPT ![t] = "next"]
  BY DEF CompareAndSwap, inputs, bitmaps, Goto
<1>5. /\ pc'[t] = "next"
      /\ \A s \in Threads : s # t => pc'[s] = pc[s] /\ curr_val'[s] = curr_val[s]
  BY <1>4 DEF LocalsOK, Data
<1>6. Ahead[t] \subseteq Ahead'[t] \union {v}
  <2>1. Ahead'[t] = AheadOf(graph, "next", u[t], k[t]) /\ Ahead[t] = AheadOf(graph, "cas", u[t], k[t])
    BY <1>1, <1>4, <1>5 DEF Ahead
  <2>2. \A j \in k[t] .. OutDegree(graph, u[t]) :
          j = k[t] \/ j \in (k[t] + 1) .. OutDegree(graph, u[t])
    BY <1>2
  <2> QED BY <2>1, <2>2 DEF AheadOf
<1>7. ThreadAt(d, t)'
  BY <1>2, <1>4, <1>5, Rigid DEF ThreadAt
<1>8. ASSUME count' \in Nat  PROVE LocalsOK'
  BY <1>4, <1>8 DEF LocalsOK, Data, Locations
<1>9. parent[v] \in Int /\ (parent[v] < 0 => parent[v] = InitParent(v))
      /\ InitParent(v) \in Int /\ InitParent(v) < 0 /\ - InitParent(v) = Cost(graph, {v}, v)
  BY <1>2, <1>3, InitParentNegative DEF Data, ParentInv
<1>10. CASE parent[v] # curr_val[t]
  <2>1. UNCHANGED <<parent, queue, lqueue, count>>
    BY <1>10 DEF CompareAndSwap
  <2>2. v \in Visited
    BY <1>3, <1>9, <1>10 DEF Visited
  <2>3. LocalsOK'
    BY <1>8, <2>1 DEF LocalsOK, Data
  <2> HIDE DEF v
  <2>4. Pending \subseteq Pending' \union Visited
    <3>1. Ahead[t] \subseteq Ahead'[t] \union Visited
      BY <1>6, <2>2
    <3> QED BY <1>4, <1>5, <2>1, <3>1, PendingOfOthers
  <2> QED BY <1>2, <1>4, <1>5, <1>7, <2>1, <2>3, <2>4, ThreadKeeps
<1>11. CASE parent[v] = curr_val[t]
  <2>1. parent' = [parent EXCEPT ![v] = u[t]] /\ PushLocal(t, v) /\ count' = count - curr_val[t]
    BY <1>11 DEF CompareAndSwap
  <2>2. v \notin Visited
    BY <1>3, <1>9, <1>11 DEF Visited
  <2>3. Occurs(v, list)
    BY <1>3 DEF Occurs, OutDegree
  <2> HIDE DEF v
  <2>4. v \in AtDepth(Deeper(d))
    <3>1. v \in Reached[Deeper(d)] /\ v \notin Reached[d]
      BY <1>2, <1>3, <2>2, <2>3, LevelFacts DEF Data, AtTopDown
    <3> QED BY <3>1, LevelFacts DEF Data
  <2>5. ParentInv' /\ Visited' = Visited \union {v}
    BY <1>2, <1>4, <2>1, <2>2, <2>3, <2>4, Adopts DEF Data
  <2>6. v \notin Stored /\ v \notin Pushed
    <3>1. Stored = Old \union New
      BY StoredSplit DEF Data
    <3> QED BY <1>2, <2>2, <3>1 DEF AtTopDown, Pushed
  <2>7. QueueInv' /\ Appended /\ Pushed' = Pushed \union {v}
    BY <1>3, <2>1, <2>6, PushKeeps DEF Data
  <2>8. /\ Old' = Old /\ Elements(queue)' = Elements(queue)
        /\ \A c \in 0 .. (queue.end - 1) : queue'.shared[c] = queue.shared[c]
    BY <2>7, AppendedKeeps DEF Data
  <2>9. count' = EdgesOf(graph, Pushed') /\ count' \in Nat
    <3>1. IsGraph(graph) /\ count \in Nat
      BY DOBFSAssumption DEF Data, Inputs, LocalsOK
    <3>2. EdgesOf(graph, Pushed \union {v}) = EdgesOf(graph, Pushed) + Cost(graph, {v}, v)
      BY <1>3, <2>6, <3>1, EdgesOfOneMore
    <3>3. count = EdgesOf(graph, Pushed)
      BY <1>2 DEF AtTopDown
    <3>4. Cost(graph, {v}, v) = - curr_val[t] /\ curr_val[t] \in Int /\ curr_val[t] < 0
      BY <1>3, <1>9
    <3>5. count' = count + Cost(graph, {v}, v) /\ count' \in Nat
      BY <2>1, <3>1, <3>4
    <3> QED BY <2>7, <3>2, <3>3, <3>5
  <2>10. \A j \in todo : queue'.shared[j] = queue.shared[j]
    <3>1. \A j \in todo : j \in 0 .. (queue.end - 1)
      <4>1. queue.start \in Nat /\ queue.end \in Nat
        BY DEF Data, QueueInv, Queues
      <4> QED BY <1>2, <4>1 DEF AtTopDown
    <3> QED BY <2>8, <3>1
  <2>11. Pending \subseteq Pending' \union {v}
    BY <1>4, <1>5, <1>6, <2>10, PendingOfOthers
  <2>12. \A s \in Threads : ThreadAt(d, s)'
    <3> TAKE s \in Threads
    <3>1. CASE s # t
      <4>1. ThreadAt(d, s) /\ UNCHANGED <<pc[s], u[s], k[s], curr_val[s], graph, source>>
        BY <1>2, <1>4, <1>5, <3>1 DEF AtTopDown, ThreadAt
      <4> QED BY <4>1, Rigid DEF ThreadAt, AtCas, OutNeigh, OutDegree
    <3> QED BY <1>7, <3>1
  <2>13. AtTopDown(d)'
    <3>1. Elements(queue)' = AtDepth(d)' /\ Old' \subseteq Reached'[d]
      BY <1>2, <1>4, <2>8, Rigid DEF AtTopDown
    <3>2. /\ Reached'[d] \subseteq Visited' /\ Visited' \subseteq Reached'[Deeper(d)]
          /\ Pushed' = Visited' \ Reached'[d] /\ front' \subseteq Reached'[d]
      <4>1. v \notin Reached[d] /\ v \in Reached[Deeper(d)]
        BY <2>4, LevelFacts DEF Data
      <4> QED BY <1>2, <1>4, <2>5, <2>7, <4>1, Rigid DEF AtTopDown
    <3>3. todo' \subseteq queue'.start .. (queue'.end - 1)
      BY <1>2, <1>4, <2>7 DEF AtTopDown, Appended
    <3>4. AtDepth(Deeper(d))' \subseteq Visited' \union Pending'
      BY <1>2, <1>4, <2>5, <2>11, Rigid DEF AtTopDown
    <3> QED BY <1>4, <2>9, <2>12, <3>1, <3>2, <3>3, <3>4 DEF AtTopDown, ThreadAt
  <2>14. LocalsOK' /\ Inputs'
    BY <1>4, <1>8, <2>9, Rigid DEF Data
  <2>15. Adoption(d)
    BY <1>2, <2>1, <2>2, <2>3, <2>4 DEF Adoption
  <2> QED BY <1>2, <1>4, <2>5, <2>7, <2>13, <2>14, <2>15 DEF Data, InvAt
<1> QED BY <1>10, <1>11

\* Where the region ends nothing is pending and the buffers are empty.
LEMMA EndTopDownKeeps ==
  ASSUME Data, NEW d \in 0 .. N, InvAt(d), EndTopDown
  PROVE  Data' /\ InvAt(Deeper(d))'
<1> DEFINE e == Deeper(d)
<1>1. phase = "topDown" /\ AtTopDown(d) /\ todo = {} /\ phase' = "test" /\ count' = 0
      /\ \A t \in Threads : pc[t] = "idle" /\ lqueue[t] = << >>
  BY DEF EndTopDown, RegionDone, InvAt
<1>2. /\ UNCHANGED <<graph, source, parent, lqueue, front, pc, u, k, curr_val, word>>
      /\ queue' = SlideWindow(queue)
  BY DEF EndTopDown, inputs, bitmaps, locals
<1>3. Inputs' /\ ParentInv' /\ Visited' = Visited
  BY <1>1, <1>2, SameParent, Rigid DEF Data
<1>4. /\ QueueInv' /\ Stored' = Stored /\ New' = {} /\ Buffers' = Buffers
      /\ Elements(queue)' = New
  BY <1>2, SlideKeeps DEF Data
<1>5. \A t \in Threads : Ahead[t] = {} /\ Buffers[t] = {}
  BY <1>1 DEF Ahead, AheadOf, Buffers
<1>6. Pending = {} /\ Pushed = New /\ Pushed' = {}
  BY <1>1, <1>4, <1>5 DEF Pending, Pushed
<1>7. Visited = Reached[e] /\ New = AtDepth(e)
  <2>1. /\ AtDepth(e) = Reached[e] \ Reached[d] /\ Reached[d] \subseteq Visited
        /\ AtDepth(e) \subseteq Visited /\ Visited \subseteq Reached[e]
        /\ New = Visited \ Reached[d]
    BY <1>1, <1>6, LevelFacts DEF Data, AtTopDown
  <2> QED BY <2>1
<1>8. Stored \subseteq Reached[e] /\ front \subseteq Reached[e] /\ e \in 0 .. N
  <2>1. Stored = Old \union New
    BY StoredSplit DEF Data
  <2> QED BY <1>1, <1>7, <2>1, LevelFacts DEF Data, AtTopDown
<1> HIDE DEF e
<1>9. AtTest(e)'
  BY <1>1, <1>2, <1>3, <1>4, <1>6, <1>7, <1>8, Rigid DEF AtTest, Idle
<1>10. LocalsOK'
  BY <1>1, <1>2 DEF LocalsOK, Data
<1>11. Data' /\ InvAt(e)'
  BY <1>1, <1>3, <1>4, <1>9, <1>10 DEF Data, InvAt
<1> QED BY <1>11 DEF e

LEMMA GoTopDownKeeps ==
  ASSUME Data, NEW d \in 0 .. N, InvAt(d), GoTopDown
  PROVE  Data' /\ InvAt(d)'
<1>1. /\ phase = "test" /\ AtTest(d) /\ phase' = "topDown" /\ count' = 0
      /\ todo' = queue.start .. (queue.end - 1)
  BY DEF GoTopDown, InvAt
<1>2. UNCHANGED <<graph, source, parent, queue, lqueue, front, pc, u, k, curr_val, word>>
  BY DEF GoTopDown, inputs, bitmaps, locals
<1>3. Inputs' /\ ParentInv' /\ QueueInv' /\ Visited' = Visited
  BY <1>1, <1>2, SameParent, SameQueue, Rigid DEF Data
<1>4. LocalsOK'
  BY <1>1, <1>2 DEF LocalsOK, Data
<1>5. count' = EdgesOf(graph', Pushed')
  <2>1. EdgesOf(graph, {}) = 0
    BY EdgesOfNone, DOBFSAssumption DEF Data, Inputs
  <2> QED BY <1>1, <1>2, <2>1, SameQueue DEF AtTest
<1>6. AtDepth(Deeper(d)) \subseteq Pending'
  <2> SUFFICES ASSUME NEW v \in AtDepth(Deeper(d))  PROVE v \in Pending'
    OBVIOUS
  <2>1. v \in NodeID
    BY LevelFacts DEF Data
  <2>2. PICK p \in AtDepth(d) : Occurs(v, OutNeigh(graph, p))
    BY LevelFacts DEF Data
  <2>3. PICK i \in todo' : queue.shared[i] = p
    BY <1>1 DEF AtTest, Elements
  <2>4. v \in OutSet(graph', queue'.shared[i])
    BY <1>2, <2>2, <2>3 DEF OutSet, Occurs, OutDegree
  <2> QED BY <2>1, <2>4 DEF Pending
<1>7. AtTopDown(d)'
  <2>1. Elements(queue)' = AtDepth(d)' /\ Old' \subseteq Reached'[d] /\ front' \subseteq Reached'[d]
    <3>1. Old \subseteq Stored
      BY StoredSplit DEF Data
    <3> QED BY <1>1, <1>2, <3>1, SameQueue, Rigid DEF AtTest
  <2>2. /\ Reached'[d] \subseteq Visited' /\ Visited' \subseteq Reached'[Deeper(d)]
        /\ Pushed' = Visited' \ Reached'[d]
    BY <1>1, <1>2, <1>3, SameQueue, Rigid, LevelFacts DEF AtTest, Data
  <2>3. \A t \in Threads : pc'[t] = "idle"
    BY <1>1, <1>2 DEF AtTest, Idle
  <2>4. AtDepth(Deeper(d))' \subseteq Visited' \union Pending'
    BY <1>2, <1>6, Rigid
  <2> QED BY <1>1, <1>2, <1>5, <2>1, <2>2, <2>3, <2>4 DEF AtTopDown
<1> QED BY <1>1, <1>3, <1>4, <1>7 DEF Data, InvAt

LEMMA GoBottomUpKeeps ==
  ASSUME Data, NEW d \in 0 .. N, InvAt(d), GoBottomUp
  PROVE  Data' /\ InvAt(d)'
<1>1. /\ phase = "test" /\ AtTest(d) /\ phase' = "bottomUp" /\ count' = 0 /\ todo' = Chunks
      /\ front' = front \union Elements(queue) /\ curr' = {} /\ queue.start # queue.end
  BY DEF GoBottomUp, InvAt, StartBottomUp, QueueToBitmap
<1>2. /\ UNCHANGED <<graph, source, parent, lqueue, pc, u, k, curr_val, word>>
      /\ queue' = SlideWindow(queue)
  BY DEF GoBottomUp, inputs, locals
<1>3. Inputs' /\ ParentInv' /\ Visited' = Visited
  BY <1>1, <1>2, SameParent, Rigid DEF Data
<1>4. QueueInv' /\ Stored' = Stored /\ New' = {} /\ Buffers' = Buffers
  BY <1>2, SlideKeeps DEF Data
<1>5. Pushed' = {}
  BY <1>1, <1>4 DEF AtTest, Pushed
<1>6. /\ AtDepth(d) # {} /\ AtDepth(d) \subseteq front'
      /\ front' \subseteq Reached[d] /\ front' \subseteq NodeID
  <2>1. queue.start \in queue.start .. (queue.end - 1)
    BY <1>1 DEF Data, QueueInv, Queues
  <2>2. Elements(queue) # {}
    BY <2>1 DEF Elements
  <2> QED BY <1>1, <2>2, LevelFacts DEF AtTest, Data
<1>7. LocalsOK'
  BY <1>1, <1>2, <1>6 DEF LocalsOK, Data
<1>8. \A t \in Threads : pc'[t] = "idle"
  BY <1>1, <1>2 DEF AtTest, Idle
<1>9. Unlooked' = NodeID /\ BitsToCome' = {}
  BY <1>1, <1>8, ChunkBegins DEF Unlooked, BitsToCome
<1>10. AtBottomUp(d)'
  <2>1. /\ AtDepth(d)' \subseteq front' /\ front' \subseteq Reached'[d] /\ AtDepth(d)' # {}
        /\ Stored' \subseteq Reached'[d]
    BY <1>1, <1>2, <1>4, <1>6, Rigid DEF AtTest
  <2>2. /\ Reached'[d] \subseteq Visited' /\ Visited' \subseteq Reached'[Deeper(d)]
        /\ curr' \union BitsToCome' = Visited' \ Reached'[d]
    BY <1>1, <1>2, <1>3, <1>9, Rigid, LevelFacts DEF AtTest, Data
  <2>3. AtDepth(Deeper(d))' \subseteq Visited' \union Unlooked'
    BY <1>2, <1>9, Rigid, LevelFacts DEF Data
  <2> QED BY <1>1, <1>5, <1>8, <2>1, <2>2, <2>3 DEF AtBottomUp
<1> QED BY <1>1, <1>3, <1>4, <1>7, <1>10 DEF Data, InvAt

LEMMA FinishKeeps ==
  ASSUME Data, NEW d \in 0 .. N, InvAt(d), Finish
  PROVE  Data' /\ InvAt(d)'
<1>1. /\ phase = "test" /\ AtTest(d) /\ phase' = "done" /\ queue.start = queue.end
      /\ parent' = [n \in NodeID |-> IF parent[n] < -1 THEN -1 ELSE parent[n]]
  BY DEF Finish, InvAt
<1>2. UNCHANGED <<graph, source, queue, lqueue, front, count, pc, u, k, curr_val, word>>
  BY DEF Finish, inputs, bitmaps, locals
<1>3. Inputs' /\ QueueInv' /\ LocalsOK'
  BY <1>2, SameQueue, Rigid DEF Data, LocalsOK
<1>4. /\ \A n \in NodeID : parent[n] \in Int /\ parent[n] < N
      /\ \A n \in NodeID : parent'[n] = IF parent[n] < -1 THEN -1 ELSE parent[n]
  BY <1>1 DEF Data, ParentInv
<1>5. parent' \in [NodeID -> Int]
  BY <1>1, <1>4
<1>6. \A n \in NodeID : parent'[n] < N /\ (parent'[n] < 0 => parent'[n] = -1)
                        /\ (parent'[n] >= 0 <=> parent[n] >= 0)
                        /\ (parent[n] >= 0 => parent'[n] = parent[n])
  BY <1>4, NAssumption
<1>7. Visited' = Visited
  BY <1>6 DEF Visited
<1>8. source \in NodeID /\ source >= 0
  BY NAssumption DEF Data, Inputs, NodeID
<1>9. TreeInv'
  BY <1>2, <1>6, <1>7, <1>8, Rigid DEF Data, ParentInv, TreeInv, Visited, InNeigh
<1>10. ParentInv'
  BY <1>1, <1>5, <1>6, <1>9 DEF ParentInv
<1>11. Elements(queue) = {}
  <2>1. \A i : i \notin queue.start .. (queue.end - 1)
    BY <1>1 DEF Data, QueueInv, Queues
  <2> QED BY <2>1 DEF Elements
<1>12. Reached[d] = Reached[N]
  BY <1>1, <1>11, LevelFacts DEF AtTest, Data
<1>13. AtDone'
  BY <1>1, <1>2, <1>7, <1>11, <1>12, SameQueue, Rigid DEF AtDone, AtTest, Idle
<1> QED BY <1>1, <1>3, <1>10, <1>13 DEF Data, InvAt

LEMMA LastFlushKeeps ==
  ASSUME Data, NEW d \in 0 .. N, InvAt(d), NEW t \in Threads, LastFlush(t)
  PROVE  Data' /\ InvAt(d)'
<1>1. /\ phase \in {"topDown", "toQueue"} /\ todo = {} /\ FlushTo(t, queue)
      /\ lqueue' = [lqueue EXCEPT ![t] = << >>]
  BY DEF LastFlush
<1>2. UNCHANGED <<graph, source, parent, front, phase, todo, count, pc, u, k, curr_val, word>>
  BY DEF LastFlush, inputs, bitmaps
<1>3. Inputs' /\ ParentInv' /\ Visited' = Visited
  BY <1>1, <1>2, SameParent, Rigid DEF Data
<1>4. QueueInv' /\ Appended /\ Pushed' = Pushed
  <2> DEFINE b == << >>
  <2>1. /\ b \in Seq(NodeID) /\ Len(b) <= 1 /\ {b[i] : i \in 1 .. Len(b)} = {}
        /\ \A i \in 1 .. Len(b) : b[i] \notin Stored /\ b[i] \notin Pushed
    OBVIOUS
  <2>2. lqueue' = [lqueue EXCEPT ![t] = b]
    BY <1>1
  <2> HIDE DEF b
  <2>3. QueueInv' /\ Appended /\ Pushed' = Pushed \union {b[i] : i \in 1 .. Len(b)}
    BY <1>1, <2>1, <2>2, FlushKeeps DEF Data
  <2> QED BY <2>1, <2>3
<1>5. Old' = Old /\ Elements(queue)' = Elements(queue)
  BY <1>4, AppendedKeeps DEF Data
<1>6. LocalsOK'
  BY <1>2 DEF LocalsOK, Data
<1>7. CASE phase = "topDown"
  <2>1. AtTopDown(d)
    BY <1>7 DEF InvAt
  <2>2. Ahead' = Ahead
    BY <1>2 DEF Ahead
  <2>3. Pending' = Pending
    BY <1>1, <1>2, <2>2 DEF Pending
  <2>4. \A s \in Threads : ThreadAt(d, s)'
    <3> TAKE s \in Threads
    <3>1. ThreadAt(d, s) /\ UNCHANGED <<pc[s], u[s], k[s], curr_val[s], graph, source>>
      BY <1>2, <2>1 DEF AtTopDown, ThreadAt
    <3> QED BY <3>1, Rigid DEF ThreadAt, AtCas, OutNeigh, OutDegree
  <2>5. /\ Elements(queue)' = AtDepth(d)' /\ Old' \subseteq Reached'[d]
        /\ Reached'[d] \subseteq Visited' /\ Visited' \subseteq Reached'[Deeper(d)]
        /\ Pushed' = Visited' \ Reached'[d] /\ front' \subseteq Reached'[d]
        /\ count' = EdgesOf(graph', Pushed')
    BY <1>2, <1>3, <1>4, <1>5, <2>1, Rigid DEF AtTopDown
  <2>6. todo' \subseteq queue'.start .. (queue'.end - 1)
    BY <1>1, <1>2
  <2>7. AtDepth(Deeper(d))' \subseteq Visited' \union Pending'
    BY <1>2, <1>3, <2>1, <2>3, Rigid DEF AtTopDown
  <2>8. AtTopDown(d)'
    BY <2>4, <2>5, <2>6, <2>7 DEF AtTopDown, ThreadAt
  <2> QED BY <1>2, <1>3, <1>4, <1>6, <1>7, <2>8 DEF Data, InvAt
<1>8. CASE phase = "toQueue"
  <2>1. AtToQueue(d)
    BY <1>8 DEF InvAt
  <2>2. AtToQueue(d)'
    BY <1>2, <1>3, <1>4, <1>5, <2>1, Rigid DEF AtToQueue, Idle
  <2> QED BY <1>2, <1>3, <1>4, <1>6, <1>8, <2>2 DEF Data, InvAt
<1> QED BY <1>1, <1>7, <1>8

-----------------------------------------------------------------------------
(* The steps of a bottom-up level. *)

\* What the invariant says of a thread.
ChunkAt(t) ==
  /\ pc[t] \in {"idle", "look", "readWord", "writeWord"}
  /\ pc[t] # "idle" => ChunkOf(u[t]) \notin todo
  /\ pc[t] = "writeWord" => word[t] = curr \intersect WordOf(u[t])
  /\ \A s \in Threads : s # t /\ pc[s] # "idle" /\ pc[t] # "idle" => ChunkOf(u[s]) # ChunkOf(u[t])

SameWord(v) == curr' \intersect WordOf(v) = curr \intersect WordOf(v)

\* A step of a thread, which leaves nobody out and changes no word read by others.
LEMMA ChunkKeeps ==
  ASSUME Data, NEW d \in 0 .. N, InvAt(d), NEW t \in Threads, phase = "bottomUp",
         UNCHANGED <<graph, source, queue, lqueue, front, phase>>,
         LocalsOK', ParentInv', todo' \subseteq todo,
         Visited \subseteq Visited', Visited' \subseteq Reached[Deeper(d)],
         \A s \in Threads : s # t => pc'[s] = pc[s] /\ u'[s] = u[s] /\ word'[s] = word[s],
         \A s \in Threads : s # t /\ pc[s] = "writeWord" => SameWord(u[s]),
         ChunkAt(t)',
         curr' \union BitsToCome' = Visited' \ Reached[d],
         Unlooked \intersect AtDepth(Deeper(d)) \subseteq Unlooked' \union Visited'
  PROVE  Data' /\ InvAt(d)'
<1>1. AtBottomUp(d)
  BY DEF InvAt
<1>2. Inputs' /\ QueueInv'
  BY SameQueue, Rigid DEF Data
<1>3. \A s \in Threads : ChunkAt(s)'
  <2> TAKE s \in Threads
  <2>1. CASE s # t
    <3>1. ChunkAt(s)
      BY <1>1 DEF AtBottomUp, ChunkAt
    <3>10. /\ pc'[s] = pc[s] /\ u'[s] = u[s] /\ word'[s] = word[s]
           /\ pc[s] = "writeWord" => SameWord(u[s])
      BY <2>1
    <3>2. /\ pc'[s] \in {"idle", "look", "readWord", "writeWord"}
          /\ pc'[s] # "idle" => ChunkOf(u'[s]) \notin todo'
      BY <3>1, <3>10 DEF ChunkAt
    <3>3. pc'[s] = "writeWord" => word'[s] = curr' \intersect WordOf(u'[s])
      BY <3>1, <3>10 DEF ChunkAt, SameWord
    <3>4. ASSUME NEW r \in Threads, r # s, pc'[r] # "idle", pc'[s] # "idle"
          PROVE  ChunkOf(u'[r]) # ChunkOf(u'[s])
      <4>1. CASE r = t
        BY <2>1, <3>4, <4>1 DEF ChunkAt
      <4>2. CASE r # t
        <5>1. pc'[r] = pc[r] /\ u'[r] = u[r]
          BY <4>2
        <5> QED BY <3>1, <3>10, <3>4, <5>1 DEF ChunkAt
      <4> QED BY <4>1, <4>2
    <3> QED BY <3>2, <3>3, <3>4 DEF ChunkAt
  <2> QED BY <2>1
<1>4. AtBottomUp(d)'
  <2>1. /\ AtDepth(d)' \subseteq front' /\ front' \subseteq Reached'[d]
        /\ (AtDepth(d)' = {} => front' = {})
        /\ Stored' \subseteq Reached'[d] /\ Pushed' = {} /\ todo' \subseteq Chunks
    BY <1>1, SameQueue, Rigid DEF AtBottomUp
  <2>2. /\ Reached'[d] \subseteq Visited' /\ Visited' \subseteq Reached'[Deeper(d)]
        /\ curr' \union BitsToCome' = Visited' \ Reached'[d]
    BY <1>1, Rigid DEF AtBottomUp
  <2>3. AtDepth(Deeper(d))' \subseteq Visited' \union Unlooked'
    BY <1>1, Rigid DEF AtBottomUp
  <2> QED BY <1>3, <2>1, <2>2, <2>3 DEF AtBottomUp, ChunkAt
<1> QED BY <1>2, <1>4 DEF Data, InvAt

\* A thread that has a vertex of a chunk is in a bottom-up level.
LEMMA InBottomUp ==
  ASSUME Data, NEW d \in 0 .. N, InvAt(d), NEW t \in Threads, pc[t] \in {"look", "readWord", "writeWord"}
  PROVE  /\ phase = "bottomUp" /\ AtBottomUp(d) /\ ChunkAt(t) /\ u[t] \in NodeID
         /\ \A s \in Threads : s # t /\ pc[s] # "idle" => ChunkOf(u[s]) # ChunkOf(u[t])
<1>1. phase = "bottomUp"
  BY DEF InvAt, AtTest, AtTopDown, AtToQueue, AtDone, Idle
<1>2. AtBottomUp(d)
  BY <1>1 DEF InvAt
<1>3. \A s \in Threads : ChunkAt(s)
  BY <1>2 DEF AtBottomUp, ChunkAt
<1> QED BY <1>1, <1>2, <1>3 DEF ChunkAt, Data, LocalsOK

LEMMA TakeChunkKeeps ==
  ASSUME Data, NEW d \in 0 .. N, InvAt(d), NEW t \in Threads, NEW c \in todo, TakeChunk(t, c)
  PROVE  Data' /\ InvAt(d)'
<1> DEFINE v == c * ChunkSize
<1>1. phase = "bottomUp" /\ pc[t] = "idle" /\ AtBottomUp(d) /\ c \in Chunks
  BY DEF TakeChunk, InvAt, AtBottomUp
<1>2. v \in NodeID /\ ChunkOf(v) = c /\ \A w \in NodeID : ChunkOf(w) = c => w >= v
  BY <1>1, ChunkBegins
<1>3. /\ UNCHANGED <<graph, source, parent, queue, lqueue, front, curr, phase, count, k, curr_val, word>>
      /\ u' = [u EXCEPT ![t] = v] /\ pc' = [pc EXCEPT ![t] = "look"] /\ todo' = todo \ {c}
  BY DEF TakeChunk, inputs, bitmaps, Goto
<1> HIDE DEF v
<1>4. LocalsOK' /\ ParentInv' /\ Visited' = Visited
  BY <1>1, <1>2, <1>3, SameParent DEF LocalsOK, Data, Locations
<1>5. /\ u'[t] = v /\ pc'[t] = "look"
      /\ \A s \in Threads : s # t => u'[s] = u[s] /\ pc'[s] = pc[s]
  BY <1>3 DEF LocalsOK, Data
<1>6. \A s \in Threads : ChunkAt(s)
  BY <1>1 DEF AtBottomUp, ChunkAt
<1>7. ChunkAt(t)'
  BY <1>2, <1>3, <1>5, <1>6 DEF ChunkAt
<1>8. BitsToCome' = BitsToCome
  <2>1. \A s \in Threads, w \in NodeID :
          pc'[s] \in {"readWord", "writeWord"} /\ u'[s] = w <=>
            pc[s] \in {"readWord", "writeWord"} /\ u[s] = w
    BY <1>1, <1>5
  <2> QED BY <2>1 DEF BitsToCome
<1>9. Unlooked \subseteq Unlooked'
  <2> SUFFICES ASSUME NEW w \in Unlooked  PROVE w \in Unlooked'
    OBVIOUS
  <2>1. CASE ChunkOf(w) = c
    <3>1. w \in Rest'[t] /\ w \in NodeID
      BY <1>2, <1>5, <2>1 DEF Rest, RestOf, Unlooked
    <3> QED BY <3>1 DEF Unlooked
  <2>2. CASE ChunkOf(w) # c /\ ChunkOf(w) \in todo
    BY <1>3, <2>2 DEF Unlooked
  <2>3. CASE \E s \in Threads : w \in Rest[s]
    <3>1. PICK s \in Threads : w \in Rest[s]
      BY <2>3
    <3>2. s # t
      BY <1>1, <3>1 DEF Rest, RestOf
    <3>3. Rest'[s] = Rest[s]
      BY <1>5, <3>2 DEF Rest
    <3> QED BY <3>1, <3>3 DEF Unlooked
  <2> QED BY <2>1, <2>2, <2>3 DEF Unlooked
<1> QED BY <1>1, <1>3, <1>4, <1>5, <1>7, <1>8, <1>9, ChunkKeeps DEF AtBottomUp, SameWord

\* On to the next vertex of the chunk: only this one is left behind.
LEMMA Advances ==
  ASSUME Data, NEW t \in Threads, pc[t] # "idle", Advance(t)
  PROVE  /\ pc' \in [Threads -> Locations] /\ u' \in [Threads -> NodeID]
         /\ pc'[t] \in {"idle", "look"} /\ (pc'[t] # "idle" => ChunkOf(u'[t]) = ChunkOf(u[t]))
         /\ \A s \in Threads : s # t => pc'[s] = pc[s] /\ u'[s] = u[s] /\ Rest'[s] = Rest[s]
         /\ Rest[t] \subseteq Rest'[t] \union {u[t]}
<1> DEFINE v == u[t]
<1>1. v \in NodeID /\ v \in Nat /\ NodeID \subseteq Nat
  BY ChunkTypes DEF Data, LocalsOK
<1>2. \A w \in Rest[t] : w \in NodeID /\ w >= v /\ ChunkOf(w) = ChunkOf(v)
  BY DEF Rest, RestOf
<1>3. CASE v + 1 < N /\ (v + 1) % ChunkSize # 0
  <2>1. pc' = [pc EXCEPT ![t] = "look"] /\ u' = [u EXCEPT ![t] = v + 1]
    BY <1>3 DEF Advance, Goto
  <2>2. v + 1 \in NodeID /\ ChunkOf(v + 1) = ChunkOf(v)
    BY <1>1, <1>3, ChunkGoesOn
  <2>3. pc' \in [Threads -> Locations] /\ u' \in [Threads -> NodeID]
    BY <2>1, <2>2 DEF Data, LocalsOK, Locations
  <2>4. /\ pc'[t] = "look" /\ u'[t] = v + 1
        /\ \A s \in Threads : s # t => pc'[s] = pc[s] /\ u'[s] = u[s]
    BY <2>1 DEF Data, LocalsOK
  <2>5. \A s \in Threads : s # t => Rest'[s] = Rest[s]
    BY <2>4 DEF Rest
  <2>6. Rest'[t] = {w \in NodeID : ChunkOf(w) = ChunkOf(v) /\ w >= v + 1}
    BY <2>2, <2>4 DEF Rest, RestOf
  <2>7. \A w \in NodeID : w >= v => w = v \/ w >= v + 1
    BY <1>1
  <2> HIDE DEF v
  <2>8. Rest[t] \subseteq Rest'[t] \union {v}
    BY <1>2, <2>6, <2>7
  <2> QED BY <2>2, <2>3, <2>4, <2>5, <2>8 DEF v
<1>4. CASE ~ (v + 1 < N /\ (v + 1) % ChunkSize # 0)
  <2>1. pc' = [pc EXCEPT ![t] = "idle"] /\ u' = [u EXCEPT ![t] = 0]
    BY <1>4 DEF Advance, Goto
  <2>2. 0 \in NodeID
    BY ChunkTypes
  <2>3. pc' \in [Threads -> Locations] /\ u' \in [Threads -> NodeID]
    BY <2>1, <2>2 DEF Data, LocalsOK, Locations
  <2>4. /\ pc'[t] = "idle"
        /\ \A s \in Threads : s # t => pc'[s] = pc[s] /\ u'[s] = u[s]
    BY <2>1 DEF Data, LocalsOK
  <2>5. \A s \in Threads : s # t => Rest'[s] = Rest[s]
    BY <2>4 DEF Rest
  <2>6. Rest[t] \subseteq {v}
    <3>1. \A w \in NodeID : ~ (w > v /\ ChunkOf(w) = ChunkOf(v))
      BY <1>1, <1>4, ChunkGoesOn
    <3>2. \A w \in NodeID : w >= v => w = v \/ w > v
      BY <1>1
    <3> HIDE DEF v
    <3> QED BY <1>2, <3>1, <3>2
  <2> QED BY <2>3, <2>4, <2>5, <2>6
<1> QED BY <1>3, <1>4

\* What Unlooked loses when one thread goes on and todo stays.
LEMMA UnlookedOfOthers ==
  ASSUME NEW t \in Threads, UNCHANGED todo,
         \A s \in Threads : s # t => Rest'[s] = Rest[s],
         NEW S, Rest[t] \subseteq Rest'[t] \union S
  PROVE  Unlooked \subseteq Unlooked' \union S
  BY DEF Unlooked

LEMMA LookKeeps ==
  ASSUME Data, NEW d \in 0 .. N, InvAt(d), NEW t \in Threads, Look(t)
  PROVE  Data' /\ InvAt(d)' /\ (UNCHANGED parent \/ Adoption(d))
<1> DEFINE v == u[t]  e == Deeper(d)
<1>1. pc[t] = "look" /\ pc[t] # "idle"
  BY DEF Look
<1>2. /\ phase = "bottomUp" /\ AtBottomUp(d) /\ ChunkAt(t) /\ v \in NodeID
      /\ \A s \in Threads : s # t /\ pc[s] # "idle" => ChunkOf(u[s]) # ChunkOf(v)
  BY <1>1, InBottomUp
<1>3. UNCHANGED <<graph, source, queue, lqueue, front, curr, phase, todo, k, curr_val, word>>
  BY DEF Look, inputs, bitmaps
<1>4. parent[v] \in Int /\ IsGraph(graph)
  BY <1>2, DOBFSAssumption DEF Data, ParentInv, Inputs
<1>5. InNeigh(graph, v) \in Seq(NodeID) /\ InDegree(graph, v) \in Nat
  BY <1>2, <1>4 DEF IsGraph, InNeigh, InDegree
\* Whoever of the front has an edge to a vertex not visited is in the level.
<1>6. ASSUME NEW p \in front, Occurs(v, OutNeigh(graph, p)), v \notin Visited
      PROVE  p \in AtDepth(d) /\ v \in AtDepth(e)
  <2>1. p \in Reached[d] /\ v \notin Reached[d]
    BY <1>2, <1>6 DEF AtBottomUp
  <2>2. p \in AtDepth(d) /\ v \in Reached[e]
    BY <1>2, <1>6, <2>1, LevelFacts DEF Data
  <2> QED BY <2>1, <2>2, LevelFacts DEF Data
<1>7. \A i \in Awake(v) : /\ i \in 1 .. InDegree(graph, v) /\ InNeigh(graph, v)[i] \in front
                          /\ Occurs(v, OutNeigh(graph, InNeigh(graph, v)[i]))
  <2> TAKE i \in Awake(v)
  <2>1. i \in 1 .. InDegree(graph, v) /\ InNeigh(graph, v)[i] \in front
    BY DEF Awake
  <2>2. InNeigh(graph, v)[i] \in NodeID /\ Occurs(InNeigh(graph, v)[i], InNeigh(graph, v))
    BY <1>5, <2>1 DEF InDegree, Occurs
  <2> QED BY <1>2, <1>4, <2>1, <2>2 DEF IsGraph
<1>8. CASE parent[v] < 0 /\ Awake(v) # {}
  <2> DEFINE i == CHOOSE j \in Awake(v) : \A l \in Awake(v) : j <= l
             p == InNeigh(graph, v)[i]
  <2>1. /\ parent' = [parent EXCEPT ![v] = p] /\ count' = count + 1
        /\ pc' = [pc EXCEPT ![t] = "readWord"] /\ u' = u
    BY <1>8 DEF Look, Goto
  <2>2. i \in Awake(v)
    <3>1. Awake(v) \in SUBSET Nat
      BY <1>5, <1>7
    <3>2. \E j \in Awake(v) : \A l \in Awake(v) : j <= l
      BY <1>8, <3>1, LeastNumber
    <3> QED BY <3>2
  <2> HIDE DEF i
  <2>3. v \notin Visited
    BY <1>4, <1>8 DEF Visited
  <2>4. p \in AtDepth(d) /\ v \in AtDepth(e) /\ Occurs(v, OutNeigh(graph, p))
    BY <1>6, <1>7, <2>2, <2>3
  <2> HIDE DEF p, v
  <2>5. ParentInv' /\ Visited' = Visited \union {v}
    BY <1>2, <1>3, <2>1, <2>3, <2>4, Adopts DEF Data
  <2>6. LocalsOK'
    BY <1>3, <2>1 DEF LocalsOK, Data, Locations
  <2>7. pc'[t] = "readWord" /\ \A s \in Threads : s # t => pc'[s] = pc[s]
    BY <2>1 DEF LocalsOK, Data
  <2>8. ChunkAt(t)'
    BY <1>1, <1>2, <1>3, <2>1, <2>7 DEF ChunkAt
  <2>9. Rest' = Rest
    <3>1. \A s \in Threads : Rest'[s] = Rest[s]
      BY <1>1, <2>1, <2>7 DEF Rest, RestOf
    <3> QED BY <3>1 DEF Rest
  <2>10. Unlooked' = Unlooked
    BY <1>3, <2>9 DEF Unlooked
  <2>11. BitsToCome' = BitsToCome \union {v}
    <3>1. \A w \in NodeID : (\E s \in Threads : pc'[s] \in {"readWord", "writeWord"} /\ u'[s] = w) <=>
             w = v \/ \E s \in Threads : pc[s] \in {"readWord", "writeWord"} /\ u[s] = w
      BY <1>1, <2>1, <2>7 DEF v
    <3> QED BY <1>2, <3>1 DEF BitsToCome, v
  <2>12. v \in Reached[e] /\ v \notin Reached[d]
    BY <2>4, LevelFacts DEF Data
  <2>13. curr' \union BitsToCome' = Visited' \ Reached[d] /\ Visited' \subseteq Reached[e]
    BY <1>2, <1>3, <2>5, <2>11, <2>12 DEF AtBottomUp
  <2>14. Adoption(d)
    BY <2>1, <2>3, <2>4 DEF Adoption
  <2> QED BY <1>2, <1>3, <2>1, <2>5, <2>6, <2>7, <2>8, <2>10, <2>13, <2>14, ChunkKeeps
          DEF Data, SameWord
<1>9. CASE ~ (parent[v] < 0 /\ Awake(v) # {})
  <2>1. Advance(t) /\ UNCHANGED <<parent, count>>
    BY <1>9 DEF Look
  <2>2. /\ pc' \in [Threads -> Locations] /\ u' \in [Threads -> NodeID]
        /\ pc'[t] \in {"idle", "look"} /\ (pc'[t] # "idle" => ChunkOf(u'[t]) = ChunkOf(v))
        /\ \A s \in Threads : s # t => pc'[s] = pc[s] /\ u'[s] = u[s] /\ Rest'[s] = Rest[s]
        /\ Rest[t] \subseteq Rest'[t] \union {v}
    BY <1>1, <2>1, Advances
  <2>3. v \in Visited \/ v \notin AtDepth(e)
    <3> SUFFICES ASSUME v \in AtDepth(e), v \notin Visited  PROVE FALSE
      OBVIOUS
    <3>1. PICK p \in AtDepth(d) : Occurs(v, OutNeigh(graph, p))
      BY LevelFacts DEF Data
    <3>2. p \in front /\ p \in NodeID
      BY <1>2, <3>1 DEF AtBottomUp, Data, LocalsOK
    <3>3. Occurs(p, InNeigh(graph, v))
      BY <1>2, <1>4, <3>1, <3>2 DEF IsGraph
    <3>4. Awake(v) # {}
      BY <3>2, <3>3 DEF Occurs, Awake, InDegree
    <3>5. parent[v] < 0
      BY <1>2, <1>4 DEF Visited
    <3> QED BY <1>9, <3>4, <3>5
  <2>4. ParentInv' /\ Visited' = Visited
    BY <1>2, <1>3, <2>1, SameParent DEF Data
  <2>5. LocalsOK'
    BY <1>3, <2>1, <2>2 DEF LocalsOK, Data
  <2> HIDE DEF v
  <2>6. ChunkAt(t)'
    <3>1. pc[t] # "idle" => ChunkOf(v) \notin todo
      BY <1>2 DEF ChunkAt, v
    <3> QED BY <1>1, <1>2, <1>3, <2>2, <3>1 DEF ChunkAt
  <2>7. BitsToCome' = BitsToCome
    <3>1. \A s \in Threads, w \in NodeID :
            pc'[s] \in {"readWord", "writeWord"} /\ u'[s] = w <=>
              pc[s] \in {"readWord", "writeWord"} /\ u[s] = w
      BY <1>1, <2>2
    <3> QED BY <3>1 DEF BitsToCome
  <2>8. Unlooked \subseteq Unlooked' \union {v}
    BY <1>3, <2>2, UnlookedOfOthers
  <2>9. Unlooked \intersect AtDepth(e) \subseteq Unlooked' \union Visited'
    BY <2>3, <2>4, <2>8
  <2> QED BY <1>2, <1>3, <2>1, <2>2, <2>4, <2>5, <2>6, <2>7, <2>9, ChunkKeeps
          DEF AtBottomUp, SameWord
<1> QED BY <1>8, <1>9

LEMMA ReadWordKeeps ==
  ASSUME Data, NEW d \in 0 .. N, InvAt(d), NEW t \in Threads, ReadWord(t)
  PROVE  Data' /\ InvAt(d)'
<1>1. pc[t] = "readWord"
  BY DEF ReadWord
<1>2. /\ phase = "bottomUp" /\ AtBottomUp(d) /\ ChunkAt(t)
      /\ \A s \in Threads : s # t /\ pc[s] # "idle" => ChunkOf(u[s]) # ChunkOf(u[t])
  BY <1>1, InBottomUp
<1>3. /\ UNCHANGED <<graph, source, parent, queue, lqueue, front, curr, phase, todo, count, u, k, curr_val>>
      /\ word' = [word EXCEPT ![t] = curr \intersect WordOf(u[t])]
      /\ pc' = [pc EXCEPT ![t] = "writeWord"]
  BY DEF ReadWord, inputs, bitmaps, Goto
<1>4. LocalsOK' /\ ParentInv' /\ Visited' = Visited
  <2>1. curr \intersect WordOf(u[t]) \in SUBSET NodeID
    BY DEF WordOf
  <2> QED BY <1>2, <1>3, <2>1, SameParent DEF LocalsOK, Data, Locations
<1>5. /\ pc'[t] = "writeWord" /\ word'[t] = curr \intersect WordOf(u[t])
      /\ \A s \in Threads : s # t => pc'[s] = pc[s] /\ word'[s] = word[s]
  BY <1>3 DEF LocalsOK, Data
<1>6. ChunkAt(t)'
  <2>1. WordOf(u'[t]) = WordOf(u[t])
    BY <1>3
  <2> QED BY <1>1, <1>2, <1>3, <1>5, <2>1 DEF ChunkAt
<1>7. BitsToCome' = BitsToCome /\ Unlooked' = Unlooked
  <2>1. \A s \in Threads : pc'[s] \in {"readWord", "writeWord"} <=> pc[s] \in {"readWord", "writeWord"}
    BY <1>1, <1>5
  <2>2. \A s \in Threads : Rest'[s] = Rest[s]
    BY <1>1, <1>3, <1>5 DEF Rest, RestOf
  <2> QED BY <1>3, <2>1, <2>2 DEF BitsToCome, Unlooked
<1> QED BY <1>2, <1>3, <1>4, <1>5, <1>6, <1>7, ChunkKeeps DEF AtBottomUp, SameWord

LEMMA WriteWordKeeps ==
  ASSUME Data, NEW d \in 0 .. N, InvAt(d), NEW t \in Threads, WriteWord(t)
  PROVE  Data' /\ InvAt(d)'
<1> DEFINE v == u[t]
<1>1. pc[t] = "writeWord" /\ pc[t] # "idle"
  BY DEF WriteWord
<1>2. /\ phase = "bottomUp" /\ AtBottomUp(d) /\ ChunkAt(t) /\ v \in NodeID
      /\ \A s \in Threads : s # t /\ pc[s] # "idle" => ChunkOf(u[s]) # ChunkOf(v)
  BY <1>1, InBottomUp
<1>3. /\ UNCHANGED <<graph, source, parent, queue, lqueue, front, phase, todo, count, k, curr_val>>
      /\ curr' = (curr \ WordOf(v)) \union word[t] \union {v}
      /\ word' = [word EXCEPT ![t] = {}] /\ Advance(t)
  BY DEF WriteWord, inputs
<1>4. /\ pc' \in [Threads -> Locations] /\ u' \in [Threads -> NodeID]
      /\ pc'[t] \in {"idle", "look"} /\ (pc'[t] # "idle" => ChunkOf(u'[t]) = ChunkOf(v))
      /\ \A s \in Threads : s # t => pc'[s] = pc[s] /\ u'[s] = u[s] /\ Rest'[s] = Rest[s]
      /\ Rest[t] \subseteq Rest'[t] \union {v}
  BY <1>1, <1>3, Advances
<1>5. curr' = curr \union {v}
  <2>1. word[t] = curr \intersect WordOf(v)
    BY <1>1, <1>2 DEF ChunkAt
  <2> QED BY <1>3, <2>1
<1>6. LocalsOK' /\ ParentInv' /\ Visited' = Visited
  BY <1>2, <1>3, <1>4, SameParent DEF LocalsOK, Data
<1>7. \A s \in Threads : s # t => word'[s] = word[s]
  BY <1>3 DEF LocalsOK, Data
<1>8. \A s \in Threads : s # t /\ pc[s] = "writeWord" => SameWord(u[s])
  <2> SUFFICES ASSUME NEW s \in Threads, s # t, pc[s] = "writeWord"
               PROVE  v \notin WordOf(u[s])
    BY <1>5 DEF SameWord
  <2>1. ChunkOf(u[s]) # ChunkOf(v) /\ u[s] \in NodeID
    BY <1>2 DEF Data, LocalsOK
  <2> QED BY <1>2, <2>1, WordInChunk
<1>9. ChunkAt(t)'
  <2>1. ChunkOf(v) \notin todo
    BY <1>1, <1>2 DEF ChunkAt
  <2> HIDE DEF v
  <2> QED BY <1>2, <1>3, <1>4, <2>1 DEF ChunkAt
<1>10. v \in BitsToCome /\ \A w \in BitsToCome : w = v \/ w \in BitsToCome'
  <2>1. v \in BitsToCome
    BY <1>1, <1>2 DEF BitsToCome
  <2> HIDE DEF v
  <2>2. ASSUME NEW w \in BitsToCome, w # v  PROVE w \in BitsToCome'
    <3>1. PICK s \in Threads : pc[s] \in {"readWord", "writeWord"} /\ u[s] = w
      BY DEF BitsToCome
    <3>2. s # t
      BY <2>2, <3>1 DEF v
    <3>3. w \in NodeID
      BY DEF BitsToCome
    <3> QED BY <1>4, <3>1, <3>2, <3>3 DEF BitsToCome
  <2> QED BY <2>1, <2>2
<1>11. BitsToCome' \subseteq BitsToCome
  <2> SUFFICES ASSUME NEW w \in BitsToCome'  PROVE w \in BitsToCome
    OBVIOUS
  <2>1. PICK s \in Threads : pc'[s] \in {"readWord", "writeWord"} /\ u'[s] = w /\ w \in NodeID
    BY DEF BitsToCome
  <2>2. s # t
    BY <1>4, <2>1
  <2> QED BY <1>4, <2>1, <2>2 DEF BitsToCome
<1>12. curr' \union BitsToCome' = Visited' \ Reached[d] /\ v \in Visited'
  BY <1>2, <1>5, <1>6, <1>10, <1>11 DEF AtBottomUp
<1>13. Unlooked \subseteq Unlooked' \union {v}
  <2> HIDE DEF v
  <2> QED BY <1>3, <1>4, UnlookedOfOthers
<1>14. Unlooked \intersect AtDepth(Deeper(d)) \subseteq Unlooked' \union Visited'
  BY <1>12, <1>13
<1> HIDE DEF v
<1> QED BY <1>2, <1>3, <1>4, <1>6, <1>7, <1>8, <1>9, <1>12, <1>14, ChunkKeeps DEF AtBottomUp, SameWord

\* Where the region ends nobody is left out, and curr holds the next level.
LEMMA EndBottomUpKeeps ==
  ASSUME Data, NEW d \in 0 .. N, InvAt(d), EndBottomUp
  PROVE  Data' /\ InvAt(Deeper(d))'
<1> DEFINE e == Deeper(d)
<1>1. /\ phase = "bottomUp" /\ AtBottomUp(d) /\ todo = {} /\ front' = curr
      /\ \A t \in Threads : pc[t] = "idle"
  BY DEF EndBottomUp, RegionDone, InvAt
<1>2. UNCHANGED <<graph, source, parent, queue, lqueue, pc, u, k, curr_val, word>>
  BY DEF EndBottomUp, inputs, locals
<1>3. Unlooked = {} /\ BitsToCome = {}
  BY <1>1 DEF Unlooked, BitsToCome, Rest, RestOf
<1>4. e \in 0 .. N /\ Reached[d] \subseteq Reached[e] /\ AtDepth(e) = Reached[e] \ Reached[d]
      /\ Reached[e] \subseteq NodeID /\ Reached[e] \subseteq Reached[Deeper(e)]
      /\ AtDepth(Deeper(e)) \subseteq NodeID
  <2>1. /\ e \in 0 .. N /\ Reached[d] \subseteq Reached[e]
        /\ AtDepth(e) = Reached[e] \ Reached[d]
    BY LevelFacts DEF Data
  <2> HIDE DEF e
  <2>2. /\ Deeper(e) \in 0 .. N /\ Reached[e] \subseteq NodeID
        /\ Reached[e] \subseteq Reached[Deeper(e)]
    BY <2>1, LevelFacts DEF Data
  <2>3. AtDepth(Deeper(e)) \subseteq NodeID
    BY <2>2, LevelFacts DEF Data
  <2> QED BY <2>1, <2>2, <2>3
<1>5. Visited = Reached[e] /\ curr = AtDepth(e)
  BY <1>1, <1>3, <1>4 DEF AtBottomUp
<1>6. Stored \subseteq Reached[d] /\ Pushed = {}
  BY <1>1 DEF AtBottomUp
<1> HIDE DEF e
<1>7. CASE StaysBottomUp(count)
  <2>1. phase' = "bottomUp" /\ todo' = Chunks /\ count' = 0 /\ curr' = {}
    BY <1>7 DEF EndBottomUp, StartBottomUp
  <2>2. Inputs' /\ ParentInv' /\ QueueInv' /\ Visited' = Visited
    BY <1>1, <1>2, <2>1, SameParent, SameQueue, Rigid DEF Data
  <2>3. LocalsOK'
    <3>1. front' \subseteq NodeID
      BY <1>1, <1>4, <1>5
    <3> QED BY <1>1, <1>2, <2>1, <3>1 DEF LocalsOK, Data
  <2>4. Unlooked' = NodeID /\ BitsToCome' = {}
    BY <1>1, <1>2, <2>1, ChunkBegins DEF Unlooked, BitsToCome
  <2>5. AtBottomUp(e)'
    <3>1. /\ AtDepth(e)' \subseteq front' /\ front' \subseteq Reached'[e]
          /\ (AtDepth(e)' = {} => front' = {})
          /\ Stored' \subseteq Reached'[e] /\ Pushed' = {}
      BY <1>1, <1>2, <1>4, <1>5, <1>6, SameQueue, Rigid
    <3>2. /\ Reached'[e] \subseteq Visited' /\ Visited' \subseteq Reached'[Deeper(e)]
          /\ curr' \union BitsToCome' = Visited' \ Reached'[e]
          /\ AtDepth(Deeper(e))' \subseteq Visited' \union Unlooked'
      BY <1>2, <1>4, <1>5, <2>1, <2>2, <2>4, Rigid
    <3> QED BY <1>1, <1>2, <2>1, <3>1, <3>2 DEF AtBottomUp
  <2>6. Data' /\ InvAt(e)'
    BY <2>1, <2>2, <2>3, <2>5 DEF Data, InvAt
  <2> QED BY <2>6 DEF e
<1>8. CASE ~ StaysBottomUp(count)
  <2>1. phase' = "toQueue" /\ todo' = NodeID /\ count' = 0
    BY <1>8 DEF EndBottomUp
  <2>2. Inputs' /\ ParentInv' /\ QueueInv' /\ Visited' = Visited
    BY <1>1, <1>2, <2>1, SameParent, SameQueue, Rigid DEF Data
  <2>3. front' \subseteq NodeID
    BY <1>1, <1>4, <1>5
  <2>4. LocalsOK'
    BY <1>2, <2>1, <2>3 DEF LocalsOK, Data
  <2>5. AtToQueue(e)'
    <3>1. front' = AtDepth(e)' /\ Visited' = Reached'[e]
      BY <1>1, <1>2, <1>5, <2>2, Rigid
    <3>2. Old' \subseteq Reached'[e] /\ Old' \intersect front' = {}
      <4>1. Old \subseteq Stored
        BY StoredSplit DEF Data
      <4> QED BY <1>1, <1>2, <1>4, <1>5, <1>6, <4>1, SameQueue, Rigid
    <3>3. Pushed' = front' \ todo'
      BY <1>2, <1>6, <2>1, <2>3, SameQueue
    <3> QED BY <1>1, <1>2, <3>1, <3>2, <3>3 DEF AtToQueue, Idle
  <2>6. Data' /\ InvAt(e)'
    BY <2>1, <2>2, <2>4, <2>5 DEF Data, InvAt
  <2> QED BY <2>6 DEF e
<1> QED BY <1>7, <1>8

-----------------------------------------------------------------------------
(* From the bitmap back to the queue. *)

LEMMA TakeBitKeeps ==
  ASSUME Data, NEW d \in 0 .. N, InvAt(d), NEW t \in Threads, NEW n \in todo, TakeBit(t, n)
  PROVE  Data' /\ InvAt(d)'
<1>1. phase = "toQueue" /\ AtToQueue(d) /\ todo' = todo \ {n}
  BY DEF TakeBit, InvAt
<1>2. UNCHANGED <<graph, source, parent, front, phase, count, pc, u, k, curr_val, word>>
  BY DEF TakeBit, inputs, bitmaps
<1>3. Inputs' /\ ParentInv' /\ LocalsOK' /\ Visited' = Visited
  BY <1>1, <1>2, SameParent, Rigid DEF Data, LocalsOK
<1>4. ASSUME QueueInv', Old' = Old, Pushed' = front \ todo'
      PROVE  Data' /\ InvAt(d)'
  <2>1. AtToQueue(d)'
    BY <1>1, <1>2, <1>3, <1>4, Rigid DEF AtToQueue, Idle
  <2> QED BY <1>1, <1>2, <1>3, <1>4, <2>1 DEF Data, InvAt
<1>5. CASE n \in front
  <2>1. PushLocal(t, n) /\ n \in NodeID
    BY <1>5 DEF TakeBit, Data, LocalsOK
  <2>2. n \notin Stored /\ n \notin Pushed
    <3>1. Stored = Old \union New
      BY StoredSplit DEF Data
    <3> QED BY <1>1, <1>5, <3>1 DEF AtToQueue, Pushed
  <2>3. QueueInv' /\ Appended /\ Pushed' = Pushed \union {n}
    BY <2>1, <2>2, PushKeeps DEF Data
  <2>4. Old' = Old
    BY <2>3, AppendedKeeps DEF Data
  <2>5. Pushed' = front \ todo'
    BY <1>1, <1>5, <2>3 DEF AtToQueue
  <2> QED BY <1>4, <2>3, <2>4, <2>5
<1>6. CASE n \notin front
  <2>1. UNCHANGED <<queue, lqueue>>
    BY <1>6 DEF TakeBit
  <2>2. QueueInv' /\ Old' = Old /\ Pushed' = Pushed
    BY <2>1, SameQueue DEF Data
  <2>3. Pushed' = front \ todo'
    BY <1>1, <1>6, <2>2 DEF AtToQueue
  <2> QED BY <1>4, <2>2, <2>3
<1> QED BY <1>5, <1>6

LEMMA EndToQueueKeeps ==
  ASSUME Data, NEW d \in 0 .. N, InvAt(d), EndToQueue
  PROVE  Data' /\ InvAt(d)'
<1>1. /\ phase = "toQueue" /\ AtToQueue(d) /\ todo = {} /\ phase' = "test"
      /\ \A t \in Threads : pc[t] = "idle" /\ lqueue[t] = << >>
  BY DEF EndToQueue, RegionDone, InvAt
<1>2. /\ UNCHANGED <<graph, source, parent, lqueue, front, count, pc, u, k, curr_val, word>>
      /\ queue' = SlideWindow(queue)
  BY DEF EndToQueue, inputs, bitmaps, locals
<1>3. Inputs' /\ ParentInv' /\ LocalsOK' /\ Visited' = Visited
  BY <1>1, <1>2, SameParent, Rigid DEF Data, LocalsOK
<1>4. /\ QueueInv' /\ Stored' = Stored /\ New' = {} /\ Buffers' = Buffers
      /\ Elements(queue)' = New
  BY <1>2, SlideKeeps DEF Data
<1>5. \A t \in Threads : Buffers[t] = {}
  BY <1>1 DEF Buffers
<1>6. New = AtDepth(d) /\ Pushed' = {}
  <2>1. Pushed = New /\ Pushed' = {}
    BY <1>4, <1>5 DEF Pushed
  <2>2. Pushed = AtDepth(d)
    BY <1>1 DEF AtToQueue
  <2> QED BY <2>1, <2>2
<1>7. Stored \subseteq Reached[d] /\ front \subseteq Reached[d]
  <2>1. Stored = Old \union New
    BY StoredSplit DEF Data
  <2> QED BY <1>1, <1>6, <2>1, LevelFacts DEF AtToQueue, Data
<1>8. AtTest(d)'
  BY <1>1, <1>2, <1>3, <1>4, <1>6, <1>7, Rigid DEF AtTest, AtToQueue, Idle
<1> QED BY <1>1, <1>3, <1>4, <1>8 DEF Data, InvAt

-----------------------------------------------------------------------------

\* Every step keeps the depth or goes one level deeper.
LEMMA StepKeeps ==
  ASSUME Data, NEW d \in 0 .. N, InvAt(d), Next
  PROVE  Data' /\ (InvAt(d)' \/ InvAt(Deeper(d))')
<1>1. CASE Serial
  BY <1>1, FinishKeeps, GoBottomUpKeeps, GoTopDownKeeps, EndTopDownKeeps, EndBottomUpKeeps,
     EndToQueueKeeps DEF Serial
<1>2. CASE \E t \in Threads : Thread(t)
  <2>1. PICK t \in Threads : Thread(t)
    BY <1>2
  <2>2. CASE TopDownStep(t)
    BY <2>2, TakeElementKeeps, EndElementKeeps, ReadParentKeeps, CompareAndSwapKeeps DEF TopDownStep
  <2>3. CASE BottomUpStep(t)
    BY <2>3, TakeChunkKeeps, LookKeeps, ReadWordKeeps, WriteWordKeeps DEF BottomUpStep
  <2>4. CASE LastFlush(t)
    BY <2>4, LastFlushKeeps
  <2>5. CASE \E n \in todo : TakeBit(t, n)
    BY <2>5, TakeBitKeeps
  <2> QED BY <2>1, <2>2, <2>3, <2>4, <2>5 DEF Thread
<1> QED BY <1>1, <1>2 DEF Next

LEMMA StutterKeeps ==
  ASSUME Data, NEW d \in 0 .. N, InvAt(d), UNCHANGED vars
  PROVE  Data' /\ InvAt(d)'
<1>1. UNCHANGED <<graph, source, parent, queue, lqueue, front, curr, phase, todo, count,
                  pc, u, k, curr_val, word>>
  BY DEF vars, inputs, bitmaps, locals
<1>2. QueueInv' = QueueInv /\ Elements(queue)' = Elements(queue) /\ Stored' = Stored
      /\ Old' = Old /\ Pushed' = Pushed
  BY <1>1, SameQueue
<1>3. Visited' = Visited
  BY <1>1 DEF Visited
<1>4. TreeInv'
  BY <1>1, <1>3, Rigid DEF Data, ParentInv, TreeInv, InNeigh
<1>5. Data'
  BY <1>1, <1>2, <1>4, Rigid DEF Data, ParentInv, LocalsOK
<1>6. Ahead' = Ahead /\ Rest' = Rest
  BY <1>1 DEF Ahead, Rest
<1>7. Pending' = Pending /\ Unlooked' = Unlooked /\ BitsToCome' = BitsToCome
  BY <1>1, <1>6 DEF Pending, Unlooked, BitsToCome
<1>8. /\ AtTest(d) => AtTest(d)'
      /\ AtToQueue(d) => AtToQueue(d)'
      /\ AtDone => AtDone'
  BY <1>1, <1>2, <1>3, Rigid DEF AtTest, AtToQueue, AtDone, Idle
<1>9. AtTopDown(d) => AtTopDown(d)'
  <2> SUFFICES ASSUME AtTopDown(d)  PROVE AtTopDown(d)'
    OBVIOUS
  <2>1. \A s \in Threads : ThreadAt(d, s)'
    <3> TAKE s \in Threads
    <3>1. ThreadAt(d, s)
      BY DEF AtTopDown, ThreadAt
    <3> QED BY <1>1, <3>1, Rigid DEF ThreadAt, AtCas, OutNeigh, OutDegree
  <2>2. count' = EdgesOf(graph', Pushed')
    BY <1>1, <1>2 DEF AtTopDown
  <2> QED BY <1>1, <1>2, <1>3, <1>7, <2>1, <2>2, Rigid DEF AtTopDown, ThreadAt
<1>10. AtBottomUp(d) => AtBottomUp(d)'
  BY <1>1, <1>2, <1>3, <1>7, Rigid DEF AtBottomUp
<1> QED BY <1>1, <1>5, <1>8, <1>9, <1>10 DEF InvAt

\* The inductive invariant is one.
THEOREM Invariance == Spec => []Inv
<1>1. Init => Inv
  BY InitInv
<1>2. Inv /\ [Next]_vars => Inv'
  <2> SUFFICES ASSUME Inv, [Next]_vars  PROVE Inv'
    OBVIOUS
  <2>1. PICK d \in 0 .. N : InvAt(d)
    BY DEF Inv
  <2>2. Data /\ Deeper(d) \in 0 .. N
    BY LevelFacts DEF Inv, Data
  <2>3. Data' /\ \E e \in 0 .. N : InvAt(e)'
    BY <2>1, <2>2, StepKeeps, StutterKeeps
  <2> QED BY <2>3 DEF Inv
<1> QED BY <1>1, <1>2, PTL DEF Spec

\* Everything has its type and bounds: the queue never takes more than N cells.
THEOREM Typed == Spec => []TypeOK
<1> DEFINE CurrOK == curr \subseteq NodeID
<1>1. Init => CurrOK
  BY DEF Init
<1>2. Inv /\ CurrOK /\ [Next]_vars => CurrOK'
  <2> SUFFICES ASSUME Inv, CurrOK, [Next]_vars  PROVE CurrOK'
    OBVIOUS
  <2>1. front \subseteq NodeID /\ u \in [Threads -> NodeID] /\ word \in [Threads -> SUBSET NodeID]
    BY DEF Inv, Data, LocalsOK
  <2>2. CASE Serial
    BY <2>1, <2>2 DEF Serial, Finish, GoBottomUp, GoTopDown, EndTopDown, EndBottomUp, EndToQueue,
                      bitmaps
  <2>3. ASSUME NEW t \in Threads, WriteWord(t)  PROVE CurrOK'
    <3>1. word[t] \subseteq NodeID /\ u[t] \in NodeID
      BY <2>1
    <3> QED BY <2>3, <3>1 DEF WriteWord
  <2>4. ASSUME NEW t \in Threads, Thread(t), ~ WriteWord(t)  PROVE CurrOK'
    BY <2>4 DEF Thread, TopDownStep, BottomUpStep, TakeElement, EndElement, ReadParent,
                CompareAndSwap, TakeChunk, Look, ReadWord, LastFlush, TakeBit, bitmaps
  <2>5. CASE UNCHANGED vars
    BY <2>5 DEF vars, bitmaps
  <2> QED BY <2>2, <2>3, <2>4, <2>5 DEF Next
<1>3. Inv /\ CurrOK => TypeOK
  <2> SUFFICES ASSUME Inv, CurrOK  PROVE TypeOK
    OBVIOUS
  <2>1. Data /\ phase \in {"test", "topDown", "bottomUp", "toQueue", "done"}
    BY DEF Inv, InvAt
  <2>2. queue.start \in 0 .. N /\ queue.end \in queue.start .. N /\ queue.in \in queue.end .. N
    BY <2>1, NAssumption DEF Data, QueueInv, Queues
  <2>3. \A t \in Threads : lqueue[t] \in Seq(NodeID) /\ Len(lqueue[t]) <= BufferSize
    BY <2>1 DEF Data, QueueInv
  <2> QED BY <2>1, <2>2, <2>3 DEF Data, ParentInv, LocalsOK, Locations, TypeOK
<1> QED BY <1>1, <1>2, <1>3, Invariance, PTL DEF Spec

\* What BFSVerifier accepts is what the search returns.
THEOREM Verified == Spec => []TreeVerified
<1>1. Inv => TreeVerified
  <2> SUFFICES ASSUME Inv, phase = "done"  PROVE BFSVerifier
    BY DEF TreeVerified
  <2>1. Data /\ Visited = Reached[N]
    BY DEF Inv, InvAt, AtDone
  <2>2. parent[source] = source
    BY <2>1 DEF Data, ParentInv, TreeInv
  <2>3. ASSUME NEW v \in NodeID \ {source}, v \in Reached[N]
        PROVE  \E i \in 1 .. InDegree(graph, v) :
                 /\ InNeigh(graph, v)[i] = parent[v]
                 /\ \E d \in 1 .. N : v \in AtDepth(d) /\ parent[v] \in AtDepth(d - 1)
    BY <2>1, <2>3 DEF Data, ParentInv, TreeInv, Occurs, InDegree
  <2>4. ASSUME NEW v \in NodeID \ {source}, v \notin Reached[N]  PROVE parent[v] = -1
    BY <2>1, <2>4 DEF Data, ParentInv, Visited
  <2> QED BY <2>2, <2>3, <2>4 DEF BFSVerifier
<1> QED BY <1>1, Invariance, PTL

\* Each level is found whole and queued without repetition, and its edges are counted.
THEOREM Exact == Spec => []LevelsAreExact
<1>1. Inv => LevelsAreExact
  <2> SUFFICES ASSUME Inv  PROVE LevelsAreExact
    OBVIOUS
  <2>1. PICK d \in 0 .. N : InvAt(d)
    BY DEF Inv
  <2>2. FrontierIsLevel
    BY <2>1 DEF FrontierIsLevel, InvAt, AtTest
  <2>3. EnqueuedOnce
    BY DEF Inv, Data, QueueInv
  <2>4. ScoutCounts
    <3> SUFFICES ASSUME phase = "topDown", RegionDone  PROVE count = EdgesOf(graph, New)
      BY DEF ScoutCounts, New
    <3>1. \A t \in Threads : Buffers[t] = {}
      BY DEF RegionDone, Buffers
    <3>2. Pushed = New
      BY <3>1 DEF Pushed
    <3> QED BY <2>1, <3>2 DEF InvAt, AtTopDown
  <2> QED BY <2>2, <2>3, <2>4 DEF LevelsAreExact
<1> QED BY <1>1, Invariance, PTL

-----------------------------------------------------------------------------
(* Depth counts the edges of the tree, so Deepest(front) is the level.     *)

IsDepths(h, p, s) ==
  /\ \A n \in NodeID : h[0][n] = 0
  /\ \A i \in 0 .. (N - 1), n \in NodeID :
       h[i + 1][n] = IF n = s \/ p[n] < 0 THEN 0 ELSE 1 + h[i][p[n]]

LEMMA DepthDef ==
  ASSUME NEW p \in [NodeID -> Int], \A n \in NodeID : p[n] < N, NEW s
  PROVE  \E h \in [0 .. N -> [NodeID -> Nat]] : DepthIn(p, s) = h[N] /\ IsDepths(h, p, s)
<1> DEFINE D == [NodeID -> Nat]
           zero == [n \in NodeID |-> 0]
           Up(h) == [n \in NodeID |-> IF n = s \/ p[n] < 0 THEN 0 ELSE 1 + h[p[n]]]
           F == [h \in D |-> Up(h)]
           body(g) == [i \in 0 .. N |-> [n \in NodeID |-> IF i = 0 \/ n = s \/ p[n] < 0 THEN 0
                                                          ELSE 1 + g[i - 1][p[n]]]]
           g == CHOOSE h : h = body(h)
<1>1. \A n \in NodeID : ~ (p[n] < 0) => p[n] \in NodeID
  BY NAssumption DEF NodeID
<1>2. F \in [D -> D]
  <2>1. ASSUME NEW h \in D  PROVE Up(h) \in D
    BY <1>1
  <2> QED BY <2>1
<1>3. ASSUME NEW h \in [0 .. N -> D], IsIteration(h, N, F, zero)  PROVE h = body(h)
  <2> DEFINE A(i) == IF i = 0 THEN zero ELSE F[h[i - 1]]
             B(i) == [n \in NodeID |-> IF i = 0 \/ n = s \/ p[n] < 0 THEN 0
                                      ELSE 1 + h[i - 1][p[n]]]
  <2>1. h = [i \in 0 .. N |-> A(i)]
    BY <1>3 DEF IsIteration
  <2>2. ASSUME NEW i \in 0 .. N  PROVE A(i) = B(i)
    <3>1. CASE i = 0
      BY <3>1
    <3>2. CASE i # 0
      <4>1. i - 1 \in 0 .. N
        BY <3>2, NAssumption
      <4>2. F[h[i - 1]] = Up(h[i - 1])
        BY <4>1
      <4> QED BY <3>2, <4>2
    <3> QED BY <3>1, <3>2
  <2>3. body(h) = [i \in 0 .. N |-> B(i)]
    OBVIOUS
  <2> HIDE DEF A, B, body
  <2> QED BY <2>1, <2>2, <2>3
<1>4. PICK h \in [0 .. N -> D] : IsIteration(h, N, F, zero)
  <2>1. zero \in D /\ N \in Nat
    BY NAssumption
  <2> HIDE DEF F, D, zero
  <2> QED BY <1>2, <2>1, Iteration
<1>5. h = body(h)
  <2> HIDE DEF F, D, zero, body
  <2> QED BY <1>3, <1>4
<1>6. g = body(g)
  <2> HIDE DEF body
  <2> QED BY <1>5
<1> HIDE DEF g
<1>7. DepthIn(p, s) = g[N]
  BY DEF DepthIn, g
<1>8. DOMAIN g = 0 .. N /\ \A n \in NodeID : g[0][n] = 0
  BY <1>6, NAssumption
<1>9. ASSUME NEW i \in 0 .. (N - 1)  PROVE g[i + 1] = Up(g[i])
  <2>1. i + 1 \in 0 .. N /\ i + 1 # 0 /\ i + 1 - 1 = i
    BY NAssumption
  <2>2. \A j \in 0 .. N : j # 0 => g[j] = Up(g[j - 1])
    BY <1>6
  <2> HIDE DEF Up
  <2> QED BY <2>1, <2>2
<1> DEFINE T == {i \in 0 .. N : g[i] \in D}
<1>10. 0 .. N \subseteq T
  <2>1. 0 \in T
    <3>1. g[0] = zero
      BY <1>6, NAssumption
    <3> QED BY <3>1, NAssumption
  <2>2. ASSUME NEW i \in 0 .. (N - 1), i \in T  PROVE i + 1 \in T
    <3>1. Up(g[i]) \in D
      BY <1>1, <2>2
    <3> HIDE DEF Up, D
    <3> QED BY <1>9, <3>1, NAssumption
  <2> HIDE DEF T
  <2> QED BY <2>1, <2>2, AllUpTo, NAssumption
<1>11. g \in [0 .. N -> D]
  <2>1. g = [i \in 0 .. N |-> g[i]]
    BY <1>6, <1>8
  <2> HIDE DEF D
  <2> QED BY <1>10, <2>1
<1>12. \A i \in 0 .. (N - 1), n \in NodeID :
         g[i + 1][n] = IF n = s \/ p[n] < 0 THEN 0 ELSE 1 + g[i][p[n]]
  BY <1>9
<1>13. IsDepths(g, p, s)
  BY <1>8, <1>12 DEF IsDepths
<1> QED BY <1>7, <1>11, <1>13

\* Going from a vertex to its parent again and again takes as many steps as it
\* is deep, if those less deep are in the tree.
LEMMA DepthIsLevel ==
  ASSUME Inputs, ParentInv, NEW d \in 0 .. N, Reached[d] \subseteq Visited
  PROVE  \A e \in 0 .. d : \A v \in AtDepth(e) : Depth[v] = e
<1>1. PICK h \in [0 .. N -> [NodeID -> Nat]] :
        DepthIn(parent, source) = h[N] /\ IsDepths(h, parent, source)
  BY DepthDef DEF ParentInv
<1>2. Depth = h[N]
  BY <1>1 DEF Depth
<1>3. /\ source \in NodeID /\ AtDepth(0) = {source} /\ d \in Nat /\ N \in Nat
      /\ d <= N
  BY NAssumption DEF Inputs, AtDepth
<1>4. ASSUME NEW e \in 0 .. d  PROVE e \in 0 .. N /\ AtDepth(e) \subseteq Visited
                                    /\ AtDepth(e) \subseteq NodeID
  <2>1. e \in 0 .. N /\ e <= d
    BY <1>3
  <2>2. AtDepth(e) \subseteq Reached[e] /\ Reached[e] \subseteq NodeID
    BY <2>1, LevelFacts
  <2> QED BY <2>1, <2>2, ReachedGrows
\* A vertex deeper than the source has its parent one level up.
<1>5. ASSUME NEW e \in 0 .. d, e # 0, NEW v \in AtDepth(e)
      PROVE  /\ v # source /\ v \in NodeID /\ ~ (parent[v] < 0)
             /\ e - 1 \in 0 .. d /\ parent[v] \in AtDepth(e - 1) /\ parent[v] \in NodeID
  <2>1. v \in Visited /\ v \in NodeID /\ e \in 0 .. N /\ 0 \in 0 .. N
    BY <1>3, <1>4
  <2>2. v # source
    BY <1>3, <1>5, <2>1, OneDepth
  <2>3. PICK m \in 1 .. N : v \in AtDepth(m) /\ parent[v] \in AtDepth(m - 1)
    BY <2>1, <2>2 DEF ParentInv, TreeInv
  <2>4. m \in 0 .. N
    OBVIOUS
  <2>5. m = e
    BY <2>1, <2>3, <2>4, OneDepth
  <2>6. e - 1 \in 0 .. d /\ parent[v] \in AtDepth(e - 1)
    BY <1>3, <1>5, <2>3, <2>5
  <2>7. parent[v] \in NodeID
    BY <1>4, <2>6
  <2>8. ~ (parent[v] < 0)
    BY <2>1 DEF Visited, ParentInv
  <2> QED BY <2>1, <2>2, <2>6, <2>7, <2>8
<1> DEFINE T == {i \in 0 .. N : \A e \in 0 .. d : e <= i => \A v \in AtDepth(e) : h[i][v] = e}
<1>6. 0 \in T
  <2>1. \A e \in 0 .. d : e <= 0 => e = 0
    BY <1>3
  <2>2. h[0][source] = 0 /\ 0 \in 0 .. N
    BY <1>1, <1>3 DEF IsDepths
  <2> QED BY <1>3, <2>1, <2>2
<1>7. ASSUME NEW i \in 0 .. (N - 1), i \in T  PROVE i + 1 \in T
  <2> SUFFICES ASSUME NEW e \in 0 .. d, e <= i + 1, NEW v \in AtDepth(e)
               PROVE  h[i + 1][v] = e
    BY <1>3
  <2>1. v \in NodeID
    BY <1>4
  <2>2. h[i + 1][v] = IF v = source \/ parent[v] < 0 THEN 0 ELSE 1 + h[i][parent[v]]
    BY <1>1, <2>1 DEF IsDepths
  <2>3. CASE e = 0
    BY <1>3, <2>2, <2>3
  <2>4. CASE e # 0
    <3>1. /\ v # source /\ ~ (parent[v] < 0)
          /\ e - 1 \in 0 .. d /\ parent[v] \in AtDepth(e - 1)
      BY <1>5, <2>4
    <3>2. e - 1 <= i
      BY <1>3
    <3>3. h[i][parent[v]] = e - 1
      BY <1>7, <3>1, <3>2
    <3>4. h[i + 1][v] = 1 + (e - 1)
      BY <2>2, <3>1, <3>3
    <3> QED BY <1>3, <3>4
  <2> QED BY <2>3, <2>4
<1>8. N \in T
  <2> HIDE DEF T
  <2>1. 0 .. N \subseteq T
    BY <1>6, <1>7, AllUpTo, NAssumption
  <2> QED BY <1>3, <2>1
<1>9. \A e \in 0 .. d : e <= N
  BY <1>3
<1> QED BY <1>2, <1>8, <1>9

\* Everybody reached has a depth.
LEMMA SomeDepth ==
  ASSUME Inputs, NEW d \in 0 .. N, NEW v \in Reached[d]
  PROVE  \E e \in 0 .. d : v \in AtDepth(e)
<1> DEFINE T == {i \in 0 .. N : v \in Reached[i] => \E e \in 0 .. i : v \in AtDepth(e)}
<1>1. 0 \in T
  <2>1. v \in Reached[0] => v \in AtDepth(0)
    BY ReachedFacts DEF AtDepth
  <2> QED BY <2>1, NAssumption
<1>2. ASSUME NEW i \in 0 .. (N - 1), i \in T  PROVE i + 1 \in T
  <2>1. i + 1 \in 0 .. N /\ i \in Nat /\ i + 1 # 0 /\ i + 1 - 1 = i
    BY NAssumption
  <2>2. v \in Reached[i + 1] /\ v \notin Reached[i] => v \in AtDepth(i + 1)
    BY <2>1 DEF AtDepth
  <2>3. \A e \in 0 .. i : e \in 0 .. (i + 1)
    BY <2>1
  <2>4. i + 1 \in 0 .. (i + 1)
    BY <2>1
  <2> QED BY <1>2, <2>1, <2>2, <2>3, <2>4
<1>3. 0 .. N \subseteq T
  <2> HIDE DEF T
  <2> QED BY <1>1, <1>2, AllUpTo, NAssumption
<1> QED BY <1>3

\* The level and its children in the invariant's terms.
LevelIs(d) ==
  /\ SearchedLevel = AtDepth(d) /\ Children = Visited \ Reached[d]
  /\ Reached[d] \subseteq Visited /\ Visited \subseteq Reached[Deeper(d)]

LEMMA LevelOfInv ==
  ASSUME Data, NEW d \in 0 .. N, InvAt(d), phase # "done"
  PROVE  LevelIs(d)
<1>1. Reached[d] \subseteq Visited /\ Visited \subseteq Reached[Deeper(d)]
  BY LevelFacts DEF InvAt, AtTest, AtTopDown, AtBottomUp, AtToQueue, Data
<1>2. SearchedLevel = AtDepth(d)
  <2>1. CASE phase \in {"test", "topDown"}
    BY <2>1 DEF InvAt, AtTest, AtTopDown, SearchedLevel
  <2>2. CASE phase \in {"bottomUp", "toQueue"}
    <3>1. AtDepth(d) \subseteq front /\ front \subseteq Reached[d] /\ (AtDepth(d) = {} => front = {})
      BY <2>2, LevelFacts DEF InvAt, AtBottomUp, AtToQueue, Data
    <3>2. \A e \in 0 .. d : \A v \in AtDepth(e) : Depth[v] = e
      BY <1>1, DepthIsLevel DEF Data
    <3>3. d \in Nat /\ d \in 0 .. d
      BY NAssumption
    <3>4. ASSUME NEW v \in front  PROVE \E e \in 0 .. d : v \in AtDepth(e) /\ Depth[v] = e
      BY <3>1, <3>2, <3>4, SomeDepth DEF Data
    <3>5. ASSUME NEW v \in AtDepth(d), NEW m \in front  PROVE Depth[m] <= Depth[v]
      <4>1. Depth[v] = d
        BY <3>2, <3>3
      <4>2. PICK e \in 0 .. d : Depth[m] = e
        BY <3>4
      <4> QED BY <3>3, <4>1, <4>2
    <3>6. ASSUME NEW v \in front, \A m \in front : Depth[m] <= Depth[v]  PROVE v \in AtDepth(d)
      <4>1. PICK m \in AtDepth(d) : m \in front
        BY <3>1
      <4>2. Depth[m] = d
        BY <3>2, <3>3
      <4>3. PICK e \in 0 .. d : v \in AtDepth(e) /\ Depth[v] = e
        BY <3>4
      <4>4. Depth[m] <= Depth[v]
        BY <3>6, <4>1
      <4>5. e = d
        BY <3>3, <4>2, <4>3, <4>4
      <4> QED BY <4>3, <4>5
    <3>7. Deepest(front) = AtDepth(d)
      BY <3>1, <3>5, <3>6 DEF Deepest
    <3> QED BY <2>2, <3>7 DEF SearchedLevel
  <2> QED BY <2>1, <2>2 DEF InvAt
<1>3. Children = {n \in NodeID \ {source} : parent[n] \in AtDepth(d)}
  BY <1>2 DEF Children
<1>4. d \in Nat /\ d + 1 # 0 /\ d + 1 - 1 = d
  BY NAssumption
<1>5. ASSUME NEW n \in NodeID \ {source}, parent[n] \in AtDepth(d)
      PROVE  n \in Visited \ Reached[d]
  <2>1. parent[n] \in NodeID
    BY <1>5, LevelFacts DEF Data
  <2>2. n \in Visited
    BY <2>1, NAssumption DEF Visited, NodeID
  <2>3. PICK e \in 1 .. N : n \in AtDepth(e) /\ parent[n] \in AtDepth(e - 1)
    BY <2>2 DEF Data, ParentInv, TreeInv
  <2>4. e - 1 \in 0 .. N
    BY NAssumption
  <2>5. e - 1 = d
    BY <1>5, <2>3, <2>4, OneDepth DEF Data
  <2>6. e # 0 /\ Reached[e - 1] = Reached[d]
    BY <2>5
  <2>7. n \notin Reached[d]
    BY <2>3, <2>6 DEF AtDepth
  <2> QED BY <2>2, <2>7
<1>6. ASSUME NEW n \in Visited \ Reached[d]
      PROVE  n \in NodeID \ {source} /\ parent[n] \in AtDepth(d)
  <2>1. n \in NodeID /\ n # source /\ n \in AtDepth(Deeper(d)) /\ Deeper(d) \in 0 .. N
    BY <1>1, LevelFacts DEF Data, Visited
  <2>2. d < N
    <3>1. CASE d = N
      BY <2>1, <3>1, NobodyAtN DEF Deeper, Data
    <3> QED BY <3>1, NAssumption
  <2>3. Deeper(d) = d + 1
    BY <2>2 DEF Deeper
  <2>4. PICK e \in 1 .. N : n \in AtDepth(e) /\ parent[n] \in AtDepth(e - 1)
    BY <2>1 DEF Data, ParentInv, TreeInv
  <2>5. e \in 0 .. N
    BY NAssumption
  <2>6. e = d + 1
    BY <2>1, <2>3, <2>4, <2>5, OneDepth DEF Data
  <2>7. e - 1 = d
    BY <1>4, <2>6
  <2> QED BY <2>1, <2>4, <2>7
<1>7. Children = Visited \ Reached[d]
  BY <1>3, <1>5, <1>6
<1> QED BY <1>1, <1>2, <1>7 DEF LevelIs

\* The same of any state, and so of the one after a step.
LevelKnown == Data /\ phase # "done" => \A d \in 0 .. N : InvAt(d) => LevelIs(d)

LEMMA LevelAlwaysKnown == LevelKnown /\ LevelKnown'
<1>1. LevelKnown
  BY LevelOfInv DEF LevelKnown
<1> QED BY <1>1, PTL

\* What a step does to the tree, given what it does to the level.
Quiet(d) == InvAt(d)' /\ UNCHANGED parent
Adopting(d) == InvAt(d)' /\ Adoption(d)
Deepening(d) == InvAt(Deeper(d))' /\ UNCHANGED parent
Searching == phase # "done" /\ phase' # "done"

LEMMA StepsOfTree ==
  ASSUME Data, NEW d \in 0 .. N, InvAt(d), Next
  PROVE  Finish \/ (Searching /\ (Quiet(d) \/ Adopting(d) \/ Deepening(d)))
<1>1. CASE GoBottomUp \/ GoTopDown \/ EndToQueue
  BY <1>1, GoBottomUpKeeps, GoTopDownKeeps, EndToQueueKeeps
  DEF GoBottomUp, GoTopDown, EndToQueue, StartBottomUp, Searching, Quiet
<1>2. CASE EndTopDown \/ EndBottomUp
  BY <1>2, EndTopDownKeeps, EndBottomUpKeeps
  DEF EndTopDown, EndBottomUp, StartBottomUp, Searching, Deepening
<1>3. CASE \E t \in Threads : Thread(t)
  <2>1. PICK t \in Threads : Thread(t)
    BY <1>3
  <2>2. phase = "done" => pc[t] = "idle"
    BY DEF InvAt, AtDone, Idle
  <2>3. CASE \E i \in todo : TakeElement(t, i)
    BY <2>3, TakeElementKeeps DEF TakeElement, Searching, Quiet
  <2>4. CASE EndElement(t) \/ ReadParent(t)
    BY <2>2, <2>4, EndElementKeeps, ReadParentKeeps DEF EndElement, ReadParent, Searching, Quiet
  <2>5. CASE CompareAndSwap(t)
    BY <2>2, <2>5, CompareAndSwapKeeps DEF CompareAndSwap, Searching, Quiet, Adopting
  <2>6. CASE \E c \in todo : TakeChunk(t, c)
    BY <2>6, TakeChunkKeeps DEF TakeChunk, Searching, Quiet
  <2>7. CASE Look(t)
    BY <2>2, <2>7, LookKeeps DEF Look, Searching, Quiet, Adopting
  <2>8. CASE ReadWord(t) \/ WriteWord(t)
    BY <2>2, <2>8, ReadWordKeeps, WriteWordKeeps DEF ReadWord, WriteWord, Searching, Quiet
  <2>9. CASE LastFlush(t)
    BY <2>9, LastFlushKeeps DEF LastFlush, Searching, Quiet
  <2>10. CASE \E n \in todo : TakeBit(t, n)
    BY <2>10, TakeBitKeeps DEF TakeBit, Searching, Quiet
  <2> QED
    BY <2>1, <2>3, <2>4, <2>5, <2>6, <2>7, <2>8, <2>9, <2>10 DEF Thread, TopDownStep, BottomUpStep
<1> QED BY <1>1, <1>2, <1>3 DEF Next, Serial

\* A search begins as its abstraction does.
LEMMA InitBegins ==
  ASSUME Init  PROVE Levels!LInit
<1>1. Inputs /\ phase = "test" /\ parent = [n \in NodeID |-> IF n = source THEN source ELSE InitParent(n)]
  BY DEF Init, Inputs
<1>2. source \in NodeID /\ source \in Nat
  BY <1>1, NAssumption DEF Inputs, NodeID
<1>3. \A n \in NodeID : InitParent(n) \in Int /\ InitParent(n) < 0
  BY <1>1, InitParentNegative
<1>4. Adopted = [n \in NodeID |-> IF n = source THEN source ELSE NoParent]
  <2>1. ASSUME NEW n \in NodeID
        PROVE  (IF parent[n] < 0 THEN NoParent ELSE parent[n])
                 = IF n = source THEN source ELSE NoParent
    BY <1>1, <1>2, <1>3
  <2> QED BY <2>1 DEF Adopted
<1>5. SearchedLevel = {source}
  <2>1. queue.shared[0] = source /\ queue.start = 0 /\ queue.end = 1
    BY <1>2, NAssumption DEF Init, SlideWindow, PushBack, NewQueue
  <2>2. 0 .. (1 - 1) = {0}
    OBVIOUS
  <2> QED BY <1>1, <2>1, <2>2 DEF SearchedLevel, Elements
<1>6. Children = {}
  <2>1. ASSUME NEW n \in NodeID \ {source}  PROVE parent[n] \notin {source}
    BY <1>1, <1>2, <1>3
  <2> QED BY <1>5, <2>1 DEF Children
<1> QED BY <1>1, <1>2, <1>4, <1>5, <1>6 DEF Inputs, Levels!LInit, Levels!NodeID, NodeID

\* Nothing is adopted and the level stays.
LEMMA QuietStutters ==
  ASSUME Data, Data', NEW d \in 0 .. N, InvAt(d), Searching, Quiet(d),
         UNCHANGED <<graph, source>>
  PROVE  UNCHANGED Levels!lvars
<1>1. LevelIs(d) /\ LevelIs(d)'
  BY LevelAlwaysKnown DEF LevelKnown, Searching, Quiet
<1>2. Visited' = Visited /\ Adopted' = Adopted
  BY DEF Visited, Adopted, Quiet
<1> QED BY <1>1, <1>2, Rigid DEF LevelIs, Levels!lvars

\* A vertex is adopted by one of the level.
LEMMA AdoptionAdopts ==
  ASSUME Data, Data', NEW d \in 0 .. N, InvAt(d), Searching, Adopting(d),
         UNCHANGED <<graph, source>>
  PROVE  Levels!LNext
<1>1. LevelIs(d) /\ LevelIs(d)'
  BY LevelAlwaysKnown DEF LevelKnown, Searching, Adopting
<1>2. PICK p \in AtDepth(d), v \in AtDepth(Deeper(d)) :
        /\ Occurs(v, OutNeigh(graph, p)) /\ v \notin Visited
        /\ parent' = [parent EXCEPT ![v] = p]
  BY DEF Adopting, Adoption
<1>3. p \in NodeID /\ v \in NodeID /\ v \notin Reached[d] /\ p \in Nat
  <2>1. /\ Deeper(d) \in 0 .. N /\ AtDepth(d) \subseteq Reached[d] /\ Reached[d] \subseteq NodeID
        /\ AtDepth(Deeper(d)) = Reached[Deeper(d)] \ Reached[d]
    BY LevelFacts DEF Data
  <2>2. Reached[Deeper(d)] \subseteq NodeID
    BY <2>1, LevelFacts DEF Data
  <2> QED BY <1>2, <2>1, <2>2, NAssumption DEF NodeID
<1>4. parent \in [NodeID -> Int]
  BY DEF Data, ParentInv
<1>5. parent[v] < 0
  BY <1>2, <1>3, <1>4 DEF Visited
<1>6. /\ parent'[v] = p
      /\ \A n \in NodeID : n # v => parent'[n] = parent[n]
  BY <1>2, <1>3, <1>4
<1>7. Adopted[v] = NoParent /\ Adopted' = [Adopted EXCEPT ![v] = p]
  <2>1. Adopted[v] = NoParent
    BY <1>3, <1>5 DEF Adopted
  <2>2. ASSUME NEW n \in NodeID
        PROVE  (IF parent'[n] < 0 THEN NoParent ELSE parent'[n]) = IF n = v THEN p ELSE Adopted[n]
    BY <1>3, <1>6 DEF Adopted
  <2>3. Adopted' = [n \in NodeID |-> IF n = v THEN p ELSE Adopted[n]]
    BY <2>2 DEF Adopted
  <2>4. [Adopted EXCEPT ![v] = p] = [n \in NodeID |-> IF n = v THEN p ELSE Adopted[n]]
    BY DEF Adopted
  <2> QED BY <2>1, <2>3, <2>4
<1>8. Visited' = Visited \union {v}
  <2>1. p >= 0 /\ parent'[v] >= 0
    BY <1>3, <1>6
  <2>2. ASSUME NEW n \in NodeID  PROVE parent'[n] >= 0 <=> n = v \/ parent[n] >= 0
    BY <1>6, <2>1
  <2> QED BY <1>3, <2>2 DEF Visited
<1>9. SearchedLevel' = SearchedLevel /\ Children' = Children \union {v} /\ p \in SearchedLevel
  BY <1>1, <1>2, <1>3, <1>8, Rigid DEF LevelIs
<1>10. Levels!Adopt(v, p)
  BY <1>2, <1>7, <1>9 DEF Levels!Adopt, Levels!Occurs, Levels!OutNeigh, Occurs, OutNeigh
<1> QED BY <1>3, <1>10 DEF Levels!LNext, Levels!NodeID, NodeID

\* The next level is begun when this one has adopted all it can.
LEMMA DeepeningBegins ==
  ASSUME Data, Data', NEW d \in 0 .. N, InvAt(d), Searching, Deepening(d),
         UNCHANGED <<graph, source>>
  PROVE  Levels!LNext
<1> DEFINE e == Deeper(d)
<1>1. /\ e \in 0 .. N /\ AtDepth(e) = Reached[e] \ Reached[d] /\ AtDepth(d) \subseteq Reached[d]
      /\ \A p \in AtDepth(d) : \A v \in NodeID : Occurs(v, OutNeigh(graph, p)) => v \in Reached[e]
  BY LevelFacts DEF Data
<1>2. LevelIs(d) /\ LevelIs(e)'
  BY <1>1, LevelAlwaysKnown DEF LevelKnown, Searching, Deepening
<1>3. Visited' = Visited /\ Adopted' = Adopted
  BY DEF Visited, Adopted, Deepening
<1>4. Visited = Reached[e]
  BY <1>2, <1>3, Rigid DEF LevelIs
<1>5. SearchedLevel' = Children /\ Children' = {}
  BY <1>1, <1>2, <1>3, <1>4, Rigid DEF LevelIs
<1>6. ASSUME NEW p \in SearchedLevel, NEW v \in NodeID, Occurs(v, OutNeigh(graph, p))
      PROVE  Adopted[v] # NoParent
  <2>1. v \in Visited
    BY <1>1, <1>2, <1>4, <1>6 DEF LevelIs
  <2>2. parent[v] \in Int /\ parent[v] >= 0
    BY <2>1 DEF Visited, Data, ParentInv
  <2> QED BY <2>2 DEF Adopted, NoParent
<1>7. Levels!NextLevel
  BY <1>3, <1>5, <1>6
  DEF Levels!NextLevel, Levels!Occurs, Levels!OutNeigh, Levels!NodeID, Occurs, OutNeigh, NodeID
<1> QED BY <1>7 DEF Levels!LNext

\* Rewriting the vertices without a parent changes nothing in the tree.
LEMMA FinishStutters ==
  ASSUME Data, NEW d \in 0 .. N, InvAt(d), Finish
  PROVE  UNCHANGED Levels!lvars
<1>1. /\ phase = "test" /\ phase' = "done" /\ queue.start = queue.end
      /\ parent' = [n \in NodeID |-> IF parent[n] < -1 THEN -1 ELSE parent[n]]
      /\ UNCHANGED <<graph, source, queue>>
  BY DEF Finish, inputs
<1>2. Elements(queue) = {}
  <2>1. queue.start \in Int
    BY DEF Data, QueueInv, Queues
  <2> QED BY <1>1, <2>1 DEF Elements
<1>3. SearchedLevel = {} /\ SearchedLevel' = {}
  BY <1>1, <1>2 DEF SearchedLevel, Elements
<1>4. Children = {} /\ Children' = {}
  BY <1>3 DEF Children
<1>5. ASSUME NEW n \in NodeID
      PROVE  (IF parent'[n] < 0 THEN NoParent ELSE parent'[n])
               = IF parent[n] < 0 THEN NoParent ELSE parent[n]
  <2>1. parent[n] \in Int
    BY DEF Data, ParentInv
  <2> QED BY <1>1, <2>1 DEF NoParent
<1>6. Adopted' = Adopted
  BY <1>5 DEF Adopted
<1> QED BY <1>1, <1>3, <1>4, <1>6 DEF Levels!lvars

LEMMA RigidInputs == ASSUME Next  PROVE UNCHANGED <<graph, source>>
  BY DEF Next, Serial, Thread, TopDownStep, BottomUpStep, Finish, GoBottomUp, GoTopDown,
         EndTopDown, EndBottomUp, EndToQueue, TakeElement, EndElement, ReadParent,
         CompareAndSwap, TakeChunk, Look, ReadWord, WriteWord, LastFlush, TakeBit, inputs

\* The search, whichever way each level goes and whoever wins a race, adopts
\* level by level: it implements LevelBFS.
THEOREM Refinement == Spec => RefinesLevels
<1>1. Inv /\ Inv' /\ [Next]_vars => [Levels!LNext]_(Levels!lvars)
  <2> SUFFICES ASSUME Inv, Inv', [Next]_vars  PROVE [Levels!LNext]_(Levels!lvars)
    OBVIOUS
  <2>1. PICK d \in 0 .. N : InvAt(d)
    BY DEF Inv
  <2>2. Data /\ Data'
    BY DEF Inv
  <2>3. CASE Next
    <3>1. UNCHANGED <<graph, source>>
      BY <2>3, RigidInputs
    <3>2. Finish \/ (Searching /\ (Quiet(d) \/ Adopting(d) \/ Deepening(d)))
      BY <2>1, <2>2, <2>3, StepsOfTree
    <3> QED BY <2>1, <2>2, <3>1, <3>2, FinishStutters, QuietStutters, AdoptionAdopts,
               DeepeningBegins
  <2>4. CASE UNCHANGED vars
    BY <2>4 DEF vars, inputs, bitmaps, Levels!lvars, Adopted, SearchedLevel, Children, Deepest,
                Depth, Elements
  <2> QED BY <2>3, <2>4
<1> QED BY <1>1, InitBegins, Invariance, PTL DEF Spec, RefinesLevels, Levels!LSpec
=============================================================================
