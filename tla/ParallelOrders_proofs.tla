------------------------- MODULE ParallelOrders_proofs -------------------------
(***************************************************************************)
(* Proofs about the orders several threads compute together: the           *)
(* properties of HubMapping, for every number of vertices and threads and  *)
(* all degrees; of Rabbit Order that merged vertices are frozen, for every *)
(* weighted graph, number of threads and choice of neighbours; and of      *)
(* Leiden that its communities are sound, for every symmetric graph,       *)
(* number of threads, chunk size and bound on iterations and passes.       *)
(***************************************************************************)
EXTENDS MCParallelOrders, CommonFacts

(***************************************************************************)
(* The ids of the hubs.  They are not input: a hub is the one that so many *)
(* others come before.                                                     *)
(***************************************************************************)
Rank == [v \in Hubs |-> Cardinality({u \in Hubs : IF kind = "HubSort" THEN Before(u, v) ELSE u < v})]

Free == NodeID \ {new_ids[v] : v \in Assigned}

-----------------------------------------------------------------------------
(* The inductive invariant: the types and, for every phase, what holds in it. *)

Numbering == {"rank", "mark", "number"}
First  == {"easy", "fault"}
Last   == {"rest", "done"}

Types ==
  /\ input \in Inputs /\ kind \in Kinds
  /\ new_ids \in [NodeID -> NodeID \union {None, 1}]
  /\ phase \in Numbering \union First \union Last
  /\ localOffsets \in [Threads -> Nat]
  /\ pc \in [Threads -> {"start", "marked", "numbered", "loop", "keep", "look", "swap", "push",
                         "flush", "copy", "lastFlush", "lastCopy", "flushed", "fetch", "assign"}]
  /\ n \in [Threads -> NodeID]
  /\ slot \in [Threads -> 0 .. N]
  /\ lqueue \in [Threads -> Seq(NodeID)]

\* Where the hubs are counted nothing else has begun.
Beginning ==
  phase \in Numbering =>
    /\ todo = {} /\ unassignedCtr = 0 /\ queue = NewQueue(0)
    /\ \A t \in Threads : lqueue[t] = << >> /\ pc[t] \in {"start", "marked", "numbered"}

Ranking == phase = "rank" => kind = "HubSort" /\ numHubs = 0

Marking ==
  phase = "mark" =>
    /\ kind # "HubSort" /\ numHubs = 0
    /\ \A t \in Threads :
         /\ pc[t] # "numbered"
         /\ pc[t] = "marked" => localOffsets[t] = Cardinality(Hubs \intersect Part(t))
         /\ \A v \in Part(t) : new_ids[v] = IF pc[t] = "marked" /\ v \in Hubs THEN 1 ELSE None

Counted ==
  phase = "number" =>
    /\ kind # "HubSort" /\ numHubs = Cardinality(Hubs)
    /\ \A t \in Threads :
         /\ pc[t] # "start"
         /\ localOffsets[t] = Cardinality({w \in Hubs : w < partitionSz * t})
         /\ \A v \in Part(t) : new_ids[v] = IF v \notin Hubs THEN None
                                            ELSE IF pc[t] = "numbered" THEN Rank[v] ELSE 1

HubsRanked ==
  phase \in First \union Last =>
    numHubs = Cardinality(Hubs) /\ \A v \in Hubs : new_ids[v] = Rank[v]

-----------------------------------------------------------------------------
(* The first loop: every vertex from numHubs on is still to be taken, in   *)
(* the hands of a thread, where it was or swapped with the vertex that had *)
(* its hub's id, or waiting in the queue or in a buffer.                   *)

Busy(t)    == pc[t] \in {"keep", "look", "swap", "push", "flush", "copy"}
Copying(t) == pc[t] \in {"copy", "lastCopy"}
Claim(t)   == slot[t] .. (slot[t] + Len(lqueue[t]) - 1)
Filled     == {p \in 0 .. (queue.in - 1) : \A t \in Threads : Copying(t) => p \notin Claim(t)}
Buffered   == {b \in Threads \X Nat : b[2] \in 1 .. Len(lqueue[b[1]])}

\* Handled by no thread any more.
Left == {v \in NodeID : v \notin todo /\ \A t \in Threads : Busy(t) => n[t] # v}

Waiting == {v \in Hubs : v >= numHubs /\ Rank[v] \in Hubs /\ v \in Left}

Handled ==
  phase \in First =>
    /\ todo \subseteq numHubs .. (N - 1)
    /\ \A t \in Threads : Busy(t) => n[t] \in numHubs .. (N - 1) /\ n[t] \notin todo
    /\ \A s, t \in Threads : Busy(s) /\ Busy(t) /\ n[s] = n[t] => s = t

Steps ==
  phase \in First =>
    \A t \in Threads :
      /\ pc[t] \notin {"start", "marked", "numbered", "fetch", "assign"}
      /\ pc[t] = "keep" => n[t] \notin Hubs
      /\ pc[t] \in {"look", "swap"} => n[t] \in Hubs /\ slot[t] = Rank[n[t]]
      /\ pc[t] = "swap" => slot[t] \notin Hubs
      /\ pc[t] \in {"push", "flush", "copy"} => n[t] \in Hubs /\ Rank[n[t]] \in Hubs
      /\ pc[t] \in {"lastFlush", "lastCopy", "flushed"} => todo = {}
      /\ pc[t] = "flushed" => lqueue[t] = << >>
      /\ phase = "easy" /\ Copying(t) => numHubs # 0

Placed ==
  phase \in First =>
    \A v \in NodeID \ Hubs : new_ids[v] # None =>
      IF v >= numHubs THEN new_ids[v] = v /\ v \in Left
      ELSE /\ new_ids[v] \in Hubs /\ new_ids[v] >= numHubs
           /\ Rank[new_ids[v]] = v /\ new_ids[v] \in Left

Queue ==
  phase \in First =>
    /\ unassignedCtr = 0
    /\ queue \in Queues(numHubs, NodeID \union {None})
    /\ queue.start = 0 /\ queue.end = 0
    /\ \A t \in Threads : Copying(t) => slot[t] + Len(lqueue[t]) <= queue.in
    /\ \A s, t \in Threads : Copying(s) /\ Copying(t) /\ s # t => Claim(s) \intersect Claim(t) = {}

Contents ==
  phase \in First =>
    /\ \A p \in Filled : queue.shared[p] \in Waiting
    /\ \A b \in Buffered : lqueue[b[1]][b[2]] \in Waiting
    /\ \A p, q \in Filled : queue.shared[p] = queue.shared[q] => p = q
    /\ \A b, c \in Buffered : lqueue[b[1]][b[2]] = lqueue[c[1]][c[2]] => b = c
    /\ \A p \in Filled, b \in Buffered : queue.shared[p] # lqueue[b[1]][b[2]]

Stored == {queue.shared[p] : p \in Filled} \union {lqueue[b[1]][b[2]] : b \in Buffered}

Complete ==
  phase \in First =>
    \A v \in numHubs .. (N - 1) :
      \/ v \notin Left
      \/ v \notin Hubs /\ new_ids[v] = v
      \/ v \in Hubs /\ Rank[v] \notin Hubs /\ new_ids[Rank[v]] = v
      \/ v \in Hubs /\ v \in Stored

-----------------------------------------------------------------------------
(* The last loop: the positions of the window nobody has written to the    *)
(* mapping hold the ids nobody has.                                        *)

Unused == {p \in 0 .. (queue.end - 1) :
             p >= unassignedCtr \/ \E t \in Threads : pc[t] = "assign" /\ slot[t] = p}

Window0 ==
  phase \in Last =>
    /\ queue \in Queues(numHubs, NodeID \union {None})
    /\ queue.start = 0 /\ queue.end = queue.in /\ queue.in <= numHubs
    /\ unassignedCtr \in 0 .. queue.end
    /\ todo \subseteq 0 .. (numHubs - 1)
    /\ \A p, q \in 0 .. (queue.end - 1) : queue.shared[p] = queue.shared[q] => p = q
    /\ Free = {queue.shared[p] : p \in Unused}

Searching ==
  phase \in Last =>
    /\ \A t \in Threads :
         /\ pc[t] \in {"loop", "fetch", "assign"}
         /\ pc[t] # "loop" => n[t] \in 0 .. (numHubs - 1) /\ n[t] \notin todo /\ new_ids[n[t]] = None
         /\ pc[t] = "assign" => slot[t] < unassignedCtr
    /\ \A s, t \in Threads : s # t =>
         /\ pc[s] # "loop" /\ pc[t] # "loop" => n[s] # n[t]
         /\ pc[s] = "assign" /\ pc[t] = "assign" => slot[s] # slot[t]

Mapped ==
  phase \in Last =>
    /\ \A v \in NodeID : new_ids[v] = None => \/ v \in todo
                                              \/ \E t \in Threads : pc[t] # "loop" /\ n[t] = v
    /\ \A u, v \in Assigned : new_ids[u] = new_ids[v] => u = v
    /\ \A v \in NodeID \ Hubs : v >= numHubs => new_ids[v] = v
    /\ new_ids \in [NodeID -> NodeID \union {None}]

Ended == phase = "done" => todo = {} /\ \A t \in Threads : pc[t] = "loop"

Opening == Beginning /\ Ranking /\ Marking /\ Counted
Sorting == Handled /\ Steps /\ Placed /\ Queue /\ Contents /\ Complete
Closing == Window0 /\ Searching /\ Mapped /\ Ended

Inv == Types /\ Opening /\ HubsRanked /\ Sorting /\ Closing

-----------------------------------------------------------------------------
(* The ranks. *)

Ahead(u, v) == IF kind = "HubSort" THEN Before(u, v) ELSE u < v
InFront(v)  == {u \in Hubs : Ahead(u, v)}

LEMMA Sizes ==
  /\ IsFiniteSet(NodeID) /\ Cardinality(NodeID) = N
  /\ IsFiniteSet(Hubs) /\ Cardinality(Hubs) \in 0 .. N
<1>1. IsFiniteSet(NodeID) /\ Cardinality(NodeID) = N
  BY NAssumption, FS_Interval DEF NodeID
<1>2. IsFiniteSet(Hubs) /\ Cardinality(Hubs) <= Cardinality(NodeID)
  BY <1>1, FS_Subset DEF Hubs
<1>3. Cardinality(Hubs) \in Nat
  BY <1>2, FS_CardinalityType
<1> QED BY <1>1, <1>2, <1>3, NAssumption

LEMMA AheadIsAnOrder ==
  ASSUME Types
  PROVE  /\ \A u \in Hubs : ~ Ahead(u, u)
         /\ \A u, v, w \in Hubs : Ahead(u, v) /\ Ahead(v, w) => Ahead(u, w)
         /\ \A u, v \in Hubs : u # v => Ahead(u, v) \/ Ahead(v, u)
<1>1. \A v \in NodeID : input.degree[v] \in Nat /\ v \in Int
  <2>1. input.degree \in [NodeID -> Nat]
    BY HubAssumption DEF Types
  <2>2. NodeID \subseteq Int
    BY DEF NodeID
  <2> QED BY <2>1, <2>2
<1>2. Hubs \subseteq NodeID
  BY DEF Hubs
<1> QED BY <1>1, <1>2 DEF Ahead, Before

LEMMA RanksGrow ==
  ASSUME Types
  PROVE  /\ \A v \in Hubs : Rank[v] \in 0 .. (Cardinality(Hubs) - 1)
         /\ \A u, v \in Hubs : Ahead(u, v) => Rank[u] < Rank[v]
<1>1. \A v \in Hubs : Rank[v] = Cardinality(InFront(v))
  BY DEF Rank, InFront, Ahead
<1>2. ASSUME NEW v \in Hubs
      PROVE  IsFiniteSet(InFront(v)) /\ Cardinality(InFront(v)) \in 0 .. (Cardinality(Hubs) - 1)
  <2>1. InFront(v) \subseteq Hubs /\ v \notin InFront(v)
    BY AheadIsAnOrder DEF InFront
  <2>2. /\ IsFiniteSet(InFront(v)) /\ Cardinality(InFront(v)) <= Cardinality(Hubs)
        /\ Cardinality(Hubs) # Cardinality(InFront(v))
    BY <2>1, Sizes, FS_Subset
  <2> QED BY <2>2, Sizes, FS_CardinalityType
<1>3. ASSUME NEW u \in Hubs, NEW v \in Hubs, Ahead(u, v)
      PROVE  Cardinality(InFront(u)) < Cardinality(InFront(v))
  <2>1. InFront(u) \subseteq InFront(v)
    BY <1>3, AheadIsAnOrder DEF InFront
  <2>2. u \in InFront(v) /\ u \notin InFront(u)
    BY <1>3, AheadIsAnOrder DEF InFront
  <2>3. /\ Cardinality(InFront(u)) <= Cardinality(InFront(v))
        /\ Cardinality(InFront(v)) # Cardinality(InFront(u))
    BY <1>2, <2>1, <2>2, FS_Subset
  <2> QED BY <1>2, <2>3
<1> QED BY <1>1, <1>2, <1>3

\* Every number below that of the hubs is the rank of one hub.
LEMMA RanksAreIds ==
  ASSUME Types
  PROVE  /\ Rank \in [Hubs -> 0 .. (Cardinality(Hubs) - 1)]
         /\ \A u, v \in Hubs : Rank[u] = Rank[v] => u = v
         /\ \A i \in 0 .. (Cardinality(Hubs) - 1) : \E v \in Hubs : Rank[v] = i
<1> DEFINE Ranks == 0 .. (Cardinality(Hubs) - 1)
<1>1. Rank \in [Hubs -> Ranks]
  BY RanksGrow DEF Rank
<1>2. ASSUME NEW u \in Hubs, NEW v \in Hubs, Rank[u] = Rank[v]  PROVE u = v
  <2>1. Rank[u] \in Int /\ ~ (Rank[u] < Rank[v]) /\ ~ (Rank[v] < Rank[u])
    BY <1>2, RanksGrow, Sizes
  <2> QED BY <2>1, RanksGrow, AheadIsAnOrder
<1>3. IsFiniteSet(Ranks) /\ Cardinality(Ranks) = Cardinality(Hubs)
  BY Sizes, FS_Interval
<1>4. Rank \in Injection(Hubs, Ranks)
  BY <1>1, <1>2, Fun_IsInj
<1>5. Rank \in Surjection(Hubs, Ranks)
  BY <1>3, <1>4, FS_Injection
<1>6. \A i \in Ranks : \E v \in Hubs : Rank[v] = i
  <2> HIDE DEF Ranks
  <2> QED BY <1>5 DEF Surjection
<1> QED BY <1>1, <1>2, <1>6

\* The arguments stay, and with them the hubs and their ranks.
LEMMA ArgumentsStay ==
  ASSUME UNCHANGED <<input, kind>>
  PROVE  Hubs' = Hubs /\ Rank' = Rank /\ \A v \in NodeID : IsHub(v)' <=> IsHub(v)
  BY DEF Hubs, Rank, IsHub, avgDegree, Before

-----------------------------------------------------------------------------
(* The parts of the vertices the threads of HubCluster number. *)

LEMMA Bounds ==
  /\ NumThreads \in Nat \ {0} /\ Threads = 0 .. (NumThreads - 1) /\ N \in Nat \ {0}
  /\ partitionSz \in Nat /\ partitionSz * NumThreads <= N
  /\ \A t \in Nat : partitionSz * t \in Nat /\ partitionSz * (t + 1) = partitionSz * t + partitionSz
  /\ \A s, t \in Nat : s < t => partitionSz * (s + 1) <= partitionSz * t
<1>1. NumThreads \in Nat \ {0} /\ Threads = 0 .. (NumThreads - 1) /\ N \in Nat \ {0}
  BY HubAssumption, NAssumption
<1>2. \A m \in Nat, k \in Nat \ {0} : m \div k \in Nat /\ (m \div k) * k <= m
  OBVIOUS
<1>3. partitionSz \in Nat /\ partitionSz * NumThreads <= N
  BY <1>1, <1>2 DEF partitionSz
<1> HIDE DEF partitionSz
<1>4. ASSUME NEW t \in Nat
      PROVE  partitionSz * t \in Nat /\ partitionSz * (t + 1) = partitionSz * t + partitionSz
  BY <1>3
<1>5. ASSUME NEW s \in Nat, NEW t \in Nat, s < t  PROVE partitionSz * (s + 1) <= partitionSz * t
  <2> DEFINE k == t - (s + 1)
  <2>1. k \in Nat /\ t = (s + 1) + k
    BY <1>5
  <2>2. partitionSz * t = partitionSz * (s + 1) + partitionSz * k /\ partitionSz * k \in Nat
    BY <1>3, <2>1
  <2>3. partitionSz * (s + 1) \in Nat
    BY <1>3
  <2> QED BY <2>2, <2>3
<1> QED BY <1>1, <1>3, <1>4, <1>5

\* Where thread t begins, and where the last one ends.
From(t) == IF t = NumThreads THEN N ELSE partitionSz * t

LEMMA PartIsBetween ==
  /\ From(0) = 0 /\ From(NumThreads) = N
  /\ \A t \in 0 .. NumThreads : From(t) \in 0 .. N
  /\ \A t \in Threads : Part(t) = From(t) .. (From(t + 1) - 1) /\ From(t) <= From(t + 1)
  /\ \A s, t \in Threads : s < t => From(s + 1) <= From(t)
<1>1. ASSUME NEW t \in Threads
      PROVE  /\ Part(t) = From(t) .. (From(t + 1) - 1) /\ From(t) <= From(t + 1)
             /\ From(t) \in Nat /\ From(t + 1) \in Nat
  <2>1. t \in Nat /\ t < NumThreads /\ t # NumThreads /\ partitionSz * t \in Nat
        /\ partitionSz * (t + 1) \in Nat /\ partitionSz * t <= partitionSz * (t + 1)
    BY Bounds
  <2>2. CASE t = NumThreads - 1
    <3>1. From(t) = partitionSz * t /\ From(t + 1) = N /\ Part(t) = (partitionSz * t) .. (N - 1)
      BY Bounds, <2>1, <2>2 DEF From, Part
    <3>2. partitionSz * t <= N
      BY Bounds, <2>1, <2>2
    <3> QED BY Bounds, <2>1, <3>1, <3>2
  <2>3. CASE t # NumThreads - 1
    <3>1. t + 1 # NumThreads
      BY Bounds, <2>1, <2>3
    <3>2. /\ From(t) = partitionSz * t /\ From(t + 1) = partitionSz * (t + 1)
          /\ Part(t) = (partitionSz * t) .. (partitionSz * (t + 1) - 1)
      BY <2>1, <2>3, <3>1 DEF From, Part
    <3> QED BY <2>1, <3>2
  <2> QED BY <2>2, <2>3
<1>2. ASSUME NEW s \in Threads, NEW t \in Threads, s < t  PROVE From(s + 1) <= From(t)
  <2>1. s \in Nat /\ t \in Nat /\ t # NumThreads /\ s + 1 # NumThreads
    BY Bounds, <1>2
  <2>2. From(t) = partitionSz * t /\ From(s + 1) = partitionSz * (s + 1)
    BY <2>1 DEF From
  <2> QED BY Bounds, <1>2, <2>1, <2>2
<1>3. From(0) = 0 /\ From(NumThreads) = N
  BY Bounds DEF From
<1>4. ASSUME NEW t \in 0 .. NumThreads  PROVE From(t) \in 0 .. N
  <2>1. CASE t = NumThreads
    BY <1>3, <2>1, Bounds
  <2>2. CASE t # NumThreads
    <3>1. t \in Threads
      BY Bounds, <2>2
    <3>2. From(t) \in Nat /\ From(t) = partitionSz * t
      BY <1>1, <2>2, <3>1 DEF From
    <3>3. partitionSz * t <= partitionSz * NumThreads
      <4>1. t \in Nat /\ t < NumThreads /\ t + 1 \in Nat
        BY Bounds, <3>1
      <4>2. /\ partitionSz * t <= partitionSz * (t + 1) /\ partitionSz * (t + 1) <= partitionSz * NumThreads
            /\ partitionSz * t \in Nat /\ partitionSz * (t + 1) \in Nat /\ partitionSz * NumThreads \in Nat
        BY Bounds, <4>1
      <4> QED BY <4>2
    <3> QED BY Bounds, <3>2, <3>3
  <2> QED BY <2>1, <2>2
<1> QED BY <1>1, <1>2, <1>3, <1>4

\* Every vertex is in the part of one thread.
LEMMA PartsCover ==
  /\ \A t \in Threads : Part(t) \subseteq NodeID
  /\ \A v \in NodeID : \E t \in Threads : v \in Part(t)
  /\ \A s, t \in Threads : s # t => Part(s) \intersect Part(t) = {}
<1>1. ASSUME NEW t \in Threads  PROVE Part(t) \subseteq NodeID
  <2>1. t \in 0 .. NumThreads /\ t + 1 \in 0 .. NumThreads
    BY Bounds
  <2>2. From(t) \in 0 .. N /\ From(t + 1) \in 0 .. N /\ Part(t) = From(t) .. (From(t + 1) - 1)
    BY <2>1, PartIsBetween
  <2> HIDE DEF From, Part
  <2>3. \A i, j \in 0 .. N : i .. (j - 1) \subseteq 0 .. (N - 1)
    BY NAssumption
  <2> QED BY <2>2, <2>3 DEF NodeID
<1>2. ASSUME NEW v \in NodeID  PROVE \E t \in Threads : v \in Part(t)
  <2> DEFINE S == {t \in 0 .. NumThreads : v < From(t)}
  <2>1. NumThreads \in S
    BY Bounds, PartIsBetween DEF NodeID
  <2>2. S \in SUBSET Nat /\ S # {}
    BY <2>1
  <2>3. PICK m \in S : \A k \in S : m <= k
    BY <2>2, LeastNumber
  <2>4. m # 0
    BY <2>3, PartIsBetween DEF NodeID
  <2>5. m - 1 \in Threads /\ m - 1 \in 0 .. NumThreads /\ m - 1 + 1 = m
    BY <2>3, <2>4, Bounds
  <2>6. m - 1 \notin S
    BY <2>3, <2>5
  <2>7. From(m - 1) <= v /\ v < From(m)
    BY <2>3, <2>5, <2>6, PartIsBetween DEF NodeID
  <2>8. v \in Part(m - 1)
    <3>1. Part(m - 1) = From(m - 1) .. (From(m) - 1)
      BY <2>5, PartIsBetween
    <3>2. From(m - 1) \in Int /\ From(m) \in Int /\ v \in Int
      BY <2>3, <2>5, PartIsBetween DEF NodeID
    <3> QED BY <2>7, <3>1, <3>2
  <2> QED BY <2>5, <2>8
<1>3. ASSUME NEW s \in Threads, NEW t \in Threads, s < t  PROVE Part(s) \intersect Part(t) = {}
  <2>1. s + 1 \in 0 .. NumThreads /\ t \in 0 .. NumThreads /\ t + 1 \in 0 .. NumThreads /\ s \in 0 .. NumThreads
    BY Bounds
  <2>2. From(s + 1) <= From(t) /\ From(s + 1) \in Int /\ From(t) \in Int
        /\ From(s) \in Int /\ From(t + 1) \in Int
    BY <1>3, <2>1, PartIsBetween
  <2>3. Part(s) = From(s) .. (From(s + 1) - 1) /\ Part(t) = From(t) .. (From(t + 1) - 1)
    BY PartIsBetween
  <2>4. \A a, b, c, d \in Int : b <= c => (a .. (b - 1)) \intersect (c .. (d - 1)) = {}
    OBVIOUS
  <2> QED BY <2>2, <2>3, <2>4
<1>4. \A s, t \in Threads : s # t => s < t \/ t < s
  BY Bounds
<1> QED BY <1>1, <1>2, <1>3, <1>4

Below(i) == {w \in Hubs : w < i}

LEMMA HubsBelow ==
  ASSUME NEW a \in 0 .. N, NEW b \in 0 .. N, a <= b
  PROVE  /\ Cardinality(Below(a)) \in Nat /\ Cardinality(Below(N)) = Cardinality(Hubs)
         /\ Cardinality(Below(b)) = Cardinality(Below(a)) + Cardinality(Hubs \intersect (a .. (b - 1)))
         /\ Cardinality(Below(0)) = 0
<1> DEFINE Here == Hubs \intersect (a .. (b - 1))
<1>1. Hubs \subseteq Nat /\ Hubs \subseteq 0 .. (N - 1)
  BY DEF Hubs, NodeID
<1>2. IsFiniteSet(Below(a)) /\ IsFiniteSet(Here)
  <2>1. Below(a) \in SUBSET Hubs /\ Here \in SUBSET Hubs
    BY DEF Below
  <2> QED BY <2>1, Sizes, FS_Subset
<1>3. Below(b) = Below(a) \union Here /\ Below(a) \intersect Here = {}
  <2>1. \A w \in Hubs : (w < b <=> w < a \/ w \in a .. (b - 1)) /\ (w < a => w \notin a .. (b - 1))
    BY <1>1
  <2> QED BY <2>1 DEF Below
<1>4. Cardinality(Below(b)) = Cardinality(Below(a)) + Cardinality(Here)
  <2>1. Cardinality(Below(a)) \in Nat /\ Cardinality(Here) \in Nat
    BY <1>2, FS_CardinalityType
  <2> QED BY <1>2, <1>3, <2>1, FS_Union, FS_EmptySet
<1>5. Below(N) = Hubs /\ Below(0) = {}
  <2>1. \A w \in Hubs : w < N /\ ~ (w < 0)
    BY <1>1, NAssumption
  <2> QED BY <2>1 DEF Below
<1> QED BY <1>2, <1>4, <1>5, FS_CardinalityType, FS_EmptySet

\* The prefix sum over the parts counts the hubs before each part.
LEMMA SumOfParts ==
  ASSUME NEW counts, \A t \in Threads : counts[t] = Cardinality(Hubs \intersect Part(t))
  PROVE  \A t \in 0 .. NumThreads : SumBefore(counts, t) = Cardinality(Below(From(t)))
<1> DEFINE T == NumThreads
           IsSum(s) == s = [i \in 0 .. T |-> IF i = 0 THEN 0 ELSE s[i - 1] + counts[i - 1]]
           sum == CHOOSE s : IsSum(s)
           S == {i \in 0 .. T : sum[i] = Cardinality(Below(From(i)))}
<1>1. T \in Nat /\ Threads = 0 .. (T - 1)
  BY Bounds
<1>2. ASSUME NEW t \in 0 .. (T - 1)
      PROVE  /\ counts[t] \in Nat
             /\ Cardinality(Below(From(t + 1))) = Cardinality(Below(From(t))) + counts[t]
  <2>1. t \in 0 .. T /\ t + 1 \in 0 .. T
    BY <1>1
  <2>2. From(t) \in 0 .. N /\ From(t + 1) \in 0 .. N
    BY <2>1, PartIsBetween
  <2>3. /\ From(t) <= From(t + 1)
        /\ counts[t] = Cardinality(Hubs \intersect (From(t) .. (From(t + 1) - 1)))
    BY <1>1, PartIsBetween
  <2>4. IsFiniteSet(Hubs \intersect Part(t)) /\ counts[t] = Cardinality(Hubs \intersect Part(t))
    BY <1>1, Sizes, FS_Intersection
  <2>5. counts[t] \in Nat
    BY <2>4, FS_CardinalityType
  <2> HIDE DEF T, From
  <2> QED BY <2>2, <2>3, <2>5, HubsBelow
<1>3. IsSum(sum)
  <2>1. \A i \in 0 .. (T - 1) : counts[i] \in Int
    BY <1>2
  <2> HIDE DEF T
  <2>2. \E s \in [0 .. T -> Int] : IsSum(s)
    BY <1>1, <2>1, RunningSum
  <2> HIDE DEF IsSum
  <2> QED BY <2>2
<1>4. \A t \in 0 .. T : SumBefore(counts, t) = sum[t]
  BY DEF SumBefore
<1> HIDE DEF sum
<1>5. sum[0] = 0 /\ \A i \in 0 .. (T - 1) : sum[i + 1] = sum[i] + counts[i]
  <2>1. \A i \in 0 .. (T - 1) : i \in 0 .. T /\ i + 1 \in 0 .. T /\ i + 1 # 0 /\ i + 1 - 1 = i
    BY <1>1
  <2>2. 0 \in 0 .. T
    BY <1>1
  <2> HIDE DEF T
  <2> QED BY <1>3, <2>1, <2>2
<1>6. 0 \in S
  <2>1. From(0) = 0 /\ 0 \in 0 .. N /\ 0 \in 0 .. T /\ 0 <= 0
    BY <1>1, PartIsBetween, NAssumption
  <2> HIDE DEF T, From
  <2>2. Cardinality(Below(0)) = 0
    BY <2>1, HubsBelow
  <2> QED BY <1>5, <2>1, <2>2
<1>7. ASSUME NEW i \in 0 .. (T - 1), i \in S  PROVE i + 1 \in S
  <2>1. i + 1 \in 0 .. T
    BY <1>1
  <2> HIDE DEF T, From
  <2> QED BY <1>2, <1>5, <1>7, <2>1
<1> HIDE DEF S, T
<1>8. 0 .. T \subseteq S
  BY <1>1, <1>6, <1>7, AllUpTo
<1> QED BY <1>4, <1>8 DEF S, T

-----------------------------------------------------------------------------
(* The hubs are counted and numbered. *)

LEMMA InitInv == Init => Inv
<1> SUFFICES ASSUME Init  PROVE Inv
  OBVIOUS
<1>1. Types
  BY HubAssumption, NAssumption, Bounds DEF Init, Types, Numbering, NodeID
<1>2. Opening
  <2>1. \A t \in Threads : Part(t) \subseteq NodeID
    BY PartsCover
  <2> QED BY <2>1, HubAssumption DEF Init, Opening, Beginning, Ranking, Marking, Counted, Numbering
<1>3. HubsRanked /\ Sorting /\ Closing
  BY DEF Init, HubsRanked, Sorting, Handled, Steps, Placed, Queue, Contents, Complete, Closing, Window0,
         Searching, Mapped, Ended, First, Last
<1> QED BY <1>1, <1>2, <1>3 DEF Inv

\* While the phase stays one of the first three, the rest says nothing.
LEMMA StillNumbering ==
  phase \in Numbering => HubsRanked /\ Sorting /\ Closing
  BY DEF Numbering, HubsRanked, Sorting, Handled, Steps, Placed, Queue, Contents, Complete, Closing, Window0,
         Searching, Mapped, Ended, First, Last

LEMMA EasyBegins ==
  ASSUME Inv, phase \in Numbering, StartEasy(Cardinality(Hubs)),
         UNCHANGED <<input, kind, localOffsets, unassignedCtr>>,
         new_ids' = [v \in NodeID |-> IF v \in Hubs THEN Rank[v] ELSE None]
  PROVE  Inv'
<1>0. Hubs' = Hubs /\ Rank' = Rank
  BY ArgumentsStay
<1>1. /\ phase' = "easy" /\ numHubs' = Cardinality(Hubs) /\ todo' = Cardinality(Hubs) .. (N - 1)
      /\ queue' = NewQueue(Cardinality(Hubs)) /\ lqueue' = lqueue /\ n' = n /\ slot' = slot
      /\ pc' = [t \in Threads |-> "loop"]
  BY DEF StartEasy
<1>2. Types /\ Cardinality(Hubs) \in 0 .. N /\ Hubs \subseteq NodeID
  BY Sizes DEF Inv, Hubs
<1>3. \A v \in Hubs : Rank[v] \in NodeID
  BY <1>2, RanksAreIds, NAssumption DEF NodeID
<1>4. Types'
  BY <1>1, <1>2, <1>3 DEF Types, First
<1>5. Opening'
  BY <1>1 DEF Opening, Beginning, Ranking, Marking, Counted, Numbering
<1>6. HubsRanked'
  BY <1>0, <1>1, <1>2 DEF HubsRanked
<1>7. Handled' /\ Steps' /\ Placed'
  BY <1>0, <1>1, <1>2 DEF Handled, Steps, Placed, Busy, Copying
<1>8. /\ lqueue = [t \in Threads |-> << >>] /\ unassignedCtr' = 0
  BY <1>2 DEF Inv, Opening, Beginning, Types
<1>9. Filled' = {} /\ Buffered' = {}
  BY <1>1, <1>8 DEF Filled, Buffered, NewQueue
<1>10. Queue' /\ Contents'
  <2>1. queue' \in Queues(numHubs', NodeID \union {None}) /\ queue'.start = 0 /\ queue'.end = 0
    BY <1>1 DEF NewQueue, Queues, BlankItem, None
  <2> QED BY <1>1, <1>8, <1>9, <2>1 DEF Queue, Contents, Copying
<1>11. Complete'
  BY <1>1 DEF Complete, Left
<1>12. Closing'
  BY <1>1 DEF Closing, Window0, Searching, Mapped, Ended, Last
<1> QED BY <1>4, <1>5, <1>6, <1>7, <1>10, <1>11, <1>12 DEF Inv, Sorting

LEMMA RankHubsInv == Inv /\ RankHubs => Inv'
<1> SUFFICES ASSUME Inv, RankHubs  PROVE Inv'
  OBVIOUS
<1>1. kind = "HubSort" /\ phase \in Numbering /\ Types
  BY DEF Inv, Opening, Ranking, RankHubs, Numbering
<1>2. ASSUME NEW v \in Hubs
      PROVE  {u \in NodeID : Before(u, v)} = {u \in Hubs : Before(u, v)}
  <2>1. v \in NodeID /\ input.degree \in [NodeID -> Nat] /\ input.num_edges \in Nat
    BY <1>1, HubAssumption DEF Hubs, Types
  <2>2. avgDegree \in Nat
    BY <2>1, NAssumption DEF avgDegree
  <2>3. ASSUME NEW u \in NodeID, Before(u, v)  PROVE u \in Hubs
    <3>1. input.degree[u] >= input.degree[v]
      BY <2>1, <2>3 DEF Before
    <3>2. input.degree[u] \in Nat /\ input.degree[v] \in Nat
      BY <2>1
    <3>3. input.degree[v] > avgDegree
      BY DEF Hubs, IsHub
    <3> QED BY <2>2, <3>1, <3>2, <3>3 DEF Hubs, IsHub
  <2> QED BY <2>3 DEF Hubs
<1>3. \A v \in Hubs : Rank[v] = Cardinality({u \in NodeID : Before(u, v)})
  BY <1>1, <1>2 DEF Rank
<1>4. new_ids' = [v \in NodeID |-> IF v \in Hubs THEN Rank[v] ELSE None]
  BY <1>3 DEF RankHubs, Hubs
<1> QED BY <1>1, <1>4, EasyBegins DEF RankHubs

LEMMA MarkHubsInv ==
  ASSUME Inv, NEW t \in Threads, MarkHubs(t)  PROVE Inv'
<1>0. Hubs' = Hubs /\ Rank' = Rank
  BY ArgumentsStay DEF MarkHubs
<1>1. Types /\ phase = "mark" /\ phase' = "mark"
  BY DEF Inv, MarkHubs
<1>2. Types'
  <2>1. Cardinality(Hubs \intersect Part(t)) \in Nat
    BY Sizes, FS_Intersection, FS_CardinalityType
  <2> QED BY <1>1, <2>1 DEF Types, MarkHubs, Goto
<1>3. Beginning' /\ Ranking' /\ Counted'
  BY <1>1 DEF Inv, Opening, Beginning, Ranking, Counted, MarkHubs, Goto, Numbering, Types
<1>4. Marking'
  <2>1. Marking
    BY DEF Inv, Opening
  <2>2. ASSUME NEW s \in Threads
        PROVE  /\ pc'[s] # "numbered"
               /\ pc'[s] = "marked" => localOffsets'[s] = Cardinality(Hubs \intersect Part(s))
    BY <1>1, <2>1 DEF Marking, MarkHubs, Goto, Types
  <2>3. ASSUME NEW s \in Threads, NEW v \in Part(s)
        PROVE  new_ids'[v] = IF pc'[s] = "marked" /\ v \in Hubs THEN 1 ELSE None
    <3>1. v \in NodeID /\ (v \in Part(t) <=> s = t)
      BY PartsCover
    <3>2. (IsHub(v) <=> v \in Hubs) /\ pc'[t] = "marked" /\ (s # t => pc'[s] = pc[s]) /\ pc[t] = "start"
      BY <1>1, <3>1 DEF Hubs, MarkHubs, Goto, Types
    <3> QED BY <1>1, <2>1, <3>1, <3>2 DEF Marking, MarkHubs
  <2> QED BY <1>0, <1>1, <2>1, <2>2, <2>3 DEF Marking, MarkHubs
<1>5. HubsRanked' /\ Sorting' /\ Closing'
  <2>1. (phase \in Numbering)'
    BY <1>1 DEF Numbering
  <2> QED BY <2>1, StillNumbering, PTL
<1> QED BY <1>2, <1>3, <1>4, <1>5 DEF Inv, Opening

LEMMA SumOffsetsInv == Inv /\ SumOffsets => Inv'
<1> SUFFICES ASSUME Inv, SumOffsets  PROVE Inv'
  OBVIOUS
<1>0. Hubs' = Hubs /\ Rank' = Rank
  BY ArgumentsStay DEF SumOffsets
<1>1. Types /\ Marking /\ phase = "mark" /\ phase' = "number"
  BY DEF Inv, Opening, SumOffsets
<1>2. \A t \in 0 .. NumThreads : SumBefore(localOffsets, t) = Cardinality(Below(From(t)))
  <2>1. \A t \in Threads : localOffsets[t] = Cardinality(Hubs \intersect Part(t))
    BY <1>1 DEF SumOffsets, Marking
  <2> QED BY <2>1, SumOfParts
<1>3. numHubs' = Cardinality(Hubs) /\ Cardinality(Hubs) \in Nat
  <2>1. NumThreads \in 0 .. NumThreads /\ From(NumThreads) = N /\ 0 \in 0 .. N /\ 0 <= 0
    BY Bounds, PartIsBetween
  <2>2. Cardinality(Below(N)) = Cardinality(Hubs)
    BY <2>1, HubsBelow
  <2> QED BY <1>2, <2>1, <2>2, Sizes DEF SumOffsets
<1>4. \A t \in Threads : /\ localOffsets'[t] = Cardinality({w \in Hubs : w < partitionSz * t})
                         /\ localOffsets'[t] \in Nat
  <2> SUFFICES ASSUME NEW t \in Threads
               PROVE  /\ localOffsets'[t] = Cardinality({w \in Hubs : w < partitionSz * t})
                      /\ localOffsets'[t] \in Nat
    OBVIOUS
  <2>1. t \in 0 .. NumThreads /\ t # NumThreads /\ From(t) \in 0 .. N
    BY Bounds, PartIsBetween
  <2>2. From(t) = partitionSz * t
    BY <2>1 DEF From
  <2>3. localOffsets'[t] = Cardinality(Below(From(t))) /\ Cardinality(Below(From(t))) \in Nat
    <3>1. From(t) <= From(t)
      BY <2>1
    <3> QED BY <1>2, <2>1, <3>1, HubsBelow DEF SumOffsets
  <2> QED BY <2>2, <2>3 DEF Below
<1>5. Types'
  BY <1>1, <1>4 DEF Types, SumOffsets, Numbering
<1>6. Beginning' /\ Ranking' /\ Marking'
  BY <1>1 DEF Inv, Opening, Beginning, Ranking, Marking, SumOffsets, Numbering
<1>7. Counted'
  <2>1. ASSUME NEW t \in Threads
        PROVE  pc[t] = "marked" /\ \A v \in Part(t) : new_ids[v] = IF v \in Hubs THEN 1 ELSE None
    BY <1>1 DEF Marking, SumOffsets
  <2>2. kind # "HubSort"
    BY <1>1 DEF Marking
  <2>3. partitionSz' = partitionSz
    OBVIOUS
  <2> QED BY <1>0, <1>3, <1>4, <2>1, <2>2 DEF Counted, SumOffsets
<1>8. HubsRanked' /\ Sorting' /\ Closing'
  <2>1. (phase \in Numbering)'
    BY <1>1 DEF Numbering
  <2> QED BY <2>1, StillNumbering, PTL
<1> QED BY <1>5, <1>6, <1>7, <1>8 DEF Inv, Opening

LEMMA NumberHubsInv ==
  ASSUME Inv, NEW t \in Threads, NumberHubs(t)  PROVE Inv'
<1>0. Hubs' = Hubs /\ Rank' = Rank
  BY ArgumentsStay DEF NumberHubs
<1>1. Types /\ Counted /\ phase = "number" /\ phase' = "number"
  BY DEF Inv, Opening, NumberHubs
<1>2. ASSUME NEW v \in Part(t)
      PROVE  new_ids'[v] = IF v \in Hubs THEN Rank[v] ELSE None
  <2>1. v \in NodeID
    BY PartsCover
  <2>2. \A w \in Part(t) : new_ids[w] # None <=> w \in Hubs
    <3>1. pc[t] = "marked"
      BY DEF NumberHubs
    <3>2. \A w \in Part(t) : new_ids[w] = IF w \notin Hubs THEN None ELSE 1
      BY <1>1, <3>1 DEF Counted
    <3>3. None # 1
      BY DEF None
    <3> HIDE DEF None
    <3> QED BY <3>2, <3>3
  <2>3. CASE v \notin Hubs
    BY <2>1, <2>2, <2>3 DEF NumberHubs
  <2>4. CASE v \in Hubs
    <3>1. new_ids'[v] = localOffsets[t] + Cardinality({w \in Part(t) : w < v /\ new_ids[w] # None})
      BY <2>1, <2>2, <2>4 DEF NumberHubs
    <3>2. t \in 0 .. NumThreads /\ t + 1 \in 0 .. NumThreads /\ From(t) = partitionSz * t
      BY Bounds DEF From
    <3>3. /\ From(t) \in 0 .. N /\ From(t + 1) \in 0 .. N /\ v \in From(t) .. (From(t + 1) - 1)
          /\ Part(t) = From(t) .. (From(t + 1) - 1)
      BY <3>2, PartIsBetween
    <3> HIDE DEF From, Part
    <3>4. v \in 0 .. N /\ From(t) <= v
      <4>1. \A i, j \in 0 .. N : \A k \in i .. (j - 1) : k \in 0 .. N /\ i <= k
        BY NAssumption
      <4> QED BY <3>3, <4>1
    <3>5. {w \in Part(t) : w < v /\ w \in Hubs} = Hubs \intersect (From(t) .. (v - 1))
      <4>1. \A w \in Hubs : w \in From(t) .. (From(t + 1) - 1) /\ w < v <=> w \in From(t) .. (v - 1)
        BY <3>3
      <4> QED BY <3>3, <4>1
    <3>6. {w \in Part(t) : w < v /\ new_ids[w] # None} = {w \in Part(t) : w < v /\ w \in Hubs}
      BY <2>2
    <3>7. localOffsets[t] = Cardinality(Below(From(t)))
      BY <1>1, <3>2 DEF Counted, Below
    <3>8. Cardinality(Below(v)) = Cardinality(Below(From(t))) + Cardinality(Hubs \intersect (From(t) .. (v - 1)))
      BY <3>3, <3>4, HubsBelow
    <3>9. Rank[v] = Cardinality(Below(v))
      BY <1>1, <2>4 DEF Rank, Below, Counted
    <3> QED BY <2>4, <3>1, <3>5, <3>6, <3>7, <3>8, <3>9
  <2> QED BY <2>3, <2>4
<1>3. \A v \in Hubs : Rank[v] \in NodeID
  BY <1>1, RanksAreIds, Sizes, NAssumption DEF NodeID
<1>4. /\ \A v \in NodeID \ Part(t) : new_ids'[v] = new_ids[v]
      /\ new_ids' = [v \in NodeID |-> new_ids'[v]]
  BY DEF NumberHubs
<1>5. Types'
  <2>1. \A v \in NodeID : new_ids'[v] \in NodeID \union {None, 1}
    BY <1>1, <1>2, <1>3, <1>4 DEF Types
  <2>2. new_ids' \in [NodeID -> NodeID \union {None, 1}]
    BY <1>4, <2>1
  <2> QED BY <1>1, <2>2 DEF Types, NumberHubs, Goto
<1>6. Beginning' /\ Ranking' /\ Marking'
  BY <1>1 DEF Inv, Opening, Beginning, Ranking, Marking, NumberHubs, Goto, Numbering, Types
<1>7. Counted'
  <2>1. /\ pc' = [pc EXCEPT ![t] = "numbered"]
        /\ pc'[t] = "numbered" /\ \A s \in Threads : s # t => pc'[s] = pc[s]
    BY <1>1 DEF NumberHubs, Goto, Types
  <2>2. ASSUME NEW s \in Threads, NEW v \in Part(s)
        PROVE  new_ids'[v] = IF v \notin Hubs THEN None ELSE IF pc'[s] = "numbered" THEN Rank[v] ELSE 1
    <3>1. CASE s = t
      BY <1>2, <2>1, <3>1
    <3>2. CASE s # t
      <4>1. v \in NodeID \ Part(t)
        BY <3>2, PartsCover
      <4> QED BY <1>1, <1>4, <2>1, <3>2, <4>1 DEF Counted
    <3> QED BY <3>1, <3>2
  <2>3. \A s \in Threads : pc'[s] # "start"
    BY <1>1, <2>1 DEF Counted
  <2>4. localOffsets' = localOffsets /\ numHubs' = numHubs /\ kind' = kind
    BY DEF NumberHubs
  <2> QED BY <1>0, <1>1, <2>2, <2>3, <2>4 DEF Counted
<1>8. HubsRanked' /\ Sorting' /\ Closing'
  <2>1. (phase \in Numbering)'
    BY <1>1 DEF Numbering
  <2> QED BY <2>1, StillNumbering, PTL
<1> QED BY <1>5, <1>6, <1>7, <1>8 DEF Inv, Opening

LEMMA EndNumberingInv == Inv /\ EndNumbering => Inv'
<1> SUFFICES ASSUME Inv, EndNumbering  PROVE Inv'
  OBVIOUS
<1>1. Types /\ Counted /\ phase = "number" /\ phase \in Numbering
  BY DEF Inv, Opening, EndNumbering, Numbering
<1>2. ASSUME NEW v \in NodeID  PROVE new_ids[v] = IF v \in Hubs THEN Rank[v] ELSE None
  <2>1. PICK t \in Threads : v \in Part(t)
    BY PartsCover
  <2> QED BY <1>1, <2>1 DEF Counted, EndNumbering
<1>3. new_ids' = [v \in NodeID |-> IF v \in Hubs THEN Rank[v] ELSE None]
  BY <1>1, <1>2 DEF Types, EndNumbering
<1>4. StartEasy(Cardinality(Hubs))
  BY <1>1 DEF Counted, EndNumbering
<1> QED BY <1>1, <1>3, <1>4, EasyBegins DEF EndNumbering

-----------------------------------------------------------------------------
(* The first loop. *)

LEMMA PhaseOf ==
  ASSUME Inv, NEW t \in Threads
  PROVE  /\ pc[t] \in {"keep", "look", "swap", "push"} => phase \in First
         /\ pc[t] \in {"fetch", "assign"} => phase \in Last
         /\ pc[t] \in {"flush", "copy", "lastFlush", "lastCopy"} => phase \in First
<1>1. CASE phase \in Numbering
  BY <1>1 DEF Inv, Opening, Beginning
<1>2. CASE phase \in First
  BY <1>2 DEF Inv, Sorting, Steps
<1>3. CASE phase \in Last
  BY <1>3 DEF Inv, Closing, Searching
<1> QED BY <1>1, <1>2, <1>3 DEF Inv, Types

LEMMA OtherPhases ==
  /\ phase \in First => Opening /\ Closing
  /\ phase \in Last => Opening /\ Sorting
  BY DEF Numbering, First, Last, Opening, Beginning, Ranking, Marking, Counted,
         Sorting, Handled, Steps, Placed, Queue, Contents, Complete, Closing, Window0, Searching, Mapped, Ended

\* What is known of the numbers while the loop runs.
LEMMA FirstFacts ==
  ASSUME Inv, phase \in First
  PROVE  /\ Types /\ HubsRanked /\ Handled /\ Steps /\ Placed /\ Queue /\ Contents /\ Complete
         /\ numHubs = Cardinality(Hubs) /\ numHubs \in 0 .. N /\ Hubs \subseteq NodeID
         /\ \A v \in Hubs : new_ids[v] = Rank[v] /\ Rank[v] \in 0 .. (numHubs - 1) /\ Rank[v] # None
         /\ \A u, v \in Hubs : Rank[u] = Rank[v] => u = v
         /\ 0 .. (numHubs - 1) \subseteq NodeID /\ numHubs .. (N - 1) \subseteq NodeID
<1>1. Types /\ HubsRanked /\ Handled /\ Steps /\ Placed /\ Queue /\ Contents /\ Complete
  BY DEF Inv, Sorting
<1>2. numHubs = Cardinality(Hubs) /\ numHubs \in 0 .. N /\ Hubs \subseteq NodeID
  BY <1>1, Sizes DEF HubsRanked, Hubs
<1>3. /\ \A v \in Hubs : new_ids[v] = Rank[v] /\ Rank[v] \in 0 .. (numHubs - 1) /\ Rank[v] # None
      /\ \A u, v \in Hubs : Rank[u] = Rank[v] => u = v
  BY <1>1, <1>2, RanksAreIds DEF HubsRanked, None
<1>4. 0 .. (numHubs - 1) \subseteq NodeID /\ numHubs .. (N - 1) \subseteq NodeID
  BY <1>2, NAssumption DEF NodeID
<1> QED BY <1>1, <1>2, <1>3, <1>4

\* A step that leaves the queue and the buffers alone and forgets no vertex.
LEMMA StorageStays ==
  ASSUME Inv, phase \in First, phase' \in First,
         UNCHANGED <<input, kind, queue, lqueue, numHubs, unassignedCtr>>,
         \A t \in Threads : (Copying(t)' <=> Copying(t)) /\ (Copying(t) => slot'[t] = slot[t]),
         \A v \in NodeID : v \in Left => v \in Left'
  PROVE  /\ Filled' = Filled /\ Buffered' = Buffered /\ Stored' = Stored
         /\ Waiting \subseteq Waiting' /\ Queue' /\ Contents'
<1>0. Hubs' = Hubs /\ Rank' = Rank /\ Hubs \subseteq NodeID
  BY ArgumentsStay, FirstFacts
<1>1. \A t \in Threads : Copying(t) => Claim(t)' = Claim(t)
  BY DEF Claim
<1>2. Filled' = Filled /\ Buffered' = Buffered
  BY <1>1 DEF Filled, Buffered
<1>3. Waiting \subseteq Waiting'
  BY <1>0 DEF Waiting
<1>4. Queue'
  <2>1. Queue
    BY FirstFacts
  <2> QED BY <1>1, <2>1 DEF Queue
<1>5. Contents'
  <2>1. Contents
    BY FirstFacts
  <2> QED BY <1>2, <1>3, <2>1 DEF Contents
<1> QED BY <1>2, <1>3, <1>4, <1>5 DEF Stored

LEMMA TakeVertexInv ==
  ASSUME Inv, NEW t \in Threads, NEW v \in todo, TakeVertex(t, v)  PROVE Inv'
<1>0. Hubs' = Hubs /\ Rank' = Rank
  BY ArgumentsStay DEF TakeVertex
<1>1. phase = "easy" /\ phase \in First /\ phase' \in First /\ phase' = phase
  BY DEF TakeVertex, First
<1>2. /\ Types /\ HubsRanked /\ Handled /\ Steps /\ Placed /\ Complete /\ numHubs \in 0 .. N
      /\ \A u \in Hubs : new_ids[u] = Rank[u] /\ Rank[u] # None
      /\ Hubs \subseteq NodeID
  BY <1>1, FirstFacts
<1>3. /\ pc[t] = "loop" /\ todo' = todo \ {v} /\ n' = [n EXCEPT ![t] = v]
      /\ UNCHANGED <<input, kind, new_ids, phase, localOffsets, numHubs, queue, unassignedCtr, lqueue>>
      /\ v \in numHubs .. (N - 1) /\ v \in NodeID
  BY <1>1, <1>2, NAssumption DEF TakeVertex, Handled, NodeID
<1>4. \/ new_ids[v] = None /\ pc' = [pc EXCEPT ![t] = "keep"] /\ slot' = slot
      \/ new_ids[v] # None /\ pc' = [pc EXCEPT ![t] = "look"] /\ slot' = [slot EXCEPT ![t] = new_ids[v]]
  BY DEF TakeVertex, Goto
<1>5. new_ids[v] = None => v \notin Hubs
  BY <1>2
<1>6. new_ids[v] # None => v \in Hubs
  BY <1>1, <1>2, <1>3 DEF Placed, Left
<1>7. /\ pc'[t] \in {"keep", "look"} /\ n'[t] = v
      /\ \A s \in Threads : s # t => pc'[s] = pc[s] /\ n'[s] = n[s] /\ slot'[s] = slot[s]
  BY <1>2, <1>3, <1>4 DEF Types
<1>8. Types'
  <2>1. new_ids[v] # None => new_ids[v] \in 0 .. N
    BY <1>2, <1>3, NAssumption DEF Types, NodeID
  <2> QED BY <1>2, <1>3, <1>4, <2>1 DEF Types
<1>9. \A u \in NodeID : u \in Left' <=> u \in Left
  BY <1>1, <1>3, <1>7, <1>2 DEF Left, Busy, Handled
<1>10. Handled'
  BY <1>1, <1>2, <1>3, <1>7 DEF Handled, Busy
<1>11. Steps'
  <2>1. \A s \in Threads : s # t => pc[s] \notin {"lastFlush", "lastCopy", "flushed"}
    BY <1>1, <1>2 DEF Steps
  <2>2. pc'[t] = "keep" => v \notin Hubs
    BY <1>2, <1>4, <1>5 DEF Types
  <2>3. pc'[t] = "look" => v \in Hubs /\ slot'[t] = Rank[v]
    BY <1>2, <1>4, <1>6 DEF Types
  <2> QED BY <1>0, <1>1, <1>2, <1>3, <1>7, <2>1, <2>2, <2>3 DEF Steps, Copying
<1>12. \A s \in Threads : (Copying(s)' <=> Copying(s)) /\ (Copying(s) => slot'[s] = slot[s])
  BY <1>3, <1>7 DEF Copying
<1>13. Stored' = Stored /\ Queue' /\ Contents'
  BY <1>1, <1>3, <1>9, <1>12, StorageStays
<1>14. Placed'
  BY <1>0, <1>1, <1>2, <1>3, <1>9 DEF Placed
<1>15. Complete'
  <2>1. numHubs .. (N - 1) \subseteq NodeID
    BY <1>1, FirstFacts
  <2> QED BY <1>0, <1>1, <1>2, <1>3, <1>9, <1>13, <2>1 DEF Complete
<1>16. HubsRanked'
  BY <1>0, <1>1, <1>2, <1>3 DEF HubsRanked
<1>17. Opening' /\ Closing'
  <2>1. (phase \in First)'
    BY <1>1
  <2> QED BY <2>1, OtherPhases, PTL
<1> QED BY <1>8, <1>10, <1>11, <1>13, <1>14, <1>15, <1>16, <1>17 DEF Inv, Sorting

\* A thread that is done with its vertex.
LEMMA Released ==
  ASSUME Inv, phase \in First, phase' \in First, NEW t \in Threads, Busy(t),
         pc' = [pc EXCEPT ![t] = "loop"], n' = [n EXCEPT ![t] = 0],
         UNCHANGED <<todo, numHubs>>
  PROVE  /\ \A v \in NodeID : v \in Left' <=> v \in Left \/ v = n[t]
         /\ n[t] \notin Left /\ n[t] \in numHubs .. (N - 1) /\ n[t] \in NodeID
         /\ Handled'
<1>1. Types /\ Handled
  BY FirstFacts
<1>2. /\ pc'[t] = "loop" /\ \A s \in Threads : s # t => pc'[s] = pc[s] /\ n'[s] = n[s]
  BY <1>1 DEF Types
<1>3. \A s \in Threads : Busy(s)' <=> Busy(s) /\ s # t
  BY <1>2 DEF Busy
<1>4. n[t] \in numHubs .. (N - 1) /\ n[t] \notin todo /\ n[t] \in NodeID
  BY <1>1 DEF Handled, Types
<1>5. \A s \in Threads : Busy(s) /\ n[s] = n[t] => s = t
  BY <1>1 DEF Handled
<1>6. \A v \in NodeID : v \in Left' <=> v \in Left \/ v = n[t]
  BY <1>2, <1>3, <1>4, <1>5 DEF Left
<1>7. n[t] \notin Left
  BY DEF Left
<1>8. Handled'
  BY <1>1, <1>2, <1>3 DEF Handled
<1> QED BY <1>4, <1>6, <1>7, <1>8

LEMMA KeepInv ==
  ASSUME Inv, NEW t \in Threads, Keep(t)  PROVE Inv'
<1>0. Hubs' = Hubs /\ Rank' = Rank
  BY ArgumentsStay DEF Keep, Assign
<1>1. phase \in First /\ phase' \in First /\ phase' = phase /\ pc[t] = "keep" /\ Busy(t)
  BY PhaseOf DEF Keep, Assign, Busy
<1>2. /\ Types /\ HubsRanked /\ Handled /\ Steps /\ Placed /\ Complete /\ numHubs \in 0 .. N
      /\ \A u \in Hubs : new_ids[u] = Rank[u] /\ Rank[u] \in 0 .. (numHubs - 1) /\ Rank[u] # None
      /\ Hubs \subseteq NodeID /\ numHubs .. (N - 1) \subseteq NodeID
  BY <1>1, FirstFacts
<1>3. /\ pc' = [pc EXCEPT ![t] = "loop"] /\ n' = [n EXCEPT ![t] = 0] /\ slot' = [slot EXCEPT ![t] = 0]
      /\ new_ids' = [new_ids EXCEPT ![n[t]] = n[t]]
      /\ UNCHANGED <<input, kind, phase, localOffsets, numHubs, queue, todo, unassignedCtr, lqueue>>
  BY DEF Keep, Assign, Goto
<1>4. /\ \A v \in NodeID : v \in Left' <=> v \in Left \/ v = n[t]
      /\ n[t] \in numHubs .. (N - 1) /\ n[t] \in NodeID /\ Handled'
  BY <1>1, <1>3, Released
<1>5. n[t] \notin Hubs
  BY <1>1, <1>2 DEF Steps
<1>6. new_ids'[n[t]] = n[t] /\ \A v \in NodeID : v # n[t] => new_ids'[v] = new_ids[v]
  BY <1>2, <1>3, <1>4 DEF Types
<1>7. /\ pc'[t] = "loop"
      /\ \A s \in Threads : s # t => pc'[s] = pc[s] /\ n'[s] = n[s] /\ slot'[s] = slot[s]
  BY <1>2, <1>3 DEF Types
<1>8. Types'
  BY <1>2, <1>3, <1>4, NAssumption DEF Types, NodeID
<1>9. Steps'
  BY <1>0, <1>1, <1>2, <1>3, <1>7 DEF Steps, Copying
<1>10. \A s \in Threads : (Copying(s)' <=> Copying(s)) /\ (Copying(s) => slot'[s] = slot[s])
  BY <1>1, <1>7 DEF Copying
<1>11. Stored' = Stored /\ Queue' /\ Contents'
  BY <1>1, <1>3, <1>4, <1>10, StorageStays
<1>12. Placed'
  <2>1. \A v \in NodeID \ Hubs : v < numHubs => v # n[t]
    BY <1>2, <1>4
  <2>2. \A v \in NodeID \ Hubs : v # n[t] /\ new_ids'[v] # None =>
          IF v >= numHubs THEN new_ids'[v] = v /\ v \in Left'
          ELSE /\ new_ids'[v] \in Hubs /\ new_ids'[v] >= numHubs
               /\ Rank[new_ids'[v]] = v /\ new_ids'[v] \in Left'
    BY <1>1, <1>2, <1>4, <1>6 DEF Placed
  <2> QED BY <1>0, <1>3, <1>4, <1>6, <2>1, <2>2 DEF Placed
<1>13. Complete'
  <2> SUFFICES ASSUME NEW v \in numHubs .. (N - 1), v \in Left'
               PROVE  \/ v \notin Hubs /\ new_ids'[v] = v
                      \/ v \in Hubs /\ Rank[v] \notin Hubs /\ new_ids'[Rank[v]] = v
                      \/ v \in Hubs /\ v \in Stored
    BY <1>0, <1>3, <1>11 DEF Complete
  <2>1. CASE v = n[t]
    BY <1>5, <1>6, <2>1
  <2>2. CASE v # n[t]
    <3>1. v \in Left /\ v \in NodeID
      BY <1>2, <1>4, <2>2
    <3>2. v \in Hubs => Rank[v] # n[t] /\ Rank[v] \in NodeID
      BY <1>2, <1>4, NAssumption DEF NodeID
    <3> QED BY <1>1, <1>2, <1>6, <2>2, <3>1, <3>2 DEF Complete
  <2> QED BY <2>1, <2>2
<1>14. HubsRanked'
  BY <1>0, <1>1, <1>2, <1>3, <1>5, <1>6 DEF HubsRanked
<1>15. Opening' /\ Closing'
  <2>1. (phase \in First)'
    BY <1>1
  <2> QED BY <2>1, OtherPhases, PTL
<1> QED BY <1>4, <1>8, <1>9, <1>11, <1>12, <1>13, <1>14, <1>15 DEF Inv, Sorting

LEMMA LookInv ==
  ASSUME Inv, NEW t \in Threads, Look(t)  PROVE Inv'
<1>0. Hubs' = Hubs /\ Rank' = Rank
  BY ArgumentsStay DEF Look, shared
<1>1. phase \in First /\ phase' \in First /\ phase' = phase /\ pc[t] = "look" /\ Busy(t)
  BY PhaseOf DEF Look, shared, Busy
<1>2. /\ Types /\ HubsRanked /\ Handled /\ Steps /\ Placed /\ Complete /\ numHubs \in 0 .. N
      /\ \A u \in Hubs : new_ids[u] = Rank[u] /\ Rank[u] \in 0 .. (numHubs - 1) /\ Rank[u] # None
      /\ \A u, v \in Hubs : Rank[u] = Rank[v] => u = v
      /\ Hubs \subseteq NodeID /\ numHubs .. (N - 1) \subseteq NodeID /\ 0 .. (numHubs - 1) \subseteq NodeID
  BY <1>1, FirstFacts
<1>3. UNCHANGED <<input, kind, new_ids, phase, localOffsets, numHubs, queue, todo, unassignedCtr, n, lqueue>>
  BY DEF Look, shared
<1>4. \/ new_ids[slot[t]] = None /\ pc' = [pc EXCEPT ![t] = "swap"] /\ slot' = slot
      \/ new_ids[slot[t]] # None /\ pc' = [pc EXCEPT ![t] = "push"] /\ slot' = [slot EXCEPT ![t] = 0]
  BY DEF Look, Goto
<1>5. n[t] \in Hubs /\ slot[t] = Rank[n[t]] /\ slot[t] \in NodeID
  BY <1>1, <1>2 DEF Steps
<1>6. new_ids[slot[t]] = None => slot[t] \notin Hubs
  BY <1>2
<1>7. new_ids[slot[t]] # None => Rank[n[t]] \in Hubs
  <2> SUFFICES ASSUME new_ids[slot[t]] # None, slot[t] \notin Hubs  PROVE FALSE
    BY <1>5
  <2>1. slot[t] \in NodeID \ Hubs /\ ~ (slot[t] >= numHubs)
    BY <1>2, <1>5
  <2>2. new_ids[slot[t]] \in Hubs /\ Rank[new_ids[slot[t]]] = slot[t] /\ new_ids[slot[t]] \in Left
    BY <1>1, <1>2, <2>1 DEF Placed
  <2>3. new_ids[slot[t]] = n[t]
    BY <1>2, <1>5, <2>2
  <2> QED BY <1>1, <2>2, <2>3 DEF Left
<1>8. /\ pc'[t] \in {"swap", "push"}
      /\ \A s \in Threads : s # t => pc'[s] = pc[s] /\ slot'[s] = slot[s]
  BY <1>2, <1>4 DEF Types
<1>9. Types'
  <2>1. 0 \in 0 .. N
    BY NAssumption
  <2>2. \E to \in {"swap", "push"} : pc' = [pc EXCEPT ![t] = to]
    BY <1>4
  <2>3. slot' = slot \/ slot' = [slot EXCEPT ![t] = 0]
    BY <1>4
  <2>4. slot' \in [Threads -> 0 .. N]
    BY <1>2, <2>1, <2>3 DEF Types
  <2>5. pc' \in [Threads -> {"start", "marked", "numbered", "loop", "keep", "look", "swap", "push",
                             "flush", "copy", "lastFlush", "lastCopy", "flushed", "fetch", "assign"}]
    BY <1>2, <2>2 DEF Types
  <2> QED BY <1>2, <1>3, <2>4, <2>5 DEF Types, Numbering, First, Last
<1>10. \A s \in Threads : (Busy(s)' <=> Busy(s)) /\ (Copying(s)' <=> Copying(s))
  BY <1>1, <1>8 DEF Busy, Copying
<1>11. \A v \in NodeID : v \in Left' <=> v \in Left
  BY <1>3, <1>10 DEF Left
<1>12. Handled'
  BY <1>1, <1>2, <1>3, <1>10 DEF Handled
<1>13. Steps'
  <2>1. pc'[t] = "swap" => slot'[t] = slot[t] /\ slot[t] \notin Hubs
    BY <1>2, <1>4, <1>6 DEF Types
  <2>2. pc'[t] = "push" => Rank[n[t]] \in Hubs
    BY <1>2, <1>4, <1>7 DEF Types
  <2> QED BY <1>0, <1>1, <1>2, <1>3, <1>5, <1>8, <2>1, <2>2 DEF Steps, Copying
<1>14. Stored' = Stored /\ Queue' /\ Contents'
  <2>1. \A s \in Threads : Copying(s) => slot'[s] = slot[s]
    BY <1>1, <1>8 DEF Copying
  <2> QED BY <1>1, <1>3, <1>10, <1>11, <2>1, StorageStays
<1>15. Placed'
  BY <1>0, <1>1, <1>2, <1>3, <1>11 DEF Placed
<1>16. Complete'
  BY <1>0, <1>1, <1>2, <1>3, <1>11, <1>14 DEF Complete
<1>17. HubsRanked'
  BY <1>0, <1>1, <1>2, <1>3 DEF HubsRanked
<1>18. Opening' /\ Closing'
  <2>1. (phase \in First)'
    BY <1>1
  <2> QED BY <2>1, OtherPhases, PTL
<1> QED BY <1>9, <1>12, <1>13, <1>14, <1>15, <1>16, <1>17, <1>18 DEF Inv, Sorting

LEMMA SwapInv ==
  ASSUME Inv, NEW t \in Threads, Swap(t)  PROVE Inv'
<1>0. Hubs' = Hubs /\ Rank' = Rank
  BY ArgumentsStay DEF Swap, Assign
<1>1. phase \in First /\ phase' \in First /\ phase' = phase /\ pc[t] = "swap" /\ Busy(t)
  BY PhaseOf DEF Swap, Assign, Busy
<1>2. /\ Types /\ HubsRanked /\ Handled /\ Steps /\ Placed /\ Complete /\ numHubs \in 0 .. N
      /\ \A u \in Hubs : new_ids[u] = Rank[u] /\ Rank[u] \in 0 .. (numHubs - 1) /\ Rank[u] # None
      /\ \A u, v \in Hubs : Rank[u] = Rank[v] => u = v
      /\ Hubs \subseteq NodeID /\ numHubs .. (N - 1) \subseteq NodeID /\ 0 .. (numHubs - 1) \subseteq NodeID
  BY <1>1, FirstFacts
<1>3. /\ pc' = [pc EXCEPT ![t] = "loop"] /\ n' = [n EXCEPT ![t] = 0] /\ slot' = [slot EXCEPT ![t] = 0]
      /\ new_ids' = [new_ids EXCEPT ![slot[t]] = n[t]]
      /\ UNCHANGED <<input, kind, phase, localOffsets, numHubs, queue, todo, unassignedCtr, lqueue>>
  BY DEF Swap, Assign, Goto
<1>4. /\ \A v \in NodeID : v \in Left' <=> v \in Left \/ v = n[t]
      /\ n[t] \notin Left /\ n[t] \in numHubs .. (N - 1) /\ n[t] \in NodeID /\ Handled'
  BY <1>1, <1>3, Released
<1>5. n[t] \in Hubs /\ slot[t] = Rank[n[t]] /\ slot[t] \notin Hubs /\ slot[t] \in NodeID
      /\ slot[t] < numHubs /\ n[t] >= numHubs
  BY <1>1, <1>2, <1>4 DEF Steps
<1>6. new_ids'[slot[t]] = n[t] /\ \A v \in NodeID : v # slot[t] => new_ids'[v] = new_ids[v]
  BY <1>2, <1>3, <1>5 DEF Types
<1>7. /\ pc'[t] = "loop"
      /\ \A s \in Threads : s # t => pc'[s] = pc[s] /\ n'[s] = n[s] /\ slot'[s] = slot[s]
  BY <1>2, <1>3 DEF Types
<1>8. Types'
  <2>1. 0 \in 0 .. N /\ 0 \in NodeID
    BY NAssumption DEF NodeID
  <2>2. new_ids' \in [NodeID -> NodeID \union {None, 1}]
    BY <1>2, <1>3, <1>4 DEF Types
  <2> QED BY <1>2, <1>3, <2>1, <2>2 DEF Types
<1>9. Steps'
  BY <1>0, <1>1, <1>2, <1>3, <1>7 DEF Steps, Copying
<1>10. \A s \in Threads : (Copying(s)' <=> Copying(s)) /\ (Copying(s) => slot'[s] = slot[s])
  BY <1>1, <1>7 DEF Copying
<1>11. Stored' = Stored /\ Queue' /\ Contents'
  BY <1>1, <1>3, <1>4, <1>10, StorageStays
<1>12. Placed'
  <2>1. ASSUME NEW v \in NodeID \ Hubs, new_ids'[v] # None, v # slot[t]
        PROVE  IF v >= numHubs THEN new_ids'[v] = v /\ v \in Left'
               ELSE /\ new_ids'[v] \in Hubs /\ new_ids'[v] >= numHubs
                    /\ Rank[new_ids'[v]] = v /\ new_ids'[v] \in Left'
    BY <1>1, <1>2, <1>4, <1>6, <2>1 DEF Placed
  <2>2. ~ (slot[t] >= numHubs)
    BY <1>2, <1>5
  <2> QED BY <1>0, <1>3, <1>4, <1>5, <1>6, <2>1, <2>2 DEF Placed
<1>13. Complete'
  <2> SUFFICES ASSUME NEW v \in numHubs .. (N - 1), v \in Left'
               PROVE  \/ v \notin Hubs /\ new_ids'[v] = v
                      \/ v \in Hubs /\ Rank[v] \notin Hubs /\ new_ids'[Rank[v]] = v
                      \/ v \in Hubs /\ v \in Stored
    BY <1>0, <1>3, <1>11 DEF Complete
  <2>1. CASE v = n[t]
    BY <1>5, <1>6, <2>1
  <2>2. CASE v # n[t]
    <3>1. v \in Left /\ v \in NodeID /\ v # slot[t]
      BY <1>2, <1>4, <1>5, <2>2
    <3>2. v \in Hubs => Rank[v] # slot[t] /\ Rank[v] \in NodeID
      BY <1>2, <1>5, <2>2
    <3> QED BY <1>1, <1>2, <1>6, <2>2, <3>1, <3>2 DEF Complete
  <2> QED BY <2>1, <2>2
<1>14. HubsRanked'
  BY <1>0, <1>1, <1>2, <1>3, <1>5, <1>6 DEF HubsRanked
<1>15. Opening' /\ Closing'
  <2>1. (phase \in First)'
    BY <1>1
  <2> QED BY <2>1, OtherPhases, PTL
<1> QED BY <1>4, <1>8, <1>9, <1>11, <1>12, <1>13, <1>14, <1>15 DEF Inv, Sorting

\* The element to be pushed finds the buffer full.
LEMMA PushToFullInv ==
  ASSUME Inv, NEW t \in Threads, pc[t] = "push", Goto(t, "flush"), UNCHANGED <<shared, n, lqueue, slot>>
  PROVE  Inv'
<1>0. Hubs' = Hubs /\ Rank' = Rank
  BY ArgumentsStay DEF shared
<1>1. phase \in First /\ phase' \in First /\ phase' = phase
  BY PhaseOf DEF shared
<1>2. /\ Types /\ HubsRanked /\ Handled /\ Steps /\ Placed /\ Complete
      /\ Hubs \subseteq NodeID /\ numHubs .. (N - 1) \subseteq NodeID
  BY <1>1, FirstFacts
<1>3. /\ UNCHANGED <<input, kind, new_ids, phase, localOffsets, numHubs, queue, todo, unassignedCtr>>
      /\ UNCHANGED <<n, lqueue, slot>>
  BY DEF shared
<1>4. pc'[t] = "flush" /\ \A s \in Threads : s # t => pc'[s] = pc[s]
  BY <1>2 DEF Types, Goto
<1>5. Types'
  BY <1>2, <1>3 DEF Types, Goto
<1>6. \A s \in Threads : (Busy(s)' <=> Busy(s)) /\ (Copying(s)' <=> Copying(s))
  BY <1>4 DEF Busy, Copying
<1>7. Left' = Left
  BY <1>3, <1>6 DEF Left
<1>8. Handled'
  BY <1>1, <1>2, <1>3, <1>6 DEF Handled
<1>9. Steps'
  BY <1>0, <1>1, <1>2, <1>3, <1>4 DEF Steps, Copying
<1>10. Stored' = Stored /\ Queue' /\ Contents'
  BY <1>1, <1>3, <1>6, <1>7, StorageStays
<1>11. Placed' /\ Complete' /\ HubsRanked'
  BY <1>0, <1>1, <1>2, <1>3, <1>7, <1>10 DEF Placed, Complete, HubsRanked
<1>12. Opening' /\ Closing'
  <2>1. (phase \in First)'
    BY <1>1
  <2> QED BY <2>1, OtherPhases, PTL
<1> QED BY <1>5, <1>8, <1>9, <1>10, <1>11, <1>12 DEF Inv, Sorting

LEMMA EndEasyInv == Inv /\ EndEasy => Inv'
<1> SUFFICES ASSUME Inv, EndEasy  PROVE Inv'
  OBVIOUS
<1>0. Hubs' = Hubs /\ Rank' = Rank
  BY ArgumentsStay DEF EndEasy, shared
<1>1. phase \in First /\ phase' \in First /\ phase' = phase
  BY DEF EndEasy, shared, First
<1>2. /\ Types /\ HubsRanked /\ Handled /\ Steps /\ Placed /\ Complete
      /\ Hubs \subseteq NodeID /\ numHubs .. (N - 1) \subseteq NodeID
  BY <1>1, FirstFacts
<1>3. /\ UNCHANGED <<input, kind, new_ids, phase, localOffsets, numHubs, queue, todo, unassignedCtr>>
      /\ UNCHANGED <<n, lqueue, slot>> /\ todo = {}
  BY DEF EndEasy, shared
<1>4. \A s \in Threads : pc[s] = "loop" /\ pc'[s] = "lastFlush"
  BY DEF EndEasy
<1>5. Types'
  BY <1>2, <1>3 DEF Types, EndEasy
<1>6. \A s \in Threads : (Busy(s)' <=> Busy(s)) /\ (Copying(s)' <=> Copying(s))
  BY <1>4 DEF Busy, Copying
<1>7. Left' = Left
  BY <1>3, <1>6 DEF Left
<1>8. Handled'
  BY <1>1, <1>2, <1>3, <1>6 DEF Handled
<1>9. Steps'
  BY <1>1, <1>3, <1>4 DEF Steps, Copying
<1>10. Stored' = Stored /\ Queue' /\ Contents'
  BY <1>1, <1>3, <1>6, <1>7, StorageStays
<1>11. Placed' /\ Complete' /\ HubsRanked'
  BY <1>0, <1>1, <1>2, <1>3, <1>7, <1>10 DEF Placed, Complete, HubsRanked
<1>12. Opening' /\ Closing'
  <2>1. (phase \in First)'
    BY <1>1
  <2> QED BY <2>1, OtherPhases, PTL
<1> QED BY <1>5, <1>8, <1>9, <1>10, <1>11, <1>12 DEF Inv, Sorting

LEMMA PushAppendInv ==
  ASSUME Inv, NEW t \in Threads, pc[t] = "push", BufferAppend(t), UNCHANGED <<shared, slot>>
  PROVE  Inv'
<1>0. Hubs' = Hubs /\ Rank' = Rank
  BY ArgumentsStay DEF shared
<1>1. phase \in First /\ phase' \in First /\ phase' = phase /\ Busy(t) /\ ~ Copying(t)
  BY PhaseOf DEF shared, Busy, Copying
<1>2. /\ Types /\ HubsRanked /\ Handled /\ Steps /\ Placed /\ Queue /\ Contents /\ Complete
      /\ Hubs \subseteq NodeID /\ numHubs .. (N - 1) \subseteq NodeID
  BY <1>1, FirstFacts
<1>3. /\ UNCHANGED <<input, kind, new_ids, phase, localOffsets, numHubs, queue, todo, unassignedCtr>>
      /\ lqueue' = [lqueue EXCEPT ![t] = Append(@, n[t])] /\ slot' = slot
      /\ pc' = [pc EXCEPT ![t] = "loop"] /\ n' = [n EXCEPT ![t] = 0]
  BY DEF shared, BufferAppend, Goto
<1>4. /\ \A v \in NodeID : v \in Left' <=> v \in Left \/ v = n[t]
      /\ n[t] \notin Left /\ n[t] \in numHubs .. (N - 1) /\ n[t] \in NodeID /\ Handled'
  BY <1>1, <1>3, Released
<1>5. n[t] \in Hubs /\ Rank[n[t]] \in Hubs /\ n[t] >= numHubs
  BY <1>1, <1>2, <1>4 DEF Steps
<1>6. /\ pc'[t] = "loop" /\ lqueue[t] \in Seq(NodeID) /\ lqueue'[t] = Append(lqueue[t], n[t])
      /\ \A s \in Threads : s # t => pc'[s] = pc[s] /\ n'[s] = n[s] /\ lqueue'[s] = lqueue[s]
  BY <1>2, <1>3 DEF Types
<1>7. Types'
  <2>1. 0 \in NodeID
    BY NAssumption DEF NodeID
  <2>2. lqueue' \in [Threads -> Seq(NodeID)]
    BY <1>2, <1>3, <1>4, <1>6 DEF Types
  <2> QED BY <1>2, <1>3, <2>1, <2>2 DEF Types
<1>8. Steps'
  BY <1>0, <1>1, <1>2, <1>3, <1>6 DEF Steps, Copying
<1>9. \A s \in Threads : (Copying(s)' <=> Copying(s)) /\ (Copying(s) => s # t /\ Claim(s)' = Claim(s))
  BY <1>1, <1>3, <1>6 DEF Copying, Claim
<1>10. Filled' = Filled
  BY <1>3, <1>9 DEF Filled
<1> DEFINE new == <<t, Len(lqueue[t]) + 1>>
<1>11. /\ Buffered' = Buffered \union {new} /\ new \notin Buffered
       /\ \A b \in Buffered : lqueue'[b[1]][b[2]] = lqueue[b[1]][b[2]]
       /\ lqueue'[new[1]][new[2]] = n[t]
  <2>1. /\ Len(lqueue[t]) \in Nat /\ Len(lqueue'[t]) = Len(lqueue[t]) + 1
        /\ \A i \in 1 .. Len(lqueue[t]) : lqueue'[t][i] = lqueue[t][i]
        /\ lqueue'[t][Len(lqueue[t]) + 1] = n[t]
    BY <1>4, <1>6
  <2>2. \A s \in Threads, i \in Nat : i \in 1 .. Len(lqueue'[s]) <=>
                                        i \in 1 .. Len(lqueue[s]) \/ (s = t /\ i = Len(lqueue[t]) + 1)
    <3> SUFFICES ASSUME NEW s \in Threads, NEW i \in Nat
                 PROVE  i \in 1 .. Len(lqueue'[s]) <=>
                          i \in 1 .. Len(lqueue[s]) \/ (s = t /\ i = Len(lqueue[t]) + 1)
      OBVIOUS
    <3> QED BY <1>6, <2>1
  <2>3. Buffered' = Buffered \union {new}
    BY <2>1, <2>2 DEF Buffered
  <2>4. new \notin Buffered
    BY <2>1 DEF Buffered
  <2>5. \A b \in Buffered : lqueue'[b[1]][b[2]] = lqueue[b[1]][b[2]]
    BY <1>6, <2>1 DEF Buffered
  <2> QED BY <2>1, <2>3, <2>4, <2>5
<1> HIDE DEF new
<1>12. Waiting \subseteq Waiting' /\ n[t] \in Waiting' /\ n[t] \notin Waiting /\ n[t] \notin Stored
  <2>1. Waiting \subseteq Waiting' /\ n[t] \in Waiting' /\ n[t] \notin Waiting
    BY <1>0, <1>2, <1>3, <1>4, <1>5 DEF Waiting
  <2> QED BY <1>1, <1>2, <2>1 DEF Contents, Stored
<1>13. Stored' = Stored \union {n[t]}
  BY <1>3, <1>10, <1>11 DEF Stored
<1>14. Queue'
  <2>1. \A s \in Threads : Copying(s) => lqueue'[s] = lqueue[s]
    BY <1>6, <1>9
  <2> QED BY <1>1, <1>2, <1>3, <1>9, <2>1 DEF Queue
<1>15. Contents'
  <2>1. \A p \in Filled : queue.shared[p] \in Waiting /\ queue.shared[p] # n[t]
    BY <1>1, <1>2, <1>12 DEF Contents
  <2>2. \A b \in Buffered : lqueue[b[1]][b[2]] \in Waiting /\ lqueue[b[1]][b[2]] # n[t]
    BY <1>1, <1>2, <1>12 DEF Contents
  <2>3. \A b \in Buffered' : lqueue'[b[1]][b[2]] \in Waiting'
    BY <1>11, <1>12, <2>2
  <2>4. \A b, c \in Buffered' : lqueue'[b[1]][b[2]] = lqueue'[c[1]][c[2]] => b = c
    BY <1>1, <1>2, <1>11, <2>2 DEF Contents
  <2>5. \A p \in Filled', b \in Buffered' : queue'.shared[p] # lqueue'[b[1]][b[2]]
    <3> SUFFICES ASSUME NEW p \in Filled, NEW b \in Buffered \union {new}
                 PROVE  queue.shared[p] # lqueue'[b[1]][b[2]]
      BY <1>3, <1>10, <1>11
    <3>1. CASE b = new
      BY <1>11, <2>1, <3>1
    <3>2. CASE b \in Buffered
      BY <1>1, <1>2, <1>11, <3>2 DEF Contents
    <3> QED BY <3>1, <3>2
  <2>6. /\ \A p \in Filled' : queue'.shared[p] \in Waiting'
        /\ \A p, q \in Filled' : queue'.shared[p] = queue'.shared[q] => p = q
    BY <1>1, <1>2, <1>3, <1>10, <1>12, <2>1 DEF Contents
  <2> QED BY <2>3, <2>4, <2>5, <2>6 DEF Contents
<1>16. Placed'
  BY <1>0, <1>1, <1>2, <1>3, <1>4 DEF Placed
<1>17. Complete'
  BY <1>0, <1>1, <1>2, <1>3, <1>4, <1>5, <1>13 DEF Complete
<1>18. HubsRanked'
  BY <1>0, <1>1, <1>2, <1>3 DEF HubsRanked
<1>19. Opening' /\ Closing'
  <2>1. (phase \in First)'
    BY <1>1
  <2> QED BY <2>1, OtherPhases, PTL
<1> QED BY <1>4, <1>7, <1>8, <1>14, <1>15, <1>16, <1>17, <1>18, <1>19 DEF Inv, Sorting

\* The queue has a cell for every hub, and no hub is in two cells.
LEMMA QueueHasRoom ==
  phase \in First /\ Types /\ Queue /\ Contents => queue.in <= Cardinality(Hubs)
<1> SUFFICES ASSUME phase \in First, Types, Queue, Contents  PROVE queue.in <= Cardinality(Hubs)
  OBVIOUS
<1> DEFINE S == 0 .. (queue.in - 1)
           owner(p) == CHOOSE t \in Threads : Copying(t) /\ p \in Claim(t)
           place(p) == <<owner(p), p - slot[owner(p)] + 1>>
           f == [p \in S |-> IF p \in Filled THEN queue.shared[p]
                             ELSE lqueue[place(p)[1]][place(p)[2]]]
<1>1. queue.in \in Nat
  BY DEF Queue, Queues
<1>2. ASSUME NEW p \in S, p \notin Filled
      PROVE  /\ owner(p) \in Threads /\ Copying(owner(p)) /\ p \in Claim(owner(p))
             /\ place(p) \in Buffered
  <2>1. \E t \in Threads : Copying(t) /\ p \in Claim(t)
    BY <1>2 DEF Filled
  <2>2. owner(p) \in Threads /\ Copying(owner(p)) /\ p \in Claim(owner(p))
    BY <2>1
  <2> HIDE DEF owner
  <2>3. slot[owner(p)] \in Nat /\ Len(lqueue[owner(p)]) \in Nat
    <3>1. lqueue[owner(p)] \in Seq(NodeID) /\ slot[owner(p)] \in 0 .. N
      BY <2>2 DEF Types
    <3> QED BY <3>1
  <2>4. p - slot[owner(p)] + 1 \in 1 .. Len(lqueue[owner(p)])
    BY <2>2, <2>3 DEF Claim
  <2> QED BY <2>2, <2>4 DEF Buffered
<1>3. f \in [S -> Hubs]
  <2>1. Waiting \subseteq Hubs
    BY DEF Waiting
  <2> HIDE DEF place
  <2> QED BY <1>2, <2>1 DEF Contents
<1>4. ASSUME NEW p \in S, NEW q \in S, f[p] = f[q]  PROVE p = q
  <2> HIDE DEF owner
  <2>1. CASE p \in Filled /\ q \in Filled
    BY <1>4, <2>1 DEF Contents
  <2>2. CASE p \in Filled /\ q \notin Filled
    BY <1>2, <1>4, <2>2 DEF Contents
  <2>3. CASE p \notin Filled /\ q \in Filled
    BY <1>2, <1>4, <2>3 DEF Contents
  <2>4. CASE p \notin Filled /\ q \notin Filled
    <3>1. place(p) = place(q)
      BY <1>2, <1>4, <2>4 DEF Contents
    <3>2. slot[owner(p)] \in 0 .. N /\ owner(p) = owner(q)
      BY <1>2, <2>4, <3>1 DEF Types
    <3>3. p - slot[owner(p)] + 1 = q - slot[owner(p)] + 1
      BY <3>1, <3>2
    <3> QED BY <1>1, <3>2, <3>3
  <2> QED BY <2>1, <2>2, <2>3, <2>4
<1> HIDE DEF f
<1>5. f \in Injection(S, Hubs)
  BY <1>3, <1>4, Fun_IsInj
<1>6. Cardinality(S) <= Cardinality(Hubs)
  BY <1>5, Sizes, FS_Injection
<1>7. Cardinality(S) = queue.in
  <2>1. 0 \in Int /\ queue.in - 1 \in Int
    BY <1>1
  <2>2. Cardinality(S) = IF 0 > queue.in - 1 THEN 0 ELSE (queue.in - 1) - 0 + 1
    BY <2>1, FS_Interval
  <2> QED BY <1>1, <2>2
<1> QED BY <1>6, <1>7

LEMMA FlushInv ==
  ASSUME Inv, NEW t \in Threads, Flush(t)  PROVE Inv'
<1>0. Hubs' = Hubs /\ Rank' = Rank
  BY ArgumentsStay DEF Flush
<1>1. /\ phase = "easy" /\ phase \in First /\ phase' \in First
      /\ pc[t] \in {"flush", "lastFlush"} /\ (phase' = "easy" => numHubs # 0)
  BY DEF Flush, First
<1>2. /\ Types /\ HubsRanked /\ Handled /\ Steps /\ Placed /\ Queue /\ Contents /\ Complete
      /\ Hubs \subseteq NodeID /\ numHubs .. (N - 1) \subseteq NodeID
      /\ numHubs = Cardinality(Hubs) /\ numHubs \in 0 .. N
  BY <1>1, FirstFacts
<1> DEFINE size == Len(lqueue[t])
           location == IF pc[t] = "flush" THEN "copy" ELSE "lastCopy"
<1>3. /\ UNCHANGED <<input, kind, new_ids, localOffsets, numHubs, todo, unassignedCtr, n, lqueue>>
      /\ slot' = [slot EXCEPT ![t] = queue.in] /\ queue' = [queue EXCEPT !.in = @ + size]
      /\ pc' = [pc EXCEPT ![t] = location]
  BY DEF Flush, FlushClaim, Goto
<1>4. /\ queue.in \in Nat /\ size \in Nat /\ queue \in Queues(numHubs, NodeID \union {None})
      /\ queue'.in = queue.in + size /\ queue'.shared = queue.shared
      /\ queue'.start = queue.start /\ queue'.end = queue.end
      /\ queue' \in Queues(numHubs, NodeID \union {None})
  <2>1. queue \in Queues(numHubs, NodeID \union {None}) /\ lqueue[t] \in Seq(NodeID)
    BY <1>1, <1>2 DEF Queue, Types
  <2>2. queue.in \in Nat /\ size \in Nat
    BY <2>1 DEF Queues
  <2> HIDE DEF size
  <2> QED BY <1>3, <2>1, <2>2 DEF Queues
<1>5. /\ pc'[t] \in {"copy", "lastCopy"} /\ slot'[t] = queue.in
      /\ (pc[t] = "flush" <=> pc'[t] = "copy") /\ (pc[t] = "lastFlush" <=> pc'[t] = "lastCopy")
      /\ \A s \in Threads : s # t => pc'[s] = pc[s] /\ slot'[s] = slot[s]
  BY <1>1, <1>2, <1>3 DEF Types
<1> HIDE DEF size, location
<1>6. Types'
  <2>1. queue.in \in 0 .. N
    <3>1. queue.in <= numHubs /\ numHubs \in 0 .. N /\ queue.in \in Nat
      BY <1>1, <1>2, <1>4, QueueHasRoom
    <3>2. \A i \in Nat : \A j \in 0 .. N : i <= j => i \in 0 .. N
      BY NAssumption
    <3> QED BY <3>1, <3>2
  <2>2. slot' \in [Threads -> 0 .. N]
    BY <1>2, <1>3, <2>1 DEF Types
  <2> QED BY <1>1, <1>2, <1>3, <2>2 DEF Types, location
<1>7. /\ \A s \in Threads : Busy(s)' <=> Busy(s)
      /\ \A s \in Threads : Copying(s)' <=> Copying(s) \/ s = t
      /\ ~ Copying(t)
      /\ \A s \in Threads : Copying(s) => Claim(s)' = Claim(s)
      /\ Claim(t)' = queue.in .. (queue.in + size - 1)
  BY <1>1, <1>3, <1>5 DEF Busy, Copying, Claim, size
<1>8. Left' = Left
  BY <1>3, <1>7 DEF Left
<1>9. Handled'
  BY <1>1, <1>2, <1>3, <1>7 DEF Handled
<1>10. Steps'
  BY <1>0, <1>1, <1>2, <1>3, <1>5 DEF Steps, Copying
<1>11. \A s \in Threads : Copying(s) => \A p \in Claim(s) : p < queue.in
  <2> SUFFICES ASSUME NEW s \in Threads, Copying(s), NEW p \in Claim(s)  PROVE p < queue.in
    OBVIOUS
  <2>1. slot[s] + Len(lqueue[s]) <= queue.in /\ slot[s] \in Nat /\ Len(lqueue[s]) \in Nat
    <3>1. slot[s] \in 0 .. N /\ lqueue[s] \in Seq(NodeID)
      BY <1>2 DEF Types
    <3> QED BY <1>1, <1>2, <3>1 DEF Queue
  <2> QED BY <1>4, <2>1 DEF Claim
<1>12. Filled' = Filled
  <2>1. ASSUME NEW p \in 0 .. (queue.in + size - 1)
        PROVE  (\A s \in Threads : Copying(s)' => p \notin Claim(s)') <=>
                 p < queue.in /\ \A s \in Threads : Copying(s) => p \notin Claim(s)
    BY <1>4, <1>7
  <2>2. \A p : p \in 0 .. (queue.in - 1) <=> p \in 0 .. (queue.in + size - 1) /\ p < queue.in
    BY <1>4
  <2> QED BY <1>4, <2>1, <2>2 DEF Filled
<1>13. Buffered' = Buffered /\ Stored' = Stored /\ Waiting' = Waiting
  BY <1>0, <1>3, <1>4, <1>8, <1>12 DEF Buffered, Stored, Waiting
<1>14. Queue'
  <2>1. unassignedCtr' = 0 /\ queue'.start = 0 /\ queue'.end = 0
        /\ queue' \in Queues(numHubs', NodeID \union {None})
    BY <1>1, <1>2, <1>3, <1>4 DEF Queue
  <2>2. \A s \in Threads : Copying(s)' => slot'[s] + Len(lqueue'[s]) <= queue'.in
    <3> SUFFICES ASSUME NEW s \in Threads, Copying(s)'  PROVE slot'[s] + Len(lqueue'[s]) <= queue'.in
      OBVIOUS
    <3>1. CASE s = t
      BY <1>3, <1>4, <1>5, <3>1 DEF size
    <3>2. CASE s # t
      <4>1. slot[s] + Len(lqueue[s]) <= queue.in /\ slot[s] \in 0 .. N /\ lqueue[s] \in Seq(NodeID)
        BY <1>1, <1>2, <1>7, <3>2 DEF Queue, Types
      <4>2. slot'[s] = slot[s] /\ lqueue'[s] = lqueue[s] /\ Len(lqueue[s]) \in Nat
        BY <1>3, <1>5, <3>2, <4>1
      <4> QED BY <1>4, <4>1, <4>2
    <3> QED BY <3>1, <3>2
  <2>3. \A r, s \in Threads : Copying(r)' /\ Copying(s)' /\ r # s => Claim(r)' \intersect Claim(s)' = {}
    <3>1. \A s \in Threads : Copying(s) => Claim(s) \intersect (queue.in .. (queue.in + size - 1)) = {}
      BY <1>4, <1>11
    <3>2. \A r, s \in Threads : Copying(r) /\ Copying(s) /\ r # s => Claim(r) \intersect Claim(s) = {}
      BY <1>1, <1>2 DEF Queue
    <3> SUFFICES ASSUME NEW r \in Threads, NEW s \in Threads, Copying(r)', Copying(s)', r # s
                 PROVE  Claim(r)' \intersect Claim(s)' = {}
      OBVIOUS
    <3>3. CASE r # t /\ s # t
      BY <1>7, <3>2, <3>3
    <3>4. CASE r = t
      BY <1>7, <3>1, <3>4
    <3>5. CASE s = t
      BY <1>7, <3>1, <3>5
    <3> QED BY <3>3, <3>4, <3>5
  <2> QED BY <2>1, <2>2, <2>3 DEF Queue
<1>15. Contents'
  BY <1>1, <1>2, <1>3, <1>4, <1>12, <1>13 DEF Contents
<1>16. Placed' /\ Complete' /\ HubsRanked'
  BY <1>0, <1>1, <1>2, <1>3, <1>8, <1>13 DEF Placed, Complete, HubsRanked
<1>17. Opening' /\ Closing'
  <2>1. (phase \in First)'
    BY <1>1
  <2> QED BY <2>1, OtherPhases, PTL
<1> QED BY <1>6, <1>9, <1>10, <1>14, <1>15, <1>16, <1>17 DEF Inv, Sorting

LEMMA CopyInv ==
  ASSUME Inv, NEW t \in Threads, Copy(t)  PROVE Inv'
<1>0. Hubs' = Hubs /\ Rank' = Rank
  BY ArgumentsStay DEF Copy
<1>1. /\ phase = "easy" /\ phase' = phase /\ phase \in First /\ phase' \in First
      /\ pc[t] \in {"copy", "lastCopy"} /\ Copying(t)
  BY DEF Copy, First, Copying
<1>2. /\ Types /\ HubsRanked /\ Handled /\ Steps /\ Placed /\ Queue /\ Contents /\ Complete
      /\ Hubs \subseteq NodeID /\ numHubs .. (N - 1) \subseteq NodeID
      /\ numHubs = Cardinality(Hubs) /\ numHubs \in 0 .. N
  BY <1>1, FirstFacts
<1>3. /\ UNCHANGED <<input, kind, new_ids, phase, localOffsets, numHubs, todo, unassignedCtr>>
      /\ queue' = FlushCopy(queue, slot[t], lqueue[t], numHubs)
      /\ slot' = [slot EXCEPT ![t] = 0]
  BY DEF Copy
<1>4. \/ /\ pc[t] = "copy" /\ pc' = [pc EXCEPT ![t] = "loop"]
         /\ lqueue' = [lqueue EXCEPT ![t] = <<n[t]>>] /\ n' = [n EXCEPT ![t] = 0]
      \/ /\ pc[t] = "lastCopy" /\ pc' = [pc EXCEPT ![t] = "flushed"]
         /\ lqueue' = [lqueue EXCEPT ![t] = << >>] /\ n' = n
  BY <1>1 DEF Copy, Goto
<1> DEFINE size == Len(lqueue[t])
           from == slot[t]
<1>5. /\ lqueue[t] \in Seq(NodeID) /\ size \in Nat /\ from \in Nat /\ from + size <= queue.in
      /\ queue.in \in Nat /\ queue.in <= numHubs /\ numHubs # 0
  <2>1. lqueue[t] \in Seq(NodeID) /\ from \in Nat
    BY <1>2 DEF Types
  <2>2. queue.in <= numHubs
    BY <1>1, <1>2, QueueHasRoom
  <2> QED BY <1>1, <1>2, <2>1, <2>2 DEF Queue, Queues, Steps
<1>6. queue' = [queue EXCEPT !.shared =
                  [c \in 0 .. (numHubs - 1) |-> IF c \in from .. (from + size - 1)
                                                THEN lqueue[t][c - from + 1]
                                                ELSE queue.shared[c]]]
  <2>1. queue \in Queues(numHubs, NodeID \union {None}) /\ lqueue[t] \in Seq(NodeID \union {None})
    BY <1>1, <1>2, <1>5 DEF Queue
  <2>2. from + size <= numHubs /\ numHubs \in Nat \ {0}
    <3>1. numHubs \in Nat
      BY <1>2, NAssumption
    <3> HIDE DEF size, from
    <3> QED BY <1>5, <3>1
  <2>3. slot[t] \in Nat /\ slot[t] + Len(lqueue[t]) <= numHubs
    BY <1>5, <2>2
  <2>4. numHubs \in Nat \ {0}
    BY <2>2
  <2>5. FlushCopy(queue, slot[t], lqueue[t], numHubs) = Copied(queue, slot[t], lqueue[t], numHubs)
    BY <2>1, <2>3, <2>4, FlushCopies
  <2> QED BY <1>3, <2>5 DEF Copied
<1>7. /\ queue'.in = queue.in /\ queue'.start = queue.start /\ queue'.end = queue.end
      /\ queue' \in Queues(numHubs, NodeID \union {None})
      /\ \A p \in Claim(t) : /\ p \in 0 .. (numHubs - 1) /\ p - from + 1 \in 1 .. size
                             /\ queue'.shared[p] = lqueue[t][p - from + 1]
      /\ \A p \in 0 .. (queue.in - 1) : p \notin Claim(t) => queue'.shared[p] = queue.shared[p]
  <2>1. queue \in Queues(numHubs, NodeID \union {None})
    BY <1>1, <1>2 DEF Queue
  <2>2. Claim(t) = from .. (from + size - 1)
    BY DEF Claim
  <2>0. numHubs \in Nat
    BY <1>2, NAssumption
  <2>3. \A p \in Claim(t) : p \in 0 .. (numHubs - 1) /\ p - from + 1 \in 1 .. size
    <3> HIDE DEF size, from, Claim
    <3> QED BY <1>5, <2>0, <2>2
  <2>4. \A p \in 0 .. (queue.in - 1) : p \in 0 .. (numHubs - 1)
    BY <1>5, <2>0
  <2>5. \A i \in 1 .. size : lqueue[t][i] \in NodeID
    BY <1>5
  <2> HIDE DEF size, from
  <2> QED BY <1>6, <2>1, <2>2, <2>3, <2>4, <2>5 DEF Queues
<1>8. /\ pc'[t] \in {"loop", "flushed"}
      /\ \A s \in Threads : s # t => /\ pc'[s] = pc[s] /\ n'[s] = n[s]
                                     /\ slot'[s] = slot[s] /\ lqueue'[s] = lqueue[s]
  BY <1>2, <1>3, <1>4 DEF Types
<1>9. Types'
  <2>1. 0 \in NodeID /\ 0 \in 0 .. N /\ n[t] \in NodeID
    BY <1>2, NAssumption DEF NodeID, Types
  <2>2. lqueue' \in [Threads -> Seq(NodeID)] /\ slot' \in [Threads -> 0 .. N]
    <3>1. \E b \in Seq(NodeID) : lqueue' = [lqueue EXCEPT ![t] = b]
      <4>1. << >> \in Seq(NodeID) /\ <<n[t]>> \in Seq(NodeID)
        BY <2>1
      <4> QED BY <1>4, <4>1
    <3>2. lqueue \in [Threads -> Seq(NodeID)] /\ slot \in [Threads -> 0 .. N]
      BY <1>2 DEF Types
    <3> QED BY <1>3, <2>1, <3>1, <3>2
  <2>3. pc' \in [Threads -> {"start", "marked", "numbered", "loop", "keep", "look", "swap", "push",
                             "flush", "copy", "lastFlush", "lastCopy", "flushed", "fetch", "assign"}]
        /\ n' \in [Threads -> NodeID]
    BY <1>2, <1>4, <2>1 DEF Types
  <2> QED BY <1>2, <1>3, <2>2, <2>3 DEF Types
<1>10. /\ \A s \in Threads : Copying(s)' <=> Copying(s) /\ s # t
       /\ \A s \in Threads : Copying(s) /\ s # t => Claim(s)' = Claim(s)
  BY <1>8 DEF Copying, Claim
<1>11. \A s \in Threads : Copying(s) /\ s # t => Claim(s) \intersect Claim(t) = {}
  BY <1>1, <1>2 DEF Queue
<1> HIDE DEF size, from
<1>12. Filled' = Filled \union Claim(t) /\ Filled \intersect Claim(t) = {}
  <2>1. Claim(t) \subseteq 0 .. (queue.in - 1)
    BY <1>5 DEF Claim, size, from
  <2> QED BY <1>1, <1>7, <1>10, <1>11, <2>1 DEF Filled
<1> DEFINE Rest == {b \in Buffered : b[1] # t}
           New  == IF pc[t] = "copy" THEN {<<t, 1>>} ELSE {}
<1>13. /\ Buffered' = Rest \union New
       /\ \A b \in Rest : lqueue'[b[1]][b[2]] = lqueue[b[1]][b[2]]
       /\ \A b \in New : lqueue'[b[1]][b[2]] = n[t]
  <2>1. /\ pc[t] = "copy" => lqueue'[t] = <<n[t]>>
        /\ pc[t] = "lastCopy" => lqueue'[t] = << >>
    BY <1>2, <1>4 DEF Types
  <2>2. ASSUME NEW s \in Threads, NEW i \in Nat
        PROVE  i \in 1 .. Len(lqueue'[s]) <=>
                 \/ s # t /\ i \in 1 .. Len(lqueue[s])
                 \/ s = t /\ pc[t] = "copy" /\ i = 1
    <3>1. CASE s # t
      BY <1>8, <3>1
    <3>2. CASE s = t /\ pc[t] = "copy"
      <4>1. lqueue'[s] = <<n[t]>> /\ Len(<<n[t]>>) = 1
        BY <2>1, <3>2
      <4>2. \A j \in Nat : j \in 1 .. 1 <=> j = 1
        OBVIOUS
      <4> QED BY <3>2, <4>1, <4>2
    <3>3. CASE s = t /\ pc[t] = "lastCopy"
      <4>1. lqueue'[s] = << >> /\ Len(<< >>) = 0
        BY <2>1, <3>3
      <4> QED BY <3>3, <4>1
    <3> QED BY <1>1, <3>1, <3>2, <3>3
  <2>3. Buffered' = Rest \union New
    BY <2>2 DEF Buffered
  <2>4. \A b \in Rest : lqueue'[b[1]][b[2]] = lqueue[b[1]][b[2]]
    BY <1>8 DEF Buffered
  <2>5. \A b \in New : lqueue'[b[1]][b[2]] = n[t]
    BY <2>1
  <2> QED BY <2>3, <2>4, <2>5
<1>14. \A v \in NodeID : v \in Left' <=> v \in Left \/ (pc[t] = "copy" /\ v = n[t])
  <2>1. CASE pc[t] = "copy"
    BY <1>1, <1>3, <1>4, <2>1, Released DEF Busy
  <2>2. CASE pc[t] = "lastCopy"
    <3>1. \A s \in Threads : (Busy(s)' <=> Busy(s)) /\ (Busy(s) => n'[s] = n[s])
      BY <1>2, <1>4, <1>8, <2>2 DEF Busy, Types
    <3> QED BY <1>3, <2>2, <3>1 DEF Left
  <2> QED BY <1>1, <2>1, <2>2
<1>15. pc[t] = "copy" => /\ n[t] \in Hubs /\ Rank[n[t]] \in Hubs /\ n[t] >= numHubs
                         /\ n[t] \in NodeID /\ n[t] \notin Left
  <2> SUFFICES ASSUME pc[t] = "copy"
               PROVE  /\ n[t] \in Hubs /\ Rank[n[t]] \in Hubs /\ n[t] >= numHubs
                      /\ n[t] \in NodeID /\ n[t] \notin Left
    OBVIOUS
  <2>1. n[t] \in numHubs .. (N - 1) /\ Busy(t)
    BY <1>1, <1>2 DEF Handled, Busy
  <2> QED BY <1>1, <1>2, <2>1 DEF Steps, Left
<1>16. Handled'
  <2>1. CASE pc[t] = "copy"
    BY <1>1, <1>3, <1>4, <2>1, Released DEF Busy
  <2>2. CASE pc[t] = "lastCopy"
    <3>1. \A s \in Threads : (Busy(s)' <=> Busy(s)) /\ (Busy(s) => n'[s] = n[s])
      BY <1>2, <1>4, <1>8, <2>2 DEF Busy, Types
    <3> QED BY <1>1, <1>2, <1>3, <2>2, <3>1 DEF Handled
  <2> QED BY <1>1, <2>1, <2>2
<1>17. Steps'
  <2>1. pc[t] = "copy" => pc'[t] = "loop"
    BY <1>2, <1>4 DEF Types
  <2>2. pc[t] = "lastCopy" => pc'[t] = "flushed" /\ lqueue'[t] = << >> /\ todo = {}
    BY <1>1, <1>2, <1>4 DEF Types, Steps
  <2> QED BY <1>0, <1>1, <1>2, <1>3, <1>8, <2>1, <2>2 DEF Steps, Copying
<1>18. Queue'
  <2>1. \A s \in Threads : Copying(s)' => slot'[s] = slot[s] /\ lqueue'[s] = lqueue[s]
    BY <1>8, <1>10
  <2> QED BY <1>1, <1>2, <1>3, <1>7, <1>10, <2>1 DEF Queue
<1>19. /\ Waiting \subseteq Waiting'
       /\ \A b \in New : n[t] \in Waiting' /\ n[t] \notin Waiting
  <2>1. Waiting \subseteq Waiting'
    BY <1>0, <1>2, <1>3, <1>14 DEF Waiting
  <2>2. pc[t] = "copy" => n[t] \in Waiting' /\ n[t] \notin Waiting
    BY <1>0, <1>3, <1>14, <1>15 DEF Waiting
  <2> QED BY <2>1, <2>2
<1> DEFINE place(p) == <<t, p - from + 1>>
<1>20. /\ \A p \in Filled : queue'.shared[p] = queue.shared[p]
       /\ \A p \in Claim(t) : /\ place(p) \in Buffered /\ place(p)[1] = t
                              /\ queue'.shared[p] = lqueue[place(p)[1]][place(p)[2]]
       /\ \A p, q \in Claim(t) : place(p) = place(q) => p = q
  <2>1. \A p \in Filled : queue'.shared[p] = queue.shared[p]
    BY <1>7, <1>12 DEF Filled
  <2>2. \A p \in Claim(t) : p - from + 1 \in 1 .. Len(lqueue[t]) /\ p - from + 1 \in Nat
    BY <1>5, <1>7 DEF size
  <2>3. \A p \in Claim(t) : /\ place(p) \in Buffered /\ place(p)[1] = t
                            /\ queue'.shared[p] = lqueue[place(p)[1]][place(p)[2]]
    BY <1>7, <2>2 DEF Buffered
  <2>4. ASSUME NEW p \in Claim(t), NEW q \in Claim(t), place(p) = place(q)  PROVE p = q
    <3>1. p - from + 1 = q - from + 1
      BY <2>4
    <3>2. p \in Int /\ q \in Int /\ from \in Int
      BY <1>5, <1>7
    <3> QED BY <3>1, <3>2
  <2> QED BY <2>1, <2>3, <2>4
<1> HIDE DEF place
<1>21. Contents'
  <2>1. /\ \A p \in Filled : queue.shared[p] \in Waiting
        /\ \A b \in Buffered : lqueue[b[1]][b[2]] \in Waiting
        /\ \A p, q \in Filled : queue.shared[p] = queue.shared[q] => p = q
        /\ \A b, c \in Buffered : lqueue[b[1]][b[2]] = lqueue[c[1]][c[2]] => b = c
        /\ \A p \in Filled, b \in Buffered : queue.shared[p] # lqueue[b[1]][b[2]]
    BY <1>1, <1>2 DEF Contents
  <2>2. \A p \in Filled' : queue'.shared[p] \in Waiting
    BY <1>12, <1>20, <2>1
  <2>3. \A b \in Rest : b \in Buffered /\ lqueue'[b[1]][b[2]] \in Waiting
    BY <1>13, <2>1
  <2>4. \A b \in New : lqueue'[b[1]][b[2]] \in Waiting' /\ lqueue'[b[1]][b[2]] \notin Waiting
    BY <1>13, <1>19
  <2>5. \A p, q \in Filled' : queue'.shared[p] = queue'.shared[q] => p = q
    <3> SUFFICES ASSUME NEW p \in Filled', NEW q \in Filled', queue'.shared[p] = queue'.shared[q]
                 PROVE  p = q
      OBVIOUS
    <3>1. CASE p \in Filled /\ q \in Filled
      BY <1>20, <2>1, <3>1
    <3>2. CASE p \in Filled /\ q \in Claim(t)
      BY <1>20, <2>1, <3>2
    <3>3. CASE p \in Claim(t) /\ q \in Filled
      BY <1>20, <2>1, <3>3
    <3>4. CASE p \in Claim(t) /\ q \in Claim(t)
      <4>1. place(p) = place(q)
        BY <1>20, <2>1, <3>4
      <4> QED BY <1>20, <3>4, <4>1
    <3> QED BY <1>12, <3>1, <3>2, <3>3, <3>4
  <2>6. \A b, c \in Buffered' : lqueue'[b[1]][b[2]] = lqueue'[c[1]][c[2]] => b = c
    <3> SUFFICES ASSUME NEW b \in Buffered', NEW c \in Buffered',
                        lqueue'[b[1]][b[2]] = lqueue'[c[1]][c[2]]
                 PROVE  b = c
      OBVIOUS
    <3>1. CASE b \in Rest /\ c \in Rest
      BY <1>13, <2>1, <3>1
    <3>2. CASE b \in Rest /\ c \in New
      BY <2>3, <2>4, <3>2
    <3>3. CASE b \in New /\ c \in Rest
      BY <2>3, <2>4, <3>3
    <3>4. CASE b \in New /\ c \in New
      BY <3>4
    <3> QED BY <1>13, <3>1, <3>2, <3>3, <3>4
  <2>7. \A p \in Filled', b \in Buffered' : queue'.shared[p] # lqueue'[b[1]][b[2]]
    <3> SUFFICES ASSUME NEW p \in Filled', NEW b \in Buffered'
                 PROVE  queue'.shared[p] # lqueue'[b[1]][b[2]]
      OBVIOUS
    <3>1. CASE b \in New
      BY <2>2, <2>4, <3>1
    <3>2. CASE b \in Rest /\ p \in Filled
      BY <1>13, <1>20, <2>1, <3>2
    <3>3. CASE b \in Rest /\ p \in Claim(t)
      <4>1. place(p) \in Buffered /\ b \in Buffered /\ b # place(p)
        BY <1>20, <3>3
      <4> QED BY <1>13, <1>20, <2>1, <3>3, <4>1
    <3> QED BY <1>12, <1>13, <3>1, <3>2, <3>3
  <2>8. \A b \in Buffered' : lqueue'[b[1]][b[2]] \in Waiting'
    BY <1>13, <1>19, <2>3, <2>4
  <2> HIDE DEF Rest, New
  <2> QED BY <1>19, <2>2, <2>5, <2>6, <2>7, <2>8 DEF Contents
<1>22. Stored \subseteq Stored' /\ (pc[t] = "copy" => n[t] \in Stored')
  <2>1. ASSUME NEW p \in Filled  PROVE queue.shared[p] \in Stored'
    BY <1>12, <1>20 DEF Stored
  <2>2. ASSUME NEW b \in Buffered  PROVE lqueue[b[1]][b[2]] \in Stored'
    <3>1. CASE b[1] # t
      BY <1>13, <3>1 DEF Stored
    <3>2. CASE b[1] = t
      <4> DEFINE p == from + b[2] - 1
      <4>1. b[2] \in 1 .. size /\ b[2] \in Nat
        BY <3>2 DEF Buffered, size
      <4>2. p \in Claim(t) /\ p - from + 1 = b[2]
        BY <1>5, <4>1 DEF Claim, size, from
      <4> HIDE DEF p
      <4>3. p \in Filled' /\ queue'.shared[p] = lqueue[t][b[2]]
        BY <1>7, <1>12, <4>2
      <4> QED BY <3>2, <4>3 DEF Stored
    <3> QED BY <3>1, <3>2
  <2>3. pc[t] = "copy" => n[t] \in Stored'
    <3> SUFFICES ASSUME pc[t] = "copy"  PROVE n[t] \in Stored'
      OBVIOUS
    <3>1. <<t, 1>> \in Buffered' /\ lqueue'[t][1] = n[t]
      BY <1>13
    <3>2. lqueue'[<<t, 1>>[1]][<<t, 1>>[2]] = n[t]
      BY <3>1
    <3> QED BY <3>1, <3>2 DEF Stored
  <2> QED BY <2>1, <2>2, <2>3 DEF Stored
<1>23. Placed'
  BY <1>0, <1>1, <1>2, <1>3, <1>14 DEF Placed
<1>24. Complete'
  BY <1>0, <1>1, <1>2, <1>3, <1>14, <1>15, <1>22 DEF Complete
<1>25. HubsRanked'
  BY <1>0, <1>1, <1>2, <1>3 DEF HubsRanked
<1>26. Opening' /\ Closing'
  <2>1. (phase \in First)'
    BY <1>1
  <2> QED BY <2>1, OtherPhases, PTL
<1> QED BY <1>9, <1>16, <1>17, <1>18, <1>21, <1>23, <1>24, <1>25, <1>26 DEF Inv, Sorting

-----------------------------------------------------------------------------
(* Between the loops: what the mapping holds when every vertex is handled. *)

LEMMA AllHandled ==
  ASSUME Inv, phase \in First, todo = {}, \A t \in Threads : ~ Busy(t)
  PROVE  /\ Left = NodeID
         /\ \A v \in NodeID \ Hubs : v >= numHubs => new_ids[v] = v
         /\ \A v \in NodeID \ Hubs : v < numHubs /\ new_ids[v] # None =>
              new_ids[v] \in Hubs /\ new_ids[v] >= numHubs /\ Rank[new_ids[v]] = v
         /\ \A i \in NodeID : i >= numHubs =>
              (\E v \in Assigned : new_ids[v] = i) \/ i \in Stored
<1>1. /\ Types /\ Placed /\ Complete /\ numHubs \in 0 .. N /\ Hubs \subseteq NodeID
      /\ \A v \in Hubs : new_ids[v] = Rank[v] /\ Rank[v] \in 0 .. (numHubs - 1) /\ Rank[v] # None
      /\ 0 .. (numHubs - 1) \subseteq NodeID
  BY FirstFacts
<1>2. Left = NodeID
  BY DEF Left
<1>3. \A v \in NodeID : v >= numHubs => v \in numHubs .. (N - 1) /\ v # None
  BY <1>1, NAssumption DEF NodeID, None
<1>4. ASSUME NEW v \in NodeID, v >= numHubs
      PROVE  \/ v \notin Hubs /\ new_ids[v] = v
             \/ v \in Hubs /\ Rank[v] \notin Hubs /\ new_ids[Rank[v]] = v
             \/ v \in Hubs /\ v \in Stored
  BY <1>1, <1>2, <1>3, <1>4 DEF Complete
<1>5. ASSUME NEW v \in NodeID \ Hubs, v < numHubs, new_ids[v] # None
      PROVE  new_ids[v] \in Hubs /\ new_ids[v] >= numHubs /\ Rank[new_ids[v]] = v
  <2>1. ~ (v >= numHubs)
    BY <1>1, <1>5 DEF NodeID
  <2> QED BY <1>1, <1>5, <2>1 DEF Placed
<1>6. ASSUME NEW i \in NodeID, i >= numHubs
      PROVE  (\E v \in Assigned : new_ids[v] = i) \/ i \in Stored
  <2>1. i # None
    BY <1>3, <1>6
  <2>2. i \in Hubs => Rank[i] \in NodeID
    BY <1>1
  <2> QED BY <1>4, <1>6, <2>1, <2>2 DEF Assigned
<1> QED BY <1>2, <1>4, <1>5, <1>6

LEMMA StartRestInv == Inv /\ StartRest => Inv'
<1> SUFFICES ASSUME Inv, StartRest  PROVE Inv'
  OBVIOUS
<1>0. Hubs' = Hubs /\ Rank' = Rank
  BY ArgumentsStay DEF StartRest
<1>1. /\ phase = "easy" /\ phase \in First /\ phase' = "rest" /\ phase' \in Last
      /\ \A t \in Threads : pc[t] = "flushed"
      /\ queue' = SlideWindow(queue) /\ todo' = 0 .. (numHubs - 1) /\ pc' = [t \in Threads |-> "loop"]
      /\ UNCHANGED <<input, kind, new_ids, localOffsets, numHubs, unassignedCtr, n, lqueue, slot>>
  BY DEF StartRest, First, Last
<1>2. /\ Types /\ HubsRanked /\ Steps /\ Queue /\ Contents
      /\ numHubs = Cardinality(Hubs) /\ numHubs \in 0 .. N /\ Hubs \subseteq NodeID
      /\ \A v \in Hubs : new_ids[v] = Rank[v] /\ Rank[v] \in 0 .. (numHubs - 1) /\ Rank[v] # None
      /\ \A u, v \in Hubs : Rank[u] = Rank[v] => u = v
      /\ 0 .. (numHubs - 1) \subseteq NodeID
  BY <1>1, FirstFacts
<1>3. /\ todo = {}
      /\ \A t \in Threads : lqueue[t] = << >> /\ ~ Busy(t) /\ ~ Copying(t)
  <2>1. 0 \in Threads
    BY Bounds
  <2> QED BY <1>1, <1>2, <2>1 DEF Steps, Busy, Copying
<1>4. /\ \A v \in NodeID \ Hubs : v >= numHubs => new_ids[v] = v
      /\ \A v \in NodeID \ Hubs : v < numHubs /\ new_ids[v] # None =>
           new_ids[v] \in Hubs /\ new_ids[v] >= numHubs /\ Rank[new_ids[v]] = v
      /\ \A i \in NodeID : i >= numHubs => (\E v \in Assigned : new_ids[v] = i) \/ i \in Stored
  BY <1>1, <1>3, AllHandled
<1>5. /\ queue \in Queues(numHubs, NodeID \union {None}) /\ queue.start = 0 /\ queue.end = 0
      /\ unassignedCtr = 0 /\ queue.in \in Nat /\ queue.in <= numHubs
  <2>1. queue \in Queues(numHubs, NodeID \union {None}) /\ queue.start = 0 /\ queue.end = 0
        /\ unassignedCtr = 0
    BY <1>1, <1>2 DEF Queue
  <2>2. queue.in <= numHubs
    BY <1>1, <1>2, QueueHasRoom
  <2> QED BY <2>1, <2>2 DEF Queues
<1>6. /\ queue' \in Queues(numHubs', NodeID \union {None})
      /\ queue'.start = 0 /\ queue'.end = queue.in /\ queue'.in = queue.in
      /\ queue'.shared = queue.shared
  BY <1>1, <1>5 DEF SlideWindow, Queues
<1>7. Filled = 0 .. (queue.in - 1) /\ Buffered = {}
  BY <1>3 DEF Filled, Buffered
<1>8. /\ \A p \in 0 .. (queue.in - 1) : queue.shared[p] \in Waiting
      /\ \A p, q \in 0 .. (queue.in - 1) : queue.shared[p] = queue.shared[q] => p = q
      /\ Stored = {queue.shared[p] : p \in 0 .. (queue.in - 1)}
  BY <1>1, <1>2, <1>7 DEF Contents, Stored
<1>9. \A v \in NodeID : v >= numHubs \/ v < numHubs
  BY <1>2 DEF NodeID
<1>10. \A v \in Hubs, i \in NodeID : i >= numHubs => new_ids[v] # i
  <2>1. \A i \in NodeID : \A j \in 0 .. (numHubs - 1) : i >= numHubs => j # i
    BY <1>2, NAssumption DEF NodeID
  <2> QED BY <1>2, <2>1
<1>11. Types'
  BY <1>1, <1>2 DEF Types
<1>12. Free = {queue.shared[p] : p \in 0 .. (queue.in - 1)}
  <2>1. ASSUME NEW p \in 0 .. (queue.in - 1)  PROVE queue.shared[p] \in Free
    <3> DEFINE h == queue.shared[p]
    <3>1. h \in Hubs /\ h >= numHubs /\ Rank[h] \in Hubs /\ h \in NodeID
      BY <1>2, <1>8 DEF Waiting
    <3> HIDE DEF h
    <3>2. ASSUME NEW v \in NodeID, new_ids[v] # None, new_ids[v] = h  PROVE FALSE
      <4>1. v \notin Hubs
        BY <1>10, <3>1, <3>2
      <4>2. CASE v >= numHubs
        BY <1>4, <3>1, <3>2, <4>1, <4>2
      <4>3. CASE v < numHubs
        BY <1>4, <3>1, <3>2, <4>1, <4>3
      <4> QED BY <1>9, <4>2, <4>3
    <3>3. h \in Free
      BY <3>1, <3>2 DEF Free, Assigned
    <3> QED BY <3>3 DEF h
  <2>2. ASSUME NEW i \in Free  PROVE i \in Stored
    <3>1. i \in NodeID /\ ~ \E v \in Assigned : new_ids[v] = i
      BY DEF Free
    <3>2. ~ (i < numHubs)
      <4> SUFFICES ASSUME i < numHubs  PROVE FALSE
        OBVIOUS
      <4>1. i \in 0 .. (numHubs - 1)
        BY <1>2, <3>1 DEF NodeID
      <4>2. PICK v \in Hubs : Rank[v] = i
        BY <1>2, <4>1, RanksAreIds
      <4> QED BY <1>2, <3>1, <4>2 DEF Assigned
    <3> QED BY <1>4, <1>9, <3>1, <3>2
  <2> QED BY <1>8, <2>1, <2>2
<1>13. Unused' = 0 .. (queue.in - 1)
  <2>1. \A p \in 0 .. (queue.in - 1) : p >= 0
    BY <1>5
  <2> QED BY <1>1, <1>5, <1>6, <2>1 DEF Unused
<1>14. Free' = Free
  BY <1>1 DEF Free, Assigned
<1>15. Window0'
  <2>1. unassignedCtr' \in 0 .. queue'.end
    BY <1>1, <1>5, <1>6
  <2>2. todo' \subseteq 0 .. (numHubs' - 1)
    BY <1>1
  <2> QED BY <1>1, <1>5, <1>6, <1>8, <1>12, <1>13, <1>14, <2>1, <2>2 DEF Window0
<1>16. Searching'
  BY <1>1 DEF Searching
<1>17. \A v \in NodeID : new_ids[v] = None => v \in 0 .. (numHubs - 1)
  <2> SUFFICES ASSUME NEW v \in NodeID, new_ids[v] = None  PROVE v \in 0 .. (numHubs - 1)
    OBVIOUS
  <2>1. v \notin Hubs
    BY <1>2
  <2>2. v # None
    BY DEF NodeID, None
  <2>3. v < numHubs
    BY <1>4, <1>9, <2>1, <2>2
  <2> QED BY <1>2, <2>3 DEF NodeID
<1>18. \A u, v \in Assigned : new_ids[u] = new_ids[v] => u = v
  <2> SUFFICES ASSUME NEW u \in NodeID, NEW v \in NodeID, new_ids[u] # None, new_ids[u] = new_ids[v]
               PROVE  u = v
    BY DEF Assigned
  <2>1. CASE u \in Hubs /\ v \in Hubs
    BY <1>2, <2>1
  <2>2. ASSUME NEW x \in NodeID \ Hubs, new_ids[x] # None
        PROVE  new_ids[x] \in NodeID /\ new_ids[x] >= numHubs
    BY <1>2, <1>4, <1>9, <2>2
  <2>3. ~ (u \in Hubs /\ v \notin Hubs) /\ ~ (v \in Hubs /\ u \notin Hubs)
    BY <1>10, <2>2
  <2>4. CASE u \notin Hubs /\ v \notin Hubs
    BY <1>4, <1>9, <2>4
  <2> QED BY <2>1, <2>3, <2>4
<1>19. new_ids \in [NodeID -> NodeID \union {None}]
  <2>1. ASSUME NEW v \in NodeID  PROVE new_ids[v] \in NodeID \union {None}
    <3>1. CASE v \in Hubs
      BY <1>2, <3>1
    <3>2. CASE v \notin Hubs
      BY <1>2, <1>4, <1>9, <3>2
    <3> QED BY <3>1, <3>2
  <2> QED BY <1>2, <2>1 DEF Types
<1>20. Mapped'
  <2>1. Assigned' = Assigned
    BY <1>1 DEF Assigned
  <2> QED BY <1>0, <1>1, <1>4, <1>17, <1>18, <1>19, <2>1 DEF Mapped
<1>21. HubsRanked' /\ Ended'
  BY <1>0, <1>1, <1>2 DEF HubsRanked, Ended
<1>22. Opening' /\ Sorting'
  <2>1. (phase \in Last)'
    BY <1>1
  <2> QED BY <2>1, OtherPhases, PTL
<1> QED BY <1>11, <1>15, <1>16, <1>20, <1>21, <1>22 DEF Inv, Closing

-----------------------------------------------------------------------------
(* The last loop. *)

LEMMA LastFacts ==
  ASSUME Inv, phase \in Last
  PROVE  /\ Types /\ HubsRanked /\ Window0 /\ Searching /\ Mapped
         /\ numHubs \in 0 .. N /\ numHubs \in Nat /\ Hubs \subseteq NodeID
         /\ \A v \in Hubs : new_ids[v] # None
         /\ queue.in \in Nat /\ queue.end \in Nat /\ unassignedCtr \in Nat /\ queue.in <= N
<1>1. Types /\ HubsRanked /\ Window0 /\ Searching /\ Mapped
  BY DEF Inv, Closing
<1>2. numHubs = Cardinality(Hubs) /\ numHubs \in 0 .. N /\ numHubs \in Nat /\ Hubs \subseteq NodeID
  BY <1>1, Sizes, NAssumption DEF HubsRanked, Hubs
<1>3. \A v \in Hubs : new_ids[v] # None
  BY <1>1, <1>2, RanksAreIds DEF HubsRanked, None
<1>4. queue.in \in Nat /\ queue.end = queue.in /\ unassignedCtr \in 0 .. queue.end /\ queue.in <= numHubs
  BY <1>1 DEF Window0, Queues
<1> QED BY <1>1, <1>2, <1>3, <1>4, NAssumption

\* As many ids are free as vertices have none.
LEMMA FreeCount ==
  ASSUME Inv, phase \in Last
  PROVE  /\ IsFiniteSet(Free) /\ IsFiniteSet(Assigned) /\ IsFiniteSet(NodeID \ Assigned)
         /\ Cardinality(Free) = N - Cardinality(Assigned)
         /\ Cardinality(NodeID \ Assigned) = N - Cardinality(Assigned)
<1> DEFINE ids == {new_ids[v] : v \in Assigned}
           f   == [v \in Assigned |-> new_ids[v]]
<1>1. Mapped
  BY LastFacts
<1>2. Assigned \subseteq NodeID /\ IsFiniteSet(Assigned)
  <2>1. Assigned \subseteq NodeID
    BY DEF Assigned
  <2> QED BY <2>1, Sizes, FS_Subset
<1>3. ids \subseteq NodeID
  BY <1>1 DEF Mapped, Assigned
<1>4. IsFiniteSet(ids) /\ Cardinality(ids) = Cardinality(Assigned)
  <2>1. f \in [Assigned -> ids] /\ (\A i \in ids : \E v \in Assigned : f[v] = i)
    OBVIOUS
  <2>2. \A u, v \in Assigned : f[u] = f[v] => u = v
    BY <1>1 DEF Mapped
  <2> HIDE DEF f, ids
  <2> QED BY <1>2, <2>1, <2>2, SameSize
<1>5. NodeID \intersect ids = ids /\ NodeID \intersect Assigned = Assigned
  BY <1>2, <1>3
<1>6. /\ IsFiniteSet(NodeID \ ids) /\ Cardinality(NodeID \ ids) = N - Cardinality(ids)
      /\ IsFiniteSet(NodeID \ Assigned) /\ Cardinality(NodeID \ Assigned) = N - Cardinality(Assigned)
  <2> HIDE DEF ids
  <2>1. \A S : NodeID \intersect S = S =>
                IsFiniteSet(NodeID \ S) /\ Cardinality(NodeID \ S) = N - Cardinality(S)
    <3> SUFFICES ASSUME NEW S, NodeID \intersect S = S
                 PROVE  IsFiniteSet(NodeID \ S) /\ Cardinality(NodeID \ S) = N - Cardinality(S)
      OBVIOUS
    <3>1. /\ IsFiniteSet(NodeID \ S)
          /\ Cardinality(NodeID \ S) = Cardinality(NodeID) - Cardinality(NodeID \intersect S)
      BY Sizes, FS_Difference
    <3> QED BY <3>1, Sizes
  <2> QED BY <1>5, <2>1
<1>7. Free = NodeID \ ids
  BY DEF Free
<1> QED BY <1>2, <1>4, <1>6, <1>7

\* The counter stays in the window: there is an id for every vertex that has none.
LEMMA CounterHasRoom ==
  ASSUME Inv, phase \in Last, NEW t \in Threads, pc[t] = "fetch"
  PROVE  unassignedCtr < queue.end
<1> SUFFICES ASSUME ~ (unassignedCtr < queue.end)  PROVE FALSE
  OBVIOUS
<1> DEFINE A == {s \in Threads : pc[s] = "assign"}
           f == [s \in A |-> queue.shared[slot[s]]]
           B == A \union {t}
           g == [s \in B |-> n[s]]
<1>1. Types /\ Window0 /\ Searching /\ Mapped /\ queue.end \in Nat /\ unassignedCtr \in Nat
  BY LastFacts
<1>2. IsFiniteSet(A) /\ IsFiniteSet(B) /\ Cardinality(B) = Cardinality(A) + 1 /\ Cardinality(A) \in Nat
  <2>1. IsFiniteSet(Threads)
    BY Bounds, FS_Interval
  <2>2. IsFiniteSet(A)
    BY <2>1, FS_Subset
  <2>3. t \notin A
    OBVIOUS
  <2> HIDE DEF A
  <2> QED BY <2>2, <2>3, FS_AddElement, FS_CardinalityType
<1>3. Cardinality(Free) <= Cardinality(A)
  <2>1. \A p \in 0 .. (queue.end - 1) : ~ (p >= unassignedCtr)
    BY <1>1
  <2>2. \A p \in Unused : \E s \in A : slot[s] = p
    BY <2>1 DEF Unused
  <2>3. Free \subseteq {f[s] : s \in A}
    <3>1. Free = {queue.shared[p] : p \in Unused}
      BY <1>1 DEF Window0
    <3> QED BY <2>2, <3>1
  <2>4. IsFiniteSet({f[s] : s \in A}) /\ Cardinality({f[s] : s \in A}) <= Cardinality(A)
    <3>1. f \in [A -> {f[s] : s \in A}]
      OBVIOUS
    <3> HIDE DEF A, f
    <3> QED BY <1>2, <3>1, ImageIsSmaller
  <2> HIDE DEF A, f
  <2>5. IsFiniteSet(Free) /\ Cardinality(Free) <= Cardinality({f[s] : s \in A})
    BY <2>3, <2>4, FS_Subset
  <2>6. Cardinality(Free) \in Nat /\ Cardinality({f[s] : s \in A}) \in Nat
    BY <2>4, <2>5, FS_CardinalityType
  <2> QED BY <1>2, <2>4, <2>5, <2>6
<1>4. Cardinality(B) <= Cardinality(NodeID \ Assigned)
  <2>1. \A s \in B : pc[s] # "loop" /\ s \in Threads
    OBVIOUS
  <2>2. g \in [B -> {n[s] : s \in B}]
    OBVIOUS
  <2>3. \A r, s \in B : g[r] = g[s] => r = s
    BY <1>1, <2>1 DEF Searching
  <2>4. \A v \in {n[s] : s \in B} : \E s \in B : g[s] = v
    OBVIOUS
  <2>5. {n[s] : s \in B} \subseteq NodeID \ Assigned
    BY <1>1, <2>1 DEF Searching, Assigned, Types
  <2> HIDE DEF A, B, g
  <2>6. IsFiniteSet({n[s] : s \in B}) /\ Cardinality({n[s] : s \in B}) = Cardinality(B)
    BY <1>2, <2>2, <2>3, <2>4, SameSize
  <2> QED BY <2>5, <2>6, FreeCount, FS_Subset
<1> HIDE DEF A, B
<1>5. Cardinality(Free) = Cardinality(NodeID \ Assigned) /\ Cardinality(Free) \in Nat
  BY FreeCount, FS_CardinalityType
<1> QED BY <1>2, <1>3, <1>4, <1>5

LEMMA TakeRestInv ==
  ASSUME Inv, NEW t \in Threads, NEW v \in todo, TakeRest(t, v)  PROVE Inv'
<1>0. Hubs' = Hubs /\ Rank' = Rank
  BY ArgumentsStay DEF TakeRest
<1>1. phase = "rest" /\ phase \in Last /\ phase' = phase /\ pc[t] = "loop"
  BY DEF TakeRest, Last
<1>2. Types /\ HubsRanked /\ Window0 /\ Searching /\ Mapped /\ todo \subseteq NodeID
  <2>1. Types /\ HubsRanked /\ Window0 /\ Searching /\ Mapped /\ numHubs \in 0 .. N
    BY <1>1, LastFacts
  <2>2. \A i \in 0 .. N : 0 .. (i - 1) \subseteq 0 .. (N - 1)
    BY NAssumption
  <2> QED BY <1>1, <2>1, <2>2 DEF Window0, NodeID
<1>3. /\ todo' = todo \ {v}
      /\ UNCHANGED <<input, kind, new_ids, phase, localOffsets, numHubs, queue, unassignedCtr,
                     lqueue, slot>>
  BY DEF TakeRest
<1>4. \/ new_ids[v] = None /\ n' = [n EXCEPT ![t] = v] /\ pc' = [pc EXCEPT ![t] = "fetch"]
      \/ new_ids[v] # None /\ UNCHANGED <<n, pc>>
  BY DEF TakeRest, Goto
<1>5. Types'
  BY <1>2, <1>3, <1>4 DEF Types
<1>6. \A s \in Threads : s # t => pc'[s] = pc[s] /\ n'[s] = n[s]
  BY <1>2, <1>4 DEF Types
<1>7. \/ new_ids[v] = None /\ pc'[t] = "fetch" /\ n'[t] = v
      \/ new_ids[v] # None /\ pc'[t] = "loop" /\ n'[t] = n[t]
  BY <1>1, <1>2, <1>4 DEF Types
<1>8. Window0'
  <2>1. Free' = Free
    BY <1>3 DEF Free, Assigned
  <2>2. \A s \in Threads : pc'[s] = "assign" <=> pc[s] = "assign"
    BY <1>1, <1>6, <1>7
  <2>3. Unused' = Unused
    BY <1>3, <2>2 DEF Unused
  <2> QED BY <1>1, <1>2, <1>3, <2>1, <2>3 DEF Window0
<1>9. Searching'
  <2>1. v \in 0 .. (numHubs - 1)
    BY <1>1, <1>2 DEF Window0
  <2>2. \A s \in Threads : pc[s] # "loop" => n[s] # v
    BY <1>1, <1>2 DEF Searching
  <2> QED BY <1>1, <1>2, <1>3, <1>6, <1>7, <2>1, <2>2 DEF Searching
<1>10. Mapped'
  <2>1. Assigned' = Assigned
    BY <1>3 DEF Assigned
  <2>2. \A u \in NodeID : new_ids[u] = None => u \in todo' \/ \E s \in Threads : pc'[s] # "loop" /\ n'[s] = u
    <3> SUFFICES ASSUME NEW u \in NodeID, new_ids[u] = None
                 PROVE  u \in todo' \/ \E s \in Threads : pc'[s] # "loop" /\ n'[s] = u
      OBVIOUS
    <3>1. CASE u = v
      BY <1>7, <3>1
    <3>2. CASE u # v /\ u \in todo
      BY <1>3, <3>2
    <3>3. CASE u \notin todo
      <4>1. PICK s \in Threads : pc[s] # "loop" /\ n[s] = u
        BY <1>1, <1>2, <3>3 DEF Mapped
      <4> QED BY <1>1, <1>6, <4>1
    <3> QED BY <3>1, <3>2, <3>3
  <2> QED BY <1>0, <1>1, <1>2, <1>3, <2>1, <2>2 DEF Mapped
<1>11. HubsRanked' /\ Ended'
  BY <1>0, <1>1, <1>2, <1>3 DEF HubsRanked, Ended
<1>12. Opening' /\ Sorting'
  <2>1. (phase \in Last)'
    BY <1>1
  <2> QED BY <2>1, OtherPhases, PTL
<1> QED BY <1>5, <1>8, <1>9, <1>10, <1>11, <1>12 DEF Inv, Closing

LEMMA FetchInv ==
  ASSUME Inv, NEW t \in Threads, Fetch(t)  PROVE Inv'
<1>0. Hubs' = Hubs /\ Rank' = Rank
  BY ArgumentsStay DEF Fetch
<1>1. phase \in Last /\ phase' = phase /\ pc[t] = "fetch" /\ phase' \in Last
  BY PhaseOf DEF Fetch
<1>2. /\ Types /\ HubsRanked /\ Window0 /\ Searching /\ Mapped
      /\ queue.end \in Nat /\ unassignedCtr \in Nat /\ unassignedCtr \in 0 .. N
      /\ unassignedCtr < queue.end
  <2>1. /\ Types /\ HubsRanked /\ Window0 /\ Searching /\ Mapped
        /\ queue.end \in Nat /\ unassignedCtr \in Nat /\ queue.in <= N /\ queue.in \in Nat
    BY <1>1, LastFacts
  <2>2. unassignedCtr < queue.end
    BY <1>1, CounterHasRoom
  <2>3. queue.end = queue.in
    BY <1>1, <2>1 DEF Window0
  <2> QED BY <2>1, <2>2, <2>3, NAssumption
<1>3. /\ slot' = [slot EXCEPT ![t] = unassignedCtr] /\ unassignedCtr' = unassignedCtr + 1
      /\ pc' = [pc EXCEPT ![t] = "assign"]
      /\ UNCHANGED <<input, kind, new_ids, phase, localOffsets, numHubs, queue, todo, n, lqueue>>
  BY DEF Fetch, Goto
<1>4. Types'
  BY <1>2, <1>3 DEF Types
<1>5. /\ pc'[t] = "assign" /\ slot'[t] = unassignedCtr
      /\ \A s \in Threads : s # t => pc'[s] = pc[s] /\ slot'[s] = slot[s]
  BY <1>2, <1>3 DEF Types
<1>6. Unused' = Unused
  <2>1. \A p \in 0 .. (queue.end - 1) : p >= unassignedCtr <=> p >= unassignedCtr + 1 \/ p = unassignedCtr
    BY <1>2
  <2>2. ASSUME NEW p \in 0 .. (queue.end - 1)
        PROVE  (p >= unassignedCtr \/ \E s \in Threads : pc[s] = "assign" /\ slot[s] = p) <=>
               (p >= unassignedCtr + 1 \/ \E s \in Threads : pc'[s] = "assign" /\ slot'[s] = p)
    BY <1>1, <1>5, <2>1
  <2> QED BY <1>3, <2>2 DEF Unused
<1>7. Window0'
  <2>1. Free' = Free
    BY <1>3 DEF Free, Assigned
  <2>2. unassignedCtr' \in 0 .. queue'.end
    BY <1>2, <1>3
  <2> QED BY <1>1, <1>2, <1>3, <1>6, <2>1, <2>2 DEF Window0
<1>8. Searching'
  <2>1. \A s \in Threads : s # t /\ pc[s] = "assign" => slot[s] # unassignedCtr /\ slot[s] < unassignedCtr + 1
    <3> SUFFICES ASSUME NEW s \in Threads, s # t, pc[s] = "assign"
                 PROVE  slot[s] # unassignedCtr /\ slot[s] < unassignedCtr + 1
      OBVIOUS
    <3>1. slot[s] < unassignedCtr /\ slot[s] \in Int
      BY <1>1, <1>2 DEF Searching, Types
    <3> QED BY <1>2, <3>1
  <2>2. slot'[t] < unassignedCtr'
    BY <1>2, <1>3, <1>5
  <2> QED BY <1>1, <1>2, <1>3, <1>5, <2>1, <2>2 DEF Searching
<1>9. Mapped'
  <2>1. Assigned' = Assigned
    BY <1>3 DEF Assigned
  <2>2. \A s \in Threads : pc'[s] # "loop" <=> pc[s] # "loop"
    BY <1>1, <1>5
  <2> QED BY <1>0, <1>1, <1>2, <1>3, <2>1, <2>2 DEF Mapped
<1>10. HubsRanked' /\ Ended'
  <2>1. phase # "done"
    BY <1>1 DEF Inv, Closing, Ended
  <2> QED BY <1>0, <1>1, <1>2, <1>3, <2>1 DEF HubsRanked, Ended
<1>11. Opening' /\ Sorting'
  <2>1. (phase \in Last)'
    BY <1>1
  <2> QED BY <2>1, OtherPhases, PTL
<1> QED BY <1>4, <1>7, <1>8, <1>9, <1>10, <1>11 DEF Inv, Closing

LEMMA AssignRestInv ==
  ASSUME Inv, NEW t \in Threads, AssignRest(t)  PROVE Inv'
<1> DEFINE id == queue.shared[slot[t]]
<1>0. Hubs' = Hubs /\ Rank' = Rank
  BY ArgumentsStay DEF AssignRest, Assign
<1>1. phase \in Last /\ phase' = phase /\ pc[t] = "assign" /\ phase' \in Last
  BY PhaseOf DEF AssignRest, Assign
<1>2. /\ Types /\ HubsRanked /\ Window0 /\ Searching /\ Mapped
      /\ queue.end \in Nat /\ unassignedCtr \in Nat /\ unassignedCtr \in 0 .. queue.end
      /\ slot[t] \in 0 .. N /\ slot[t] \in Nat /\ slot[t] < unassignedCtr
      /\ n[t] \in NodeID /\ n[t] \in 0 .. (numHubs - 1) /\ n[t] \notin todo /\ new_ids[n[t]] = None
      /\ n[t] \notin Hubs
  <2>1. /\ Types /\ HubsRanked /\ Window0 /\ Searching /\ Mapped
        /\ queue.end \in Nat /\ unassignedCtr \in Nat /\ \A v \in Hubs : new_ids[v] # None
    BY <1>1, LastFacts
  <2>2. unassignedCtr \in 0 .. queue.end
    BY <1>1, <2>1 DEF Window0
  <2>3. /\ slot[t] \in 0 .. N /\ slot[t] \in Nat /\ slot[t] < unassignedCtr
        /\ n[t] \in NodeID /\ n[t] \in 0 .. (numHubs - 1) /\ n[t] \notin todo /\ new_ids[n[t]] = None
    BY <1>1, <2>1 DEF Searching, Types
  <2> QED BY <2>1, <2>2, <2>3
<1>3. /\ new_ids' = [new_ids EXCEPT ![n[t]] = id]
      /\ pc' = [pc EXCEPT ![t] = "loop"] /\ n' = [n EXCEPT ![t] = 0] /\ slot' = [slot EXCEPT ![t] = 0]
      /\ UNCHANGED <<input, kind, phase, localOffsets, numHubs, queue, todo, unassignedCtr, lqueue>>
  <2>1. queue.start = 0 /\ 0 + slot[t] = slot[t]
    BY <1>1, <1>2 DEF Window0
  <2> QED BY <2>1 DEF AssignRest, Assign, Goto
<1>4. slot[t] \in Unused /\ id \in Free
  <2>1. slot[t] \in 0 .. (queue.end - 1)
    BY <1>2
  <2>2. slot[t] \in Unused
    BY <1>1, <2>1 DEF Unused
  <2> QED BY <1>1, <1>2, <2>2 DEF Window0
<1>5. id \in NodeID /\ id # None /\ \A v \in Assigned : new_ids[v] # id
  BY <1>4 DEF Free, NodeID, None
<1> HIDE DEF id
<1>6. Types'
  BY <1>2, <1>3, <1>5, NAssumption DEF Types, NodeID
<1>7. /\ pc'[t] = "loop"
      /\ \A s \in Threads : s # t => pc'[s] = pc[s] /\ n'[s] = n[s] /\ slot'[s] = slot[s]
  BY <1>2, <1>3 DEF Types
<1>8. new_ids'[n[t]] = id /\ \A v \in NodeID : v # n[t] => new_ids'[v] = new_ids[v]
  BY <1>2, <1>3 DEF Types
<1>9. /\ Assigned' = Assigned \union {n[t]} /\ n[t] \notin Assigned
      /\ \A v \in Assigned : new_ids'[v] = new_ids[v]
  BY <1>2, <1>5, <1>8 DEF Assigned
<1>10. Free' = Free \ {id}
  BY <1>8, <1>9 DEF Free
<1>11. Unused' = Unused \ {slot[t]}
  <2>1. ~ (slot[t] >= unassignedCtr)
    BY <1>2
  <2>2. ASSUME NEW p \in 0 .. (queue.end - 1)
        PROVE  (p >= unassignedCtr \/ \E s \in Threads : pc'[s] = "assign" /\ slot'[s] = p) <=>
                 /\ p # slot[t]
                 /\ p >= unassignedCtr \/ \E s \in Threads : pc[s] = "assign" /\ slot[s] = p
    <3>1. \A s \in Threads : s # t /\ pc[s] = "assign" => slot[s] # slot[t]
      BY <1>1, <1>2 DEF Searching
    <3> QED BY <1>7, <2>1, <3>1
  <2> QED BY <1>3, <2>2 DEF Unused
<1>12. Window0'
  <2>1. Free' = {queue.shared[p] : p \in Unused \ {slot[t]}}
    <3>1. Free = {queue.shared[p] : p \in Unused}
      BY <1>1, <1>2 DEF Window0
    <3>2. \A p \in Unused : queue.shared[p] = id => p = slot[t]
      BY <1>1, <1>2, <1>4 DEF Window0, Unused, id
    <3>3. queue.shared[slot[t]] = id
      BY DEF id
    <3> QED BY <1>10, <3>1, <3>2, <3>3
  <2> QED BY <1>1, <1>2, <1>3, <1>11, <2>1 DEF Window0
<1>13. Searching'
  <2>1. \A s \in Threads : s # t /\ pc[s] # "loop" => n[s] # n[t] /\ new_ids'[n[s]] = new_ids[n[s]]
    <3>1. \A s \in Threads : s # t /\ pc[s] # "loop" => n[s] # n[t] /\ n[s] \in NodeID
      BY <1>1, <1>2 DEF Searching, Types
    <3> QED BY <1>8, <3>1
  <2> QED BY <1>1, <1>2, <1>3, <1>7, <2>1 DEF Searching
<1>14. Mapped'
  <2>1. \A v \in NodeID : new_ids'[v] = None =>
          v \in todo \/ \E s \in Threads : pc'[s] # "loop" /\ n'[s] = v
    <3> SUFFICES ASSUME NEW v \in NodeID, new_ids'[v] = None
                 PROVE  v \in todo \/ \E s \in Threads : pc'[s] # "loop" /\ n'[s] = v
      OBVIOUS
    <3>1. v # n[t] /\ new_ids[v] = None
      BY <1>5, <1>8
    <3>2. v \in todo \/ \E s \in Threads : pc[s] # "loop" /\ n[s] = v
      BY <1>1, <1>2, <3>1 DEF Mapped
    <3> QED BY <1>7, <3>1, <3>2
  <2>2. \A u, v \in Assigned' : new_ids'[u] = new_ids'[v] => u = v
    BY <1>1, <1>2, <1>5, <1>8, <1>9 DEF Mapped
  <2>3. \A v \in NodeID \ Hubs : v >= numHubs => new_ids'[v] = v
    <3>1. ~ (n[t] >= numHubs)
      <4>1. \A i \in 0 .. N : \A j \in 0 .. (i - 1) : ~ (j >= i)
        BY NAssumption
      <4>2. numHubs \in 0 .. N
        BY <1>1, LastFacts
      <4> QED BY <1>2, <4>1, <4>2
    <3> QED BY <1>1, <1>2, <1>8, <3>1 DEF Mapped
  <2>4. new_ids' \in [NodeID -> NodeID \union {None}]
    BY <1>1, <1>2, <1>3, <1>5 DEF Mapped
  <2> QED BY <1>0, <1>3, <2>1, <2>2, <2>3, <2>4 DEF Mapped
<1>15. HubsRanked' /\ Ended'
  <2>1. phase # "done"
    BY <1>1 DEF Inv, Closing, Ended
  <2>2. \A v \in Hubs : v # n[t] /\ v \in NodeID
    BY <1>2 DEF Hubs
  <2> QED BY <1>0, <1>1, <1>2, <1>3, <1>8, <2>1, <2>2 DEF HubsRanked, Ended
<1>16. Opening' /\ Sorting'
  <2>1. (phase \in Last)'
    BY <1>1
  <2> QED BY <2>1, OtherPhases, PTL
<1> QED BY <1>6, <1>12, <1>13, <1>14, <1>15, <1>16 DEF Inv, Closing

LEMMA EndRestInv == Inv /\ EndRest => Inv'
<1> SUFFICES ASSUME Inv, EndRest  PROVE Inv'
  OBVIOUS
<1>0. Hubs' = Hubs /\ Rank' = Rank
  BY ArgumentsStay DEF EndRest
<1>1. /\ phase \in Last /\ phase' = "done" /\ phase' \in Last /\ todo = {}
      /\ \A t \in Threads : pc[t] = "loop"
      /\ UNCHANGED <<input, kind, new_ids, localOffsets, numHubs, queue, todo, unassignedCtr,
                     pc, n, lqueue, slot>>
  BY DEF EndRest, Last
<1>2. Types /\ HubsRanked /\ Window0 /\ Searching /\ Mapped
  BY <1>1, LastFacts
<1>3. Types' /\ HubsRanked' /\ Ended'
  BY <1>0, <1>1, <1>2 DEF Types, HubsRanked, Ended
<1>4. Free' = Free /\ Unused' = Unused /\ Assigned' = Assigned
  BY <1>1 DEF Free, Unused, Assigned
<1>5. Window0' /\ Searching'
  BY <1>1, <1>2, <1>4 DEF Window0, Searching
<1>6. Mapped'
  BY <1>0, <1>1, <1>2, <1>4 DEF Mapped
<1>7. Opening' /\ Sorting'
  <2>1. (phase \in Last)'
    BY <1>1
  <2> QED BY <2>1, OtherPhases, PTL
<1> QED BY <1>3, <1>5, <1>6, <1>7 DEF Inv, Closing

-----------------------------------------------------------------------------
(* The theorems. *)

LEMMA ThreadInv ==
  ASSUME Inv, NEW t \in Threads, Thread(t)  PROVE Inv'
<1>1. CASE MarkHubs(t)
  BY <1>1, MarkHubsInv
<1>2. CASE NumberHubs(t)
  BY <1>2, NumberHubsInv
<1>3. ASSUME NEW v \in todo, TakeVertex(t, v)  PROVE Inv'
  BY <1>3, TakeVertexInv
<1>4. ASSUME NEW v \in todo, TakeRest(t, v)  PROVE Inv'
  BY <1>4, TakeRestInv
<1>5. CASE Keep(t)
  BY <1>5, KeepInv
<1>6. CASE Look(t)
  BY <1>6, LookInv
<1>7. CASE Swap(t)
  BY <1>7, SwapInv
<1>8. CASE Push(t)
  BY <1>8, PushAppendInv, PushToFullInv DEF Push
<1>9. CASE Flush(t)
  BY <1>9, FlushInv
<1>10. CASE Copy(t)
  BY <1>10, CopyInv
<1>11. CASE Fetch(t)
  BY <1>11, FetchInv
<1>12. CASE AssignRest(t)
  BY <1>12, AssignRestInv
<1> QED BY <1>1, <1>2, <1>3, <1>4, <1>5, <1>6, <1>7, <1>8, <1>9, <1>10, <1>11, <1>12 DEF Thread

LEMMA StutterInv == Inv /\ UNCHANGED vars => Inv'
<1> SUFFICES ASSUME Inv, UNCHANGED vars  PROVE Inv'
  OBVIOUS
<1>1. /\ UNCHANGED <<input, kind, new_ids, phase, localOffsets, numHubs, queue, todo, unassignedCtr>>
      /\ UNCHANGED <<pc, n, lqueue, slot>>
  BY DEF vars, shared
<1>2. Hubs' = Hubs /\ Rank' = Rank
  BY <1>1, ArgumentsStay
<1>3. \A t \in Threads : /\ Busy(t)' <=> Busy(t)
                         /\ Copying(t)' <=> Copying(t)
                         /\ Claim(t)' = Claim(t)
  BY <1>1 DEF Busy, Copying, Claim
<1>4. Left' = Left /\ Filled' = Filled /\ Buffered' = Buffered
  BY <1>1, <1>3 DEF Left, Filled, Buffered
<1>5. Waiting' = Waiting /\ Stored' = Stored
  BY <1>1, <1>2, <1>4 DEF Waiting, Stored
<1>6. Free' = Free /\ Unused' = Unused /\ Assigned' = Assigned
  BY <1>1 DEF Free, Unused, Assigned
<1>7. Types' /\ HubsRanked'
  BY <1>1, <1>2 DEF Inv, Types, HubsRanked
<1>8. Opening'
  BY <1>1, <1>2 DEF Inv, Opening, Beginning, Ranking, Marking, Counted, Part, partitionSz
<1>9. Handled' /\ Steps' /\ Placed'
  BY <1>1, <1>2, <1>3, <1>4 DEF Inv, Sorting, Handled, Steps, Placed
<1>10. Queue' /\ Contents' /\ Complete'
  BY <1>1, <1>2, <1>3, <1>4, <1>5 DEF Inv, Sorting, Queue, Contents, Complete
<1>11. Closing'
  BY <1>1, <1>2, <1>6 DEF Inv, Closing, Window0, Searching, Mapped, Ended
<1> QED BY <1>7, <1>8, <1>9, <1>10, <1>11 DEF Inv, Sorting

\* The invariant above holds of every state of the two mappings, whatever the
\* order in which the threads of builder.h take, look, swap, push and flush.
THEOREM Invariance == Spec => []Inv
<1>1. ASSUME Inv, [Next]_vars  PROVE Inv'
  <2>1. CASE Serial
    BY <1>1, <2>1, RankHubsInv, SumOffsetsInv, EndNumberingInv, EndEasyInv, StartRestInv, EndRestInv
       DEF Serial
  <2>2. ASSUME NEW t \in Threads, Thread(t)  PROVE Inv'
    BY <1>1, <2>2, ThreadInv
  <2>3. CASE UNCHANGED vars
    BY <1>1, <2>3, StutterInv
  <2> QED BY <1>1, <2>1, <2>2, <2>3 DEF Next
<1> QED BY <1>1, InitInv, PTL DEF Spec

\* When GenerateHubSortMapping or GenerateHubClusterMapping is done, new_ids is
\* a permutation of the vertices: the swaps and the queue lose and double no id.
THEOREM Permutes == Spec => []Permutation
<1>1. Inv => Permutation
  <2> SUFFICES ASSUME Inv, phase = "done"  PROVE {new_ids[v] : v \in NodeID} = NodeID
    BY DEF Permutation
  <2>1. Mapped /\ Ended /\ phase \in Last
    BY DEF Inv, Closing, Last
  <2>2. Assigned = NodeID
    BY <2>1 DEF Mapped, Ended, Assigned
  <2>3. new_ids \in [NodeID -> NodeID]
    BY <2>1, <2>2 DEF Mapped, Assigned
  <2>4. \A u, v \in NodeID : new_ids[u] = new_ids[v] => u = v
    BY <2>1, <2>2 DEF Mapped
  <2> QED BY <2>3, <2>4, Sizes, InjectiveIsOnto
<1> QED BY <1>1, Invariance, PTL

\* The hubs keep the ids below their number, in the order of their degree or
\* their old order, and a vertex that is no hub moves only if its id went to one.
THEOREM Order == Spec => []OrderKept
<1>1. Inv => OrderKept
  <2> SUFFICES ASSUME Inv  PROVE HubsInOrder /\ NonHubsStay
    BY DEF OrderKept
  <2>1. Types
    BY DEF Inv
  <2>2. ASSUME phase \in {"easy", "rest", "done"}, NEW u \in Hubs, NEW v \in Hubs
        PROVE  /\ new_ids[u] \in 0 .. (Cardinality(Hubs) - 1)
               /\ kind = "HubSort" /\ input.degree[u] > input.degree[v] => new_ids[u] < new_ids[v]
               /\ kind = "HubCluster" /\ u < v => new_ids[u] < new_ids[v]
    <3>1. new_ids[u] = Rank[u] /\ new_ids[v] = Rank[v]
      BY <2>2 DEF Inv, HubsRanked, First, Last
    <3>2. Rank[u] \in 0 .. (Cardinality(Hubs) - 1) /\ (Ahead(u, v) => Rank[u] < Rank[v])
      BY <2>1, RanksGrow
    <3>3. /\ kind = "HubSort" /\ input.degree[u] > input.degree[v] => Ahead(u, v)
          /\ kind = "HubCluster" /\ u < v => Ahead(u, v)
      BY DEF Ahead, Before
    <3> QED BY <3>1, <3>2, <3>3
  <2>3. HubsInOrder
    BY <2>2 DEF HubsInOrder, Ranked
  <2>4. NonHubsStay
    <3> SUFFICES ASSUME phase = "done", NEW v \in NodeID, v >= numHubs, ~ IsHub(v)
                 PROVE  new_ids[v] = v
      BY DEF NonHubsStay
    <3>1. v \in NodeID \ Hubs
      BY DEF Hubs
    <3> QED BY <3>1 DEF Inv, Closing, Mapped, Last
  <2> QED BY <2>3, <2>4
<1> QED BY <1>1, Invariance, PTL

\* Every variable keeps its type, the queue's indices stay within the vertices
\* and the window within what was pushed.
THEOREM Typed == Spec => []TypeOK
<1>1. Inv => TypeOK
  <2> SUFFICES ASSUME Inv  PROVE TypeOK
    OBVIOUS
  <2>1. Types /\ \A t \in Threads : \A i \in 1 .. Len(lqueue[t]) : lqueue[t][i] \in NodeID
    BY DEF Inv, Types
  <2>2. /\ numHubs \in 0 .. N
        /\ DOMAIN queue.shared = IF phase \in Numbering THEN {} ELSE 0 .. (numHubs - 1)
        /\ queue.in \in 0 .. N /\ queue.start \in 0 .. queue.end /\ queue.end \in 0 .. queue.in
        /\ todo \subseteq NodeID /\ unassignedCtr \in 0 .. N
    <3>1. CASE phase \in Numbering
      <4>1. queue = NewQueue(0) /\ todo = {} /\ unassignedCtr = 0
        BY <3>1 DEF Inv, Opening, Beginning
      <4>2. queue.in = 0 /\ queue.start = 0 /\ queue.end = 0 /\ DOMAIN queue.shared = {}
        BY <4>1 DEF NewQueue
      <4>3. numHubs = 0 \/ numHubs = Cardinality(Hubs)
        BY <3>1 DEF Inv, Opening, Ranking, Marking, Counted, Numbering
      <4> QED BY <3>1, <4>1, <4>2, <4>3, Sizes, NAssumption
    <3>2. CASE phase \in First
      <4>1. Types /\ Queue /\ Contents /\ Handled /\ numHubs = Cardinality(Hubs) /\ numHubs \in 0 .. N
            /\ numHubs .. (N - 1) \subseteq NodeID
        BY <3>2, FirstFacts
      <4>2. queue.start = 0 /\ queue.end = 0 /\ unassignedCtr = 0 /\ queue.in \in Nat
            /\ DOMAIN queue.shared = 0 .. (numHubs - 1)
        BY <3>2, <4>1 DEF Queue, Queues
      <4>3. queue.in <= numHubs
        BY <3>2, <4>1, QueueHasRoom
      <4>4. queue.in \in 0 .. N
        BY <4>1, <4>2, <4>3, NAssumption
      <4>5. todo \subseteq NodeID
        BY <3>2, <4>1 DEF Handled
      <4>6. phase \notin Numbering
        BY <3>2 DEF First, Numbering
      <4> QED BY <4>1, <4>2, <4>4, <4>5, <4>6, NAssumption
    <3>3. CASE phase \in Last
      <4>1. /\ Window0 /\ numHubs \in 0 .. N
            /\ queue.in \in Nat /\ queue.in <= N
        BY <3>3, LastFacts
      <4>2. /\ queue.start = 0 /\ queue.end = queue.in /\ unassignedCtr \in 0 .. queue.end
            /\ DOMAIN queue.shared = 0 .. (numHubs - 1) /\ todo \subseteq 0 .. (numHubs - 1)
        BY <3>3, <4>1 DEF Window0, Queues
      <4>3. todo \subseteq NodeID
        <5>1. \A i \in 0 .. N : 0 .. (i - 1) \subseteq 0 .. (N - 1)
          BY NAssumption
        <5> QED BY <4>1, <4>2, <5>1 DEF NodeID
      <4>4. queue.in \in 0 .. N /\ unassignedCtr \in 0 .. N
        BY <4>1, <4>2, NAssumption
      <4>5. phase \notin Numbering
        BY <3>3 DEF Last, Numbering
      <4> QED BY <4>1, <4>2, <4>3, <4>4, <4>5, NAssumption
    <3> QED BY <2>1, <3>1, <3>2, <3>3 DEF Types
  <2> HIDE DEF Inv
  <2> QED BY <2>1, <2>2 DEF TypeOK, Types, Numbering, First, Last
<1> QED BY <1>1, Invariance, PTL

\* While the last loop runs, the part of the window the counter has not passed
\* and the ids threads are about to write are the ids nobody has, each once, as
\* many as there are vertices without one: *(q_iter + ...) never leaves the
\* window and never gives the same id to two vertices.
THEOREM Rest == Spec => []QueueHoldsTheRest
<1>1. Inv => QueueHoldsTheRest
  <2> DEFINE A    == {t \in Threads : pc[t] = "assign"}
             held == {queue.shared[queue.start + slot[t]] : t \in A}
             Ahead0 == unassignedCtr .. (queue.end - 1)
             f    == [p \in Ahead0 |-> queue.shared[p]]
  <2> SUFFICES ASSUME Inv, phase = "rest"
               PROVE  /\ Pending \union held = NodeID \ {new_ids[v] : v \in Assigned}
                      /\ Cardinality(Pending) = queue.end - queue.start - unassignedCtr
                      /\ Cardinality(Pending) + Cardinality(held) = N - Cardinality(Assigned)
    BY DEF QueueHoldsTheRest
  <2>1. /\ phase \in Last /\ Types /\ Window0 /\ Searching
        /\ queue.end \in Nat /\ unassignedCtr \in Nat /\ queue.start = 0 /\ unassignedCtr <= queue.end
    <3>1. phase \in Last
      BY DEF Last
    <3>2. Types /\ Window0 /\ Searching /\ queue.end \in Nat /\ unassignedCtr \in Nat
      BY <3>1, LastFacts
    <3> QED BY <3>1, <3>2 DEF Window0
  <2>2. Pending = {queue.shared[p] : p \in Ahead0}
    <3>1. \A i \in (unassignedCtr + 1) .. queue.end :
            /\ i \in 1 .. queue.end /\ 0 + i - 1 = i - 1 /\ i - 1 \in Ahead0
      BY <2>1
    <3>2. \A p \in Ahead0 : p + 1 \in (unassignedCtr + 1) .. queue.end /\ (p + 1) - 1 = p
      BY <2>1
    <3>3. queue.end - 0 = queue.end
      BY <2>1
    <3>4. \A i \in 1 .. queue.end : QueueWindow(queue)[i] = queue.shared[0 + i - 1]
      BY <2>1, <3>3 DEF QueueWindow
    <3>5. Pending = {QueueWindow(queue)[i] : i \in (unassignedCtr + 1) .. queue.end}
      BY <2>1, <3>3 DEF Pending
    <3> HIDE DEF Ahead0
    <3> QED BY <3>1, <3>2, <3>4, <3>5
  <2>3. held = {queue.shared[slot[t]] : t \in A}
    <3>1. \A t \in A : queue.start + slot[t] = slot[t]
      BY <2>1 DEF Types
    <3> QED BY <3>1
  <2>4. /\ \A p \in Ahead0 : p \in 0 .. (queue.end - 1) /\ p >= unassignedCtr
        /\ \A t \in A : slot[t] \in 0 .. (queue.end - 1) /\ slot[t] \notin Ahead0
        /\ \A p \in 0 .. (queue.end - 1) : p >= unassignedCtr => p \in Ahead0
    <3>1. \A t \in A : slot[t] < unassignedCtr /\ slot[t] \in Nat
      BY <2>1 DEF Searching, Types
    <3> QED BY <2>1, <3>1
  <2>5. \A p, q \in 0 .. (queue.end - 1) : queue.shared[p] = queue.shared[q] => p = q
    BY <2>1 DEF Window0
  <2> HIDE DEF Ahead0, held
  <2>6. Unused = Ahead0 \union {slot[t] : t \in A}
    BY <2>4 DEF Unused
  <2>7. Pending \union held = Free
    <3>1. Free = {queue.shared[p] : p \in Unused}
      BY <2>1 DEF Window0
    <3> HIDE DEF A
    <3> QED BY <2>2, <2>3, <2>6, <3>1
  <2>8. Pending \intersect held = {}
    <3> HIDE DEF A
    <3> QED BY <2>2, <2>3, <2>4, <2>5
  <2>9. /\ IsFiniteSet(Pending) /\ Cardinality(Pending) = queue.end - unassignedCtr
    <3>1. IsFiniteSet(Ahead0) /\ Cardinality(Ahead0) = queue.end - unassignedCtr
      <4>1. unassignedCtr \in Int /\ queue.end - 1 \in Int
        BY <2>1
      <4>2. /\ IsFiniteSet(Ahead0)
            /\ Cardinality(Ahead0) = IF unassignedCtr > queue.end - 1 THEN 0
                                     ELSE (queue.end - 1) - unassignedCtr + 1
        BY <4>1, FS_Interval DEF Ahead0
      <4> QED BY <2>1, <4>2
    <3>2. f \in [Ahead0 -> Pending] /\ \A x \in Pending : \E p \in Ahead0 : f[p] = x
      BY <2>2
    <3>3. \A p, q \in Ahead0 : f[p] = f[q] => p = q
      BY <2>4, <2>5
    <3> HIDE DEF f
    <3>4. IsFiniteSet(Pending) /\ Cardinality(Pending) = Cardinality(Ahead0)
      BY <3>1, <3>2, <3>3, SameSize
    <3> QED BY <3>1, <3>4
  <2>10. /\ IsFiniteSet(Free) /\ Cardinality(Free) = N - Cardinality(Assigned)
    BY <2>1, FreeCount
  <2>11. IsFiniteSet(held)
    BY <2>7, <2>10, FS_Subset
  <2>12. Cardinality(Pending) + Cardinality(held) = Cardinality(Free)
    <3>1. Cardinality(Pending \union held) =
            Cardinality(Pending) + Cardinality(held) - Cardinality(Pending \intersect held)
      BY <2>9, <2>11, FS_Union
    <3>2. Cardinality(Pending) \in Nat /\ Cardinality(held) \in Nat
      BY <2>9, <2>11, FS_CardinalityType
    <3>3. Cardinality(Pending \intersect held) = 0
      BY <2>8, FS_EmptySet
    <3>4. \A i, j \in Nat : i + j - 0 = i + j
      OBVIOUS
    <3> QED BY <2>7, <3>1, <3>2, <3>3, <3>4
  <2>13. queue.end - queue.start - unassignedCtr = queue.end - unassignedCtr
    BY <2>1
  <2> QED BY <2>7, <2>9, <2>10, <2>12, <2>13 DEF Free
<1> QED BY <1>1, Invariance, PTL

\* The three together, as the run checks them: hubs first and in order, the
\* others where they were if they can be, and the rest of the ids in the queue.
THEOREM HubsComeFirst == Spec => []HubsFirst
BY Typed, Order, Rest, PTL DEF HubsFirst

-----------------------------------------------------------------------------
(***************************************************************************)
(* Rabbit Order.  A thread has a vertex to itself from its turn in the     *)
(* order until it is merged or stays top-level: the vertices in its queue, *)
(* those pending and those whose turn comes are different ones and none of *)
(* another thread's.  The strength of a vertex is negative only while its  *)
(* thread holds it or once it is merged, so a thread locks, and merges     *)
(* into, only vertices that are not merged.                                *)
(***************************************************************************)

Fields == {"part", "i", "queue", "pends", "tops", "pc", "vstr", "nbrs", "src", "rest", "c", "u", "ua"}

\* The vertices whose turn is at i or later, with the stride of a thread.
Turns(i) == {i + k * Rabbit!NumThreads : k \in Nat} \intersect (1 .. RabbitN)
Later(t) == {ord[j] : j \in Turns(th[t].i)}
Todo(t) == Range(th[t].queue) \union Range(th[t].pends) \union Later(t)

RabbitTypes ==
  /\ str \in [Rabbit!Vertices -> Int]
  /\ child \in [Rabbit!Vertices -> 0 .. RabbitN] /\ sibling \in [Rabbit!Vertices -> 0 .. RabbitN]
  /\ es = [v \in Rabbit!Vertices |-> es[v]]
  /\ ord \in [1 .. RabbitN -> Rabbit!Vertices]
  /\ \A j, k \in 1 .. RabbitN : ord[j] = ord[k] => j = k

ThreadType(t) ==
  /\ DOMAIN th[t] = Fields
  /\ th[t].queue \in Seq(Rabbit!Vertices) /\ th[t].pends \in Seq(Rabbit!Vertices)
  /\ th[t].i \in Nat \ {0} /\ th[t].vstr \in Int

Once(t) ==
  /\ \A j, k \in DOMAIN th[t].queue : th[t].queue[j] = th[t].queue[k] => j = k
  /\ \A j, k \in DOMAIN th[t].pends : th[t].pends[j] = th[t].pends[k] => j = k
  /\ Range(th[t].queue) \intersect Range(th[t].pends) = {}
  /\ (Range(th[t].queue) \union Range(th[t].pends)) \intersect Later(t) = {}

Open(t) ==
  /\ \A k \in DOMAIN th[t].queue : k > 1 \/ th[t].vstr < 0 => str[th[t].queue[k]] >= 0
  /\ \A v \in Range(th[t].pends) \union Later(t) : str[v] >= 0

Control(t) ==
  /\ th[t].pc \in {"loop", "lock"} => th[t].vstr < 0
  /\ th[t].pc \in {"recheck", "find", "cas", "undo", "com"} => th[t].vstr >= 0
  /\ th[t].pc # "loop" => th[t].queue # << >>
  /\ th[t].pc \in {"cas", "com"} => th[t].u \in Rabbit!Vertices /\ th[t].ua[1] \in Nat
  /\ th[t].part \in {"barrier", "end"} => th[t].pc = "loop" /\ th[t].queue = << >>

Apart == \A s, t \in RabbitThreads : s # t => Todo(s) \intersect Todo(t) = {}

RabbitInv ==
  /\ RabbitTypes
  /\ DOMAIN th = RabbitThreads
  /\ \A t \in RabbitThreads : ThreadType(t) /\ Once(t) /\ Open(t) /\ Control(t)
  /\ Apart

RabbitIInv == which = "rabbit" => RabbitInv

\* What an update makes of the fields of t, and that it leaves the other threads alone.
LEMMA UpdateFacts ==
  ASSUME NEW t \in RabbitThreads, NEW r, Rabbit!Update(t, r), DOMAIN r \subseteq Fields,
         DOMAIN th = RabbitThreads, DOMAIN th[t] = Fields
  PROVE  /\ DOMAIN th' = RabbitThreads
         /\ DOMAIN th'[t] = Fields
         /\ \A s \in RabbitThreads : s # t => th'[s] = th[s]
         /\ \A f \in Fields : th'[t][f] = IF f \in DOMAIN r THEN r[f] ELSE th[t][f]
<1>1. th' = [th EXCEPT ![t] = Rabbit!Set(th[t], r)]
  BY DEF Rabbit!Update
<1>2. Rabbit!Set(th[t], r) = [f \in Fields |-> IF f \in DOMAIN r THEN r[f] ELSE th[t][f]]
  BY DEF Rabbit!Set
<1> QED BY <1>1, <1>2

\* The part of a thread's state that unite() and merge() leave alone.
Same(t) ==
  /\ \A s \in RabbitThreads : s # t => th'[s] = th[s]
  /\ DOMAIN th' = RabbitThreads /\ DOMAIN th'[t] = Fields
  /\ th'[t].queue = th[t].queue /\ th'[t].pends = th[t].pends
  /\ th'[t].i = th[t].i /\ th'[t].part = th[t].part

\* An update of the fields that only unite() and merge() use.
LEMMA LocalUpdate ==
  ASSUME NEW t \in RabbitThreads, NEW r, Rabbit!Update(t, r),
         DOMAIN r \subseteq Fields \ {"queue", "pends", "i", "part"},
         DOMAIN th = RabbitThreads, DOMAIN th[t] = Fields
  PROVE  /\ Same(t)
         /\ \A f \in DOMAIN r : th'[t][f] = r[f]
         /\ \A f \in Fields \ DOMAIN r : th'[t][f] = th[t][f]
<1>1. /\ DOMAIN th' = RabbitThreads /\ DOMAIN th'[t] = Fields
      /\ \A s \in RabbitThreads : s # t => th'[s] = th[s]
      /\ \A f \in Fields : th'[t][f] = IF f \in DOMAIN r THEN r[f] ELSE th[t][f]
  BY UpdateFacts
<1>2. {"queue", "pends", "i", "part"} \subseteq Fields
  BY DEF Fields
<1> QED BY <1>1, <1>2 DEF Same

\* t is about to go through the edges of w.
LEMMA PushFacts ==
  ASSUME NEW t \in RabbitThreads, NEW w, NEW c, Rabbit!PushEdges(t, w, c),
         DOMAIN th = RabbitThreads, DOMAIN th[t] = Fields
  PROVE  Same(t) /\ th'[t].pc = "trace" /\ th'[t].vstr = th[t].vstr
<1> DEFINE r == [pc |-> "trace", src |-> w, rest |-> Rabbit!Targets(es[w]), c |-> c]
<1>1. Rabbit!Update(t, r)
  BY DEF Rabbit!PushEdges
<1>2. DOMAIN r = {"pc", "src", "rest", "c"} /\ r["pc"] = "trace"
  OBVIOUS
<1>3. "pc" \in Fields /\ "vstr" \in Fields \ DOMAIN r /\ DOMAIN r \subseteq Fields \ {"queue", "pends", "i", "part"}
  BY <1>2 DEF Fields
<1> HIDE DEF r
<1> QED BY <1>1, <1>2, <1>3, LocalUpdate

\* A vertex whose atom is locked changes in nothing unite() reads, unless t has locked it.
Spared(t) ==
  \A v \in Rabbit!Vertices :
    str[v] < 0 /\ (v # Rabbit!V(t) \/ th[t].pc \in {"loop", "com"}) =>
      UNCHANGED <<str[v], child[v], sibling[v], es[v]>>

\* A step of unite() or merge() in which t keeps its vertex, and does not lock it.
Worked(t) ==
  /\ Same(t) /\ th'[t].vstr = th[t].vstr /\ ord' = ord
  /\ \A v \in Rabbit!Vertices : str[v] >= 0 => str'[v] >= 0

\* The assumption on the constants, spelled out.
LEMMA RabbitConstants ==
  /\ RabbitN \in Nat \ {0} /\ Rabbit!NumThreads \in Nat \ {0}
  /\ RabbitThreads = 0 .. (Rabbit!NumThreads - 1)
  /\ Rabbit!Vertices = 0 .. (RabbitN - 1) /\ Rabbit!vmax = RabbitN
BY OfRabbit DEF Rabbit!RabbitAssumption, Rabbit!Vertices, Rabbit!vmax

\* The vertex t is merging is the first of its queue.
LEMMA HeadFacts ==
  ASSUME NEW t \in RabbitThreads, ThreadType(t), th[t].queue # << >>
  PROVE  Rabbit!V(t) \in Rabbit!Vertices /\ Rabbit!V(t) = th[t].queue[1] /\ 1 \in DOMAIN th[t].queue
BY DEF ThreadType, Rabbit!V

\* The call of merge(v).
LEMMA MergeStep ==
  ASSUME RabbitInv, NEW t \in RabbitThreads, Rabbit!Merge(t)
  PROVE  RabbitTypes' /\ Worked(t) /\ Control(t)' /\ Spared(t) /\ th[t].pc # "com"
<1>1. Rabbit!PushEdges(t, Rabbit!V(t), th[t].c) /\ UNCHANGED <<ord, str, child, sibling, es>>
  BY DEF Rabbit!Merge, Rabbit!shared
<1>2. Same(t) /\ th'[t].pc = "trace" /\ th'[t].vstr = th[t].vstr
  BY <1>1, PushFacts DEF RabbitInv, ThreadType
<1>3. RabbitTypes'
  BY <1>1 DEF RabbitInv, RabbitTypes
<1>4. Control(t)'
  BY <1>2 DEF RabbitInv, Control, Rabbit!Merge, Same
<1>5. th[t].pc # "com"
  BY DEF Rabbit!Merge
<1> QED BY <1>1, <1>2, <1>3, <1>4, <1>5 DEF Worked, Spared

\* One look at the community of a neighbour.
LEMMA TraceComStep ==
  ASSUME RabbitInv, NEW t \in RabbitThreads, Rabbit!TraceCom(t)
  PROVE  RabbitTypes' /\ Worked(t) /\ Control(t)' /\ Spared(t) /\ th[t].pc # "com"
<1>1. th[t].pc = "trace" /\ UNCHANGED <<ord, str, child, sibling, es>>
  BY DEF Rabbit!TraceCom, Rabbit!shared
<1>2. PICK r, x, m, com :
        /\ Rabbit!Update(t, r)
        /\ r = [nbrs |-> m, rest |-> th[t].rest \ {x}] \/ r = [nbrs |-> m, pc |-> "shorten", u |-> com]
  BY DEF Rabbit!TraceCom
<1>3. /\ DOMAIN r \subseteq {"nbrs", "rest", "pc", "u"}
      /\ "pc" \in DOMAIN r => r["pc"] = "shorten"
  BY <1>2
<1>4. /\ DOMAIN r \subseteq Fields \ {"queue", "pends", "i", "part"}
      /\ {"vstr", "pc"} \subseteq Fields /\ "vstr" \notin DOMAIN r
  BY <1>3 DEF Fields
<1> HIDE <1>2
<1>5. Same(t) /\ th'[t].vstr = th[t].vstr /\ th'[t].pc \in {"trace", "shorten"}
  <2>1. Rabbit!Update(t, r)
    BY <1>2
  <2>2. /\ Same(t) /\ \A f \in DOMAIN r : th'[t][f] = r[f]
        /\ \A f \in Fields \ DOMAIN r : th'[t][f] = th[t][f]
    BY <1>4, <2>1, LocalUpdate DEF RabbitInv, ThreadType
  <2> QED BY <1>1, <1>3, <1>4, <2>2
<1>6. RabbitTypes'
  BY <1>1 DEF RabbitInv, RabbitTypes
<1>7. Control(t)'
  BY <1>1, <1>5 DEF RabbitInv, Control, Same
<1> QED BY <1>1, <1>5, <1>6, <1>7 DEF Worked, Spared

\* The store at the end of trace_com touches only the community of a neighbour.
LEMMA ShortenStep ==
  ASSUME RabbitInv, NEW t \in RabbitThreads, Rabbit!Shorten(t)
  PROVE  RabbitTypes' /\ Worked(t) /\ Control(t)' /\ Spared(t) /\ th[t].pc # "com"
<1>1. th[t].pc = "shorten" /\ UNCHANGED <<ord, str, child, sibling, es>>
  BY DEF Rabbit!Shorten
<1>0. PICK r, x : Rabbit!Update(t, r) /\ r = [pc |-> "trace", u |-> Rabbit!vmax, rest |-> th[t].rest \ {x}]
  BY DEF Rabbit!Shorten
<1>2. DOMAIN r = {"pc", "u", "rest"} /\ r["pc"] = "trace" /\ Rabbit!Update(t, r)
  BY <1>0
<1>3. DOMAIN r \subseteq Fields \ {"queue", "pends", "i", "part"} /\ "vstr" \in Fields \ DOMAIN r
  BY <1>2 DEF Fields
<1>4. Same(t) /\ th'[t].vstr = th[t].vstr /\ th'[t].pc = "trace"
  <2>1. DOMAIN th = RabbitThreads /\ DOMAIN th[t] = Fields
    BY DEF RabbitInv, ThreadType
  <2> QED BY <1>2, <1>3, <2>1, LocalUpdate
<1>5. RabbitTypes'
  BY <1>1 DEF RabbitInv, RabbitTypes
<1>6. Control(t)'
  BY <1>1, <1>4 DEF RabbitInv, Control, Same
<1> QED BY <1>1, <1>4, <1>5, <1>6 DEF Worked, Spared

\* The edges of v are replaced only after its thread went through all children; v is its own.
LEMMA UniteChildrenStep ==
  ASSUME RabbitInv, NEW t \in RabbitThreads, Rabbit!UniteChildren(t)
  PROVE  RabbitTypes' /\ Worked(t) /\ Control(t)' /\ Spared(t) /\ th[t].pc # "com"
<1> DEFINE r == [nbrs |-> Rabbit!NoEdges, src |-> Rabbit!vmax, c |-> Rabbit!vmax,
                 pc |-> IF th[t].vstr < 0 THEN "lock" ELSE "find"]
<1>1. th[t].pc = "trace" /\ UNCHANGED <<ord, str, child, sibling>>
  BY DEF Rabbit!UniteChildren
<1>2. \/ /\ \E w, c : Rabbit!PushEdges(t, w, c)
         /\ UNCHANGED es
      \/ /\ Rabbit!Update(t, r)
         /\ es' = [es EXCEPT ![Rabbit!V(t)] = th[t].nbrs]
  BY DEF Rabbit!UniteChildren
<1>3. Rabbit!V(t) \in Rabbit!Vertices
  BY <1>1, HeadFacts DEF RabbitInv, Control
<1>4. CASE (\E w, c : Rabbit!PushEdges(t, w, c)) /\ UNCHANGED es
  <2>1. PICK w, c : Rabbit!PushEdges(t, w, c)
    BY <1>4
  <2>2. Same(t) /\ th'[t].pc = "trace" /\ th'[t].vstr = th[t].vstr
    BY <2>1, PushFacts DEF RabbitInv, ThreadType
  <2>3. RabbitTypes'
    BY <1>1, <1>4 DEF RabbitInv, RabbitTypes
  <2>4. Control(t)'
    BY <1>1, <2>2 DEF RabbitInv, Control, Same
  <2> QED BY <1>1, <1>4, <2>2, <2>3, <2>4 DEF Worked, Spared
<1>5. CASE Rabbit!Update(t, r) /\ es' = [es EXCEPT ![Rabbit!V(t)] = th[t].nbrs]
  <2>1. DOMAIN r = {"nbrs", "src", "c", "pc"} /\ r["pc"] = IF th[t].vstr < 0 THEN "lock" ELSE "find"
    OBVIOUS
  <2>2. DOMAIN r \subseteq Fields \ {"queue", "pends", "i", "part"} /\ "vstr" \in Fields \ DOMAIN r
    BY <2>1 DEF Fields
  <2> HIDE DEF r
  <2>3. Same(t) /\ th'[t].vstr = th[t].vstr /\ th'[t].pc = IF th[t].vstr < 0 THEN "lock" ELSE "find"
    <3>1. DOMAIN th = RabbitThreads /\ DOMAIN th[t] = Fields
      BY DEF RabbitInv, ThreadType
    <3>2. /\ Same(t) /\ \A f \in DOMAIN r : th'[t][f] = r[f]
          /\ \A f \in Fields \ DOMAIN r : th'[t][f] = th[t][f]
      BY <1>5, <2>2, <3>1, LocalUpdate
    <3> QED BY <2>1, <2>2, <3>2
  <2>4. RabbitTypes'
    BY <1>1, <1>5 DEF RabbitInv, RabbitTypes
  <2>5. Control(t)'
    BY <1>1, <2>3 DEF RabbitInv, Control, Same, ThreadType
  <2>6. \A v \in Rabbit!Vertices \ {Rabbit!V(t)} : es'[v] = es[v]
    BY <1>5 DEF RabbitInv, RabbitTypes
  <2> QED BY <1>1, <2>3, <2>4, <2>5, <2>6 DEF Worked, Spared
<1> QED BY <1>2, <1>4, <1>5

\* A step of merge() that changes only a few fields of t, r.
LEMMA FieldsOnly ==
  ASSUME RabbitInv, NEW t \in RabbitThreads, NEW r, Rabbit!Update(t, r),
         DOMAIN r \subseteq {"pc", "u", "ua"}, "pc" \in DOMAIN r
  PROVE  /\ Same(t) /\ th'[t].vstr = th[t].vstr /\ th'[t].pc = r["pc"]
         /\ th'[t].u = IF "u" \in DOMAIN r THEN r["u"] ELSE th[t].u
         /\ th'[t].ua = IF "ua" \in DOMAIN r THEN r["ua"] ELSE th[t].ua
<1>1. DOMAIN th = RabbitThreads /\ DOMAIN th[t] = Fields
  BY DEF RabbitInv, ThreadType
<1>2. /\ DOMAIN r \subseteq Fields \ {"queue", "pends", "i", "part"}
      /\ {"vstr", "u", "ua"} \subseteq Fields /\ "vstr" \notin DOMAIN r
  BY DEF Fields
<1>3. /\ Same(t) /\ \A f \in DOMAIN r : th'[t][f] = r[f]
      /\ \A f \in Fields \ DOMAIN r : th'[t][f] = th[t][f]
  BY <1>1, <1>2, LocalUpdate
<1> QED BY <1>2, <1>3

\* Before v is merged its thread may have to unite again, now with v locked.
LEMMA RecheckStep ==
  ASSUME RabbitInv, NEW t \in RabbitThreads, Rabbit!Recheck(t)
  PROVE  RabbitTypes' /\ Worked(t) /\ Control(t)' /\ Spared(t) /\ th[t].pc # "com"
<1>1. th[t].pc = "recheck" /\ UNCHANGED <<ord, str, child, sibling, es>>
  BY DEF Rabbit!Recheck, Rabbit!shared
<1>2. \/ Rabbit!PushEdges(t, Rabbit!V(t), th[t].c)
      \/ Rabbit!Update(t, [pc |-> "find"])
  BY DEF Rabbit!Recheck
<1>3. Same(t) /\ th'[t].vstr = th[t].vstr /\ th'[t].pc \in {"trace", "find"}
  <2>1. CASE Rabbit!PushEdges(t, Rabbit!V(t), th[t].c)
    BY <2>1, PushFacts DEF RabbitInv, ThreadType
  <2>2. CASE Rabbit!Update(t, [pc |-> "find"])
    <3> DEFINE r == [pc |-> "find"]
    <3>1. DOMAIN r = {"pc"} /\ r["pc"] = "find" /\ Rabbit!Update(t, r)
      BY <2>2
    <3> HIDE DEF r
    <3> QED BY <3>1, FieldsOnly
  <2> QED BY <1>2, <2>1, <2>2
<1>4. RabbitTypes'
  BY <1>1 DEF RabbitInv, RabbitTypes
<1>5. Control(t)'
  BY <1>1, <1>3 DEF RabbitInv, Control, Same
<1> QED BY <1>1, <1>3, <1>4, <1>5 DEF Worked, Spared

\* FindBest writes the sibling of v, which t holds; what it noted of u was not locked.
LEMMA FindBestStep ==
  ASSUME RabbitInv, NEW t \in RabbitThreads, Rabbit!FindBest(t)
  PROVE  RabbitTypes' /\ Worked(t) /\ Control(t)' /\ Spared(t) /\ th[t].pc # "com"
<1>1. th[t].pc = "find" /\ UNCHANGED <<ord, str, child, es>>
  BY DEF Rabbit!FindBest
<1>2. PICK u \in Rabbit!Targets(es[Rabbit!V(t)]) :
        LET ua == <<str[u], child[u]>>
        IN  IF Rabbit!IsLocked(ua)
            THEN /\ Rabbit!Update(t, [pc |-> "undo"])
                 /\ UNCHANGED sibling
            ELSE /\ sibling' = [sibling EXCEPT ![Rabbit!V(t)] = child[u]]
                 /\ Rabbit!Update(t, [pc |-> "cas", u |-> u, ua |-> ua])
  BY DEF Rabbit!FindBest
<1>3. u \in Rabbit!Vertices
  BY DEF Rabbit!Targets
<1>4. Rabbit!V(t) \in Rabbit!Vertices
  BY <1>1, HeadFacts DEF RabbitInv, Control
<1>5. CASE Rabbit!IsLocked(<<str[u], child[u]>>)
  <2> DEFINE r == [pc |-> "undo"]
  <2>1. DOMAIN r = {"pc"} /\ r["pc"] = "undo" /\ Rabbit!Update(t, r) /\ UNCHANGED sibling
    BY <1>2, <1>5
  <2> HIDE DEF r
  <2>2. Same(t) /\ th'[t].vstr = th[t].vstr /\ th'[t].pc = "undo"
    BY <2>1, FieldsOnly
  <2>3. RabbitTypes'
    BY <1>1, <2>1 DEF RabbitInv, RabbitTypes
  <2>4. Control(t)'
    BY <1>1, <2>2 DEF RabbitInv, Control, Same
  <2> QED BY <1>1, <2>1, <2>2, <2>3, <2>4 DEF Worked, Spared
<1>6. CASE ~ Rabbit!IsLocked(<<str[u], child[u]>>)
  <2> DEFINE r == [pc |-> "cas", u |-> u, ua |-> <<str[u], child[u]>>]
  <2>1. /\ DOMAIN r = {"pc", "u", "ua"} /\ r["pc"] = "cas" /\ r["u"] = u /\ r["ua"] = <<str[u], child[u]>>
        /\ Rabbit!Update(t, r)
        /\ sibling' = [sibling EXCEPT ![Rabbit!V(t)] = child[u]]
    BY <1>2, <1>6
  <2>2. str[u] \in Nat
    BY <1>3, <1>6 DEF RabbitInv, RabbitTypes, Rabbit!IsLocked
  <2> HIDE DEF r
  <2>3. /\ Same(t) /\ th'[t].vstr = th[t].vstr /\ th'[t].pc = "cas" /\ th'[t].u = u
        /\ th'[t].ua[1] = str[u]
    BY <2>1, FieldsOnly
  <2>4. RabbitTypes'
    BY <1>1, <1>3, <1>4, <2>1 DEF RabbitInv, RabbitTypes
  <2>5. Control(t)'
    BY <1>1, <1>3, <2>2, <2>3 DEF RabbitInv, Control, Same
  <2>6. \A v \in Rabbit!Vertices \ {Rabbit!V(t)} : sibling'[v] = sibling[v]
    BY <2>1 DEF RabbitInv, RabbitTypes
  <2> QED BY <1>1, <2>3, <2>4, <2>5, <2>6 DEF Worked, Spared
<1> QED BY <1>5, <1>6

\* The compare-and-swap succeeds only if u still has the strength seen, which was not
\* negative: a merged vertex gets no new child.
LEMMA CompareExchangeStep ==
  ASSUME RabbitInv, NEW t \in RabbitThreads, Rabbit!CompareExchange(t)
  PROVE  RabbitTypes' /\ Worked(t) /\ Control(t)' /\ Spared(t) /\ th[t].pc # "com"
<1>1. th[t].pc = "cas" /\ UNCHANGED <<ord, es>>
  BY DEF Rabbit!CompareExchange
<1> DEFINE u == th[t].u
           ua == th[t].ua
<1>2. u \in Rabbit!Vertices /\ ua[1] \in Nat /\ th[t].vstr \in Nat
  BY <1>1 DEF RabbitInv, Control, ThreadType
<1>3. Rabbit!V(t) \in Rabbit!Vertices
  BY <1>1, HeadFacts DEF RabbitInv, Control
<1>4. CASE <<str[u], child[u]>> = ua
  <2> DEFINE r == [pc |-> "com"]
  <2>1. /\ DOMAIN r = {"pc"} /\ r["pc"] = "com" /\ Rabbit!Update(t, r) /\ UNCHANGED sibling
        /\ str' = [str EXCEPT ![u] = ua[1] + th[t].vstr]
        /\ child' = [child EXCEPT ![u] = Rabbit!V(t)]
    BY <1>4 DEF Rabbit!CompareExchange
  <2>2. str[u] = ua[1]
    BY <1>4
  <2> HIDE DEF r
  <2>3. /\ Same(t) /\ th'[t].vstr = th[t].vstr /\ th'[t].pc = "com" /\ th'[t].u = u /\ th'[t].ua = ua
    BY <2>1, FieldsOnly
  <2> HIDE DEF u, ua
  <2>4. RabbitTypes'
    <3>1. str' \in [Rabbit!Vertices -> Int]
      BY <1>2, <2>1 DEF RabbitInv, RabbitTypes
    <3>2. child' \in [Rabbit!Vertices -> 0 .. RabbitN]
      <4>1. Rabbit!V(t) \in 0 .. RabbitN
        BY <1>3, RabbitConstants
      <4> QED BY <2>1, <4>1 DEF RabbitInv, RabbitTypes
    <3> QED BY <1>1, <2>1, <3>1, <3>2 DEF RabbitInv, RabbitTypes
  <2>5. Control(t)'
    BY <1>1, <1>2, <2>3 DEF RabbitInv, Control, Same
  <2>6. \A v \in Rabbit!Vertices : str[v] >= 0 => str'[v] >= 0
    BY <1>2, <2>1 DEF RabbitInv, RabbitTypes
  <2>7. \A v \in Rabbit!Vertices : str[v] < 0 => UNCHANGED <<str[v], child[v]>>
    BY <1>2, <2>1, <2>2 DEF RabbitInv, RabbitTypes
  <2> QED BY <1>1, <2>1, <2>3, <2>4, <2>5, <2>6, <2>7 DEF Worked, Spared
<1>5. CASE <<str[u], child[u]>> # ua
  <2> DEFINE r == [pc |-> "undo", u |-> Rabbit!vmax, ua |-> Rabbit!Idle.ua]
  <2>1. /\ DOMAIN r = {"pc", "u", "ua"} /\ r["pc"] = "undo" /\ Rabbit!Update(t, r)
        /\ sibling' = [sibling EXCEPT ![Rabbit!V(t)] = Rabbit!vmax] /\ UNCHANGED <<str, child>>
    BY <1>5 DEF Rabbit!CompareExchange, Rabbit!SiblingUndone
  <2> HIDE DEF r
  <2>2. Same(t) /\ th'[t].vstr = th[t].vstr /\ th'[t].pc = "undo"
    BY <2>1, FieldsOnly
  <2> HIDE DEF u, ua
  <2>3. RabbitTypes'
    BY <1>1, <1>3, <2>1, RabbitConstants DEF RabbitInv, RabbitTypes
  <2>4. Control(t)'
    BY <1>1, <2>2 DEF RabbitInv, Control, Same
  <2>5. \A v \in Rabbit!Vertices \ {Rabbit!V(t)} : sibling'[v] = sibling[v]
    BY <2>1 DEF RabbitInv, RabbitTypes
  <2> QED BY <1>1, <2>1, <2>2, <2>3, <2>4, <2>5 DEF Worked, Spared
<1> QED BY <1>4, <1>5

\* A thread that keeps its vertex keeps those it has still to try; and what
\* holds of another thread's goes on to hold when none of its vertices is locked.
LEMMA Kept ==
  ASSUME NEW s \in RabbitThreads, ThreadType(s), Once(s), Open(s),
         th'[s].queue = th[s].queue, th'[s].pends = th[s].pends, th'[s].i = th[s].i,
         th'[s].vstr = th[s].vstr, DOMAIN th'[s] = DOMAIN th[s], ord' = ord,
         Todo(s) \subseteq Rabbit!Vertices,
         \A v \in Todo(s) : str[v] >= 0 => str'[v] >= 0
  PROVE  ThreadType(s)' /\ Once(s)' /\ Open(s)' /\ Todo(s)' = Todo(s)
<1>1. ThreadType(s)'
  BY DEF ThreadType
<1>2. Later(s)' = Later(s)
  BY DEF Later
<1>3. Once(s)'
  BY <1>2 DEF Once
<1>4. Todo(s)' = Todo(s)
  BY <1>2 DEF Todo
<1>5. Open(s)'
  <2>1. \A k \in DOMAIN th[s].queue : th[s].queue[k] \in Todo(s)
    BY DEF Todo, Range
  <2> HIDE DEF Later
  <2> QED BY <1>2, <2>1 DEF Open, Todo
<1> QED BY <1>1, <1>3, <1>4, <1>5

\* The vertices a thread has still to try are vertices.
LEMMA TodoType ==
  ASSUME RabbitInv, NEW t \in RabbitThreads
  PROVE  Todo(t) \subseteq Rabbit!Vertices
<1>1. ThreadType(t)
  BY DEF RabbitInv
<1>2. Later(t) \subseteq Rabbit!Vertices
  BY DEF RabbitInv, RabbitTypes, Later, Turns
<1>3. Range(th[t].queue) \subseteq Rabbit!Vertices /\ Range(th[t].pends) \subseteq Rabbit!Vertices
  BY <1>1 DEF ThreadType, Range
<1> QED BY <1>2, <1>3 DEF Todo

\* The invariant after a step of t, put together from what the step does to t.
LEMMA ThreadByThread ==
  ASSUME RabbitInv, NEW t \in RabbitThreads, RabbitTypes', DOMAIN th' = RabbitThreads,
         \A s \in RabbitThreads : s # t => th'[s] = th[s],
         ThreadType(t)', Once(t)', Open(t)', Control(t)',
         ord' = ord, Todo(t)' \subseteq Todo(t),
         \A v \in Rabbit!Vertices : v \notin Todo(t) /\ str[v] >= 0 => str'[v] >= 0
  PROVE  RabbitInv'
<1>1. ASSUME NEW s \in RabbitThreads, s # t
      PROVE  ThreadType(s)' /\ Once(s)' /\ Open(s)' /\ Control(s)' /\ Todo(s)' = Todo(s)
  <2>1. ThreadType(s) /\ Once(s) /\ Open(s) /\ Control(s)
    BY DEF RabbitInv
  <2>2. th'[s] = th[s]
    BY <1>1
  <2>3. \A v \in Todo(s) : v \in Rabbit!Vertices /\ v \notin Todo(t)
    BY <1>1, TodoType DEF RabbitInv, Apart
  <2>4. ThreadType(s)' /\ Once(s)' /\ Open(s)' /\ Todo(s)' = Todo(s)
    BY <2>1, <2>2, <2>3, Kept, TodoType
  <2>5. Control(s)'
    BY <2>1, <2>2 DEF Control
  <2> QED BY <2>4, <2>5
<1>2. Apart'
  <2> SUFFICES ASSUME NEW r \in RabbitThreads, NEW s \in RabbitThreads, r # s
               PROVE  Todo(r)' \intersect Todo(s)' = {}
    BY DEF Apart
  <2>1. Todo(r)' \subseteq Todo(r) /\ Todo(s)' \subseteq Todo(s)
    BY <1>1
  <2> QED BY <2>1 DEF RabbitInv, Apart
<1> QED BY <1>1, <1>2 DEF RabbitInv

\* A step of unite() or merge() that locks nothing keeps the invariant.
LEMMA WorkedKeepsInv ==
  ASSUME RabbitInv, NEW t \in RabbitThreads, RabbitTypes', Worked(t), Control(t)'
  PROVE  RabbitInv'
<1>1. ThreadType(t) /\ Once(t) /\ Open(t)
  BY DEF RabbitInv
<1>2. ThreadType(t)' /\ Once(t)' /\ Open(t)' /\ Todo(t)' = Todo(t)
  BY <1>1, Kept, TodoType DEF Worked, Same, ThreadType
<1> QED BY <1>2, ThreadByThread DEF Worked, Same

\* Lock makes the strength of t's own vertex negative, and no other thread has it.
LEMMA LockStep ==
  ASSUME RabbitInv, NEW t \in RabbitThreads, Rabbit!Lock(t)
  PROVE  RabbitInv' /\ Spared(t) /\ Same(t) /\ th[t].pc # "com"
<1> DEFINE v == Rabbit!V(t)
           r == [pc |-> "recheck", vstr |-> str[v]]
<1>1. /\ th[t].pc = "lock" /\ UNCHANGED <<ord, child, sibling, es>>
      /\ str' = [str EXCEPT ![v] = -1] /\ Rabbit!Update(t, r)
  BY DEF Rabbit!Lock
<1>2. DOMAIN r = {"pc", "vstr"} /\ r["pc"] = "recheck" /\ r["vstr"] = str[v]
  OBVIOUS
<1>3. /\ DOMAIN r \subseteq Fields \ {"queue", "pends", "i", "part"}
      /\ {"vstr", "u", "ua"} \subseteq Fields /\ "u" \notin DOMAIN r /\ "ua" \notin DOMAIN r
  BY <1>2 DEF Fields
<1> HIDE DEF r
<1>4. /\ DOMAIN th = RabbitThreads /\ DOMAIN th[t] = Fields
      /\ ThreadType(t) /\ Once(t) /\ Open(t) /\ Control(t)
  BY DEF RabbitInv, ThreadType
<1>5. /\ Same(t) /\ \A f \in DOMAIN r : th'[t][f] = r[f]
      /\ \A f \in Fields \ DOMAIN r : th'[t][f] = th[t][f]
  BY <1>1, <1>3, <1>4, LocalUpdate
<1>6. Same(t) /\ th'[t].pc = "recheck" /\ th'[t].vstr = str[v]
  BY <1>2, <1>5
<1>7. v \in Rabbit!Vertices /\ v = th[t].queue[1] /\ 1 \in DOMAIN th[t].queue /\ th[t].vstr < 0
  BY <1>1, <1>4, HeadFacts DEF Control
<1> HIDE DEF v
<1>8. str[v] \in Nat
  BY <1>4, <1>7 DEF Open, RabbitInv, RabbitTypes
<1>9. RabbitTypes'
  BY <1>1, <1>7 DEF RabbitInv, RabbitTypes
<1>10. ThreadType(t)' /\ Later(t)' = Later(t) /\ Todo(t)' = Todo(t)
  BY <1>1, <1>4, <1>6, <1>8 DEF ThreadType, Same, Later, Todo
<1>11. Once(t)'
  BY <1>4, <1>6, <1>10 DEF Once, Same
<1>12. Open(t)'
  <2>1. \A w \in Todo(t) \ {v} : str'[w] = str[w]
    BY <1>1, TodoType DEF RabbitInv, RabbitTypes
  <2>2. \A k \in DOMAIN th[t].queue : k # 1 => th[t].queue[k] \in Todo(t) \ {v}
    BY <1>4, <1>7 DEF Once, Todo, Range
  <2>3. \A w \in Range(th[t].pends) \union Later(t) : w \in Todo(t) \ {v}
    BY <1>4, <1>7 DEF Once, Todo, Range
  <2>4. \A k \in DOMAIN th[t].queue : k > 1 \/ str[v] < 0 => str'[th[t].queue[k]] >= 0
    BY <1>4, <1>8, <2>1, <2>2 DEF Open
  <2>5. \A w \in Range(th[t].pends) \union Later(t) : str'[w] >= 0
    BY <1>4, <2>1, <2>3 DEF Open
  <2> QED BY <1>6, <1>10, <2>4, <2>5 DEF Open, Same
<1>13. Control(t)'
  BY <1>1, <1>4, <1>6, <1>8 DEF Control, Same
<1>14. v \in Todo(t)
  BY <1>7 DEF Todo, Range
<1>15. \A w \in Rabbit!Vertices : w # v => str'[w] = str[w]
  BY <1>1 DEF RabbitInv, RabbitTypes
<1>16. RabbitInv'
  BY <1>1, <1>6, <1>9, <1>10, <1>11, <1>12, <1>13, <1>14, <1>15, ThreadByThread DEF Same
<1>17. Spared(t)
  BY <1>1, <1>15 DEF Spared, v
<1> QED BY <1>1, <1>6, <1>16, <1>17

\* What the fields of t are when merge() has returned.
LEMMA ReturnFacts ==
  ASSUME NEW t \in RabbitThreads, NEW result, Rabbit!Return(t, result),
         DOMAIN th = RabbitThreads, DOMAIN th[t] = Fields
  PROVE  /\ DOMAIN th' = RabbitThreads /\ DOMAIN th'[t] = Fields
         /\ \A s \in RabbitThreads : s # t => th'[s] = th[s]
         /\ th'[t].queue = Tail(th[t].queue)
         /\ th'[t].pends = IF result = Rabbit!vmax THEN Append(th[t].pends, Rabbit!V(t)) ELSE th[t].pends
         /\ th'[t].i = th[t].i /\ th'[t].part = th[t].part
         /\ th'[t].pc = "loop" /\ th'[t].vstr = -1
<1> DEFINE new == [queue |-> Tail(th[t].queue),
                   tops  |-> IF result = Rabbit!V(t) THEN Append(th[t].tops, Rabbit!V(t)) ELSE th[t].tops,
                   pends |-> IF result = Rabbit!vmax THEN Append(th[t].pends, Rabbit!V(t)) ELSE th[t].pends]
           r == Rabbit!Set(Rabbit!Idle, new)
<1>1. Rabbit!Update(t, r)
  BY DEF Rabbit!Return
<1>2. DOMAIN Rabbit!Idle = {"pc", "vstr", "nbrs", "src", "rest", "c", "u", "ua"}
      /\ Rabbit!Idle["pc"] = "loop" /\ Rabbit!Idle["vstr"] = -1
  BY DEF Rabbit!Idle
<1>3. DOMAIN new = {"queue", "tops", "pends"}
  OBVIOUS
<1>4. new["queue"] = Tail(th[t].queue)
      /\ new["pends"] = IF result = Rabbit!vmax THEN Append(th[t].pends, Rabbit!V(t)) ELSE th[t].pends
  OBVIOUS
<1> HIDE DEF new
<1>5. /\ DOMAIN r = {"pc", "vstr", "nbrs", "src", "rest", "c", "u", "ua", "queue", "tops", "pends"}
      /\ r["queue"] = new["queue"] /\ r["pends"] = new["pends"]
      /\ r["pc"] = "loop" /\ r["vstr"] = -1
  BY <1>2, <1>3 DEF Rabbit!Set
<1> HIDE DEF r
<1>6. DOMAIN r \subseteq Fields /\ "i" \in Fields \ DOMAIN r /\ "part" \in Fields \ DOMAIN r
  BY <1>5 DEF Fields
<1>7. /\ DOMAIN th' = RabbitThreads /\ DOMAIN th'[t] = Fields
      /\ \A s \in RabbitThreads : s # t => th'[s] = th[s]
      /\ \A f \in Fields : th'[t][f] = IF f \in DOMAIN r THEN r[f] ELSE th[t][f]
  BY <1>1, <1>6, UpdateFacts
<1>8. {"queue", "pends", "pc", "vstr", "i", "part"} \subseteq Fields
  BY DEF Fields
<1> QED BY <1>4, <1>5, <1>6, <1>7, <1>8

\* Returning keeps the invariant: v leaves the queue, for good or for the pending ones.
LEMMA ReturnKeepsInv ==
  ASSUME RabbitInv, NEW t \in RabbitThreads, NEW result, Rabbit!Return(t, result), RabbitTypes',
         ord' = ord, th[t].pc # "loop", \A w \in Rabbit!Vertices : str[w] >= 0 => str'[w] >= 0,
         result = Rabbit!vmax => str'[Rabbit!V(t)] >= 0
  PROVE  RabbitInv' /\ th'[t].pc = "loop" /\ \A s \in RabbitThreads : s # t => th'[s] = th[s]
<1> DEFINE v == Rabbit!V(t)
           q == th[t].queue
           p == th[t].pends
<1>1. /\ DOMAIN th = RabbitThreads /\ DOMAIN th[t] = Fields
      /\ ThreadType(t) /\ Once(t) /\ Open(t) /\ Control(t) /\ q # << >>
  BY DEF RabbitInv, ThreadType, Control
<1>2. /\ DOMAIN th' = RabbitThreads /\ DOMAIN th'[t] = Fields
      /\ \A s \in RabbitThreads : s # t => th'[s] = th[s]
      /\ th'[t].queue = Tail(q)
      /\ th'[t].pends = IF result = Rabbit!vmax THEN Append(p, v) ELSE p
      /\ th'[t].i = th[t].i /\ th'[t].part = th[t].part
      /\ th'[t].pc = "loop" /\ th'[t].vstr = -1
  BY <1>1, ReturnFacts
<1>3. v \in Rabbit!Vertices /\ v = q[1] /\ 1 \in DOMAIN q
  BY <1>1, HeadFacts
<1>4. q \in Seq(Rabbit!Vertices) /\ p \in Seq(Rabbit!Vertices)
  BY <1>1 DEF ThreadType
<1>5. /\ Tail(q) \in Seq(Rabbit!Vertices) /\ DOMAIN Tail(q) = 1 .. (Len(q) - 1) /\ DOMAIN q = 1 .. Len(q)
      /\ \A k \in DOMAIN Tail(q) : Tail(q)[k] = q[k + 1] /\ k + 1 \in DOMAIN q /\ k + 1 > 1
      /\ Len(q) \in Nat
  BY <1>1, <1>4
<1>6. /\ Append(p, v) \in Seq(Rabbit!Vertices) /\ DOMAIN Append(p, v) = 1 .. (Len(p) + 1)
      /\ DOMAIN p = 1 .. Len(p) /\ Len(p) \in Nat
      /\ Append(p, v)[Len(p) + 1] = v /\ \A k \in DOMAIN p : Append(p, v)[k] = p[k]
  BY <1>3, <1>4
<1> HIDE DEF v, q, p
<1>7. Range(Tail(q)) \subseteq Range(q) \ {v}
  <2>1. \A k \in DOMAIN Tail(q) : Tail(q)[k] = q[k + 1] /\ q[k + 1] # q[1]
    BY <1>1, <1>3, <1>5 DEF Once, q
  <2> QED BY <1>3, <1>5, <2>1 DEF Range
<1>8. v \in Range(q) /\ v \notin Range(p) \union Later(t)
  BY <1>1, <1>3 DEF Once, Range, q, p
<1>9. Range(th'[t].pends) \subseteq Range(p) \union {v}
  BY <1>2, <1>6 DEF Range
<1>10. Later(t)' = Later(t)
  BY <1>2 DEF Later
<1>11. Range(q) \intersect Range(p) = {} /\ (Range(q) \union Range(p)) \intersect Later(t) = {}
  BY <1>1 DEF Once, q, p
<1>12. ThreadType(t)'
  BY <1>1, <1>2, <1>4, <1>5, <1>6 DEF ThreadType
<1>13. Once(t)'
  <2>1. \A j, k \in DOMAIN Tail(q) : Tail(q)[j] = Tail(q)[k] => j = k
    BY <1>1, <1>5 DEF Once, q
  <2>2. \A j, k \in DOMAIN th'[t].pends : th'[t].pends[j] = th'[t].pends[k] => j = k
    <3>1. \A j, k \in DOMAIN p : p[j] = p[k] => j = k
      BY <1>1 DEF Once, p
    <3>2. \A k \in DOMAIN p : p[k] # v
      BY <1>8 DEF Range
    <3>3. \A j, k \in DOMAIN Append(p, v) : Append(p, v)[j] = Append(p, v)[k] => j = k
      BY <1>6, <3>1, <3>2
    <3> QED BY <1>2, <3>1, <3>3
  <2>3. Range(th'[t].queue) \intersect Range(th'[t].pends) = {}
    BY <1>2, <1>7, <1>9, <1>11
  <2>4. (Range(th'[t].queue) \union Range(th'[t].pends)) \intersect Later(t)' = {}
    BY <1>2, <1>7, <1>8, <1>9, <1>10, <1>11
  <2> QED BY <1>2, <2>1, <2>2, <2>3, <2>4 DEF Once
<1>14. Todo(t)' \subseteq Todo(t)
  BY <1>2, <1>7, <1>8, <1>9, <1>10 DEF Todo, q, p
<1>15. \A w \in Todo(t) : w \in Rabbit!Vertices
  BY TodoType
<1>16. Open(t)'
  <2>1. \A k \in DOMAIN q : k > 1 => str'[q[k]] >= 0
    <3>1. \A k \in DOMAIN q : q[k] \in Rabbit!Vertices
      BY <1>4
    <3> QED BY <1>1, <3>1 DEF Open, q
  <2>2. \A k \in DOMAIN Tail(q) : str'[Tail(q)[k]] >= 0
    BY <1>5, <2>1
  <2>3. \A w \in Range(p) \union Later(t) : str'[w] >= 0
    BY <1>1, <1>15 DEF Open, Todo, p
  <2>4. \A w \in Range(th'[t].pends) : str'[w] >= 0
    BY <1>2, <1>9, <2>3 DEF v
  <2> QED BY <1>2, <1>10, <2>2, <2>3, <2>4 DEF Open
<1>17. Control(t)'
  BY <1>1, <1>2 DEF RabbitInv, Control
<1> QED BY <1>2, <1>12, <1>13, <1>14, <1>16, <1>17, ThreadByThread

\* v stays top-level and gets its strength back.
LEMMA NoneIsBetterStep ==
  ASSUME RabbitInv, NEW t \in RabbitThreads, Rabbit!NoneIsBetter(t)
  PROVE  /\ RabbitInv' /\ Spared(t) /\ th'[t].pc = "loop"
         /\ \A s \in RabbitThreads : s # t => th'[s] = th[s]
<1> DEFINE v == Rabbit!V(t)
<1>1. /\ th[t].pc = "find" /\ UNCHANGED <<ord, child, sibling, es>>
      /\ str' = [str EXCEPT ![v] = th[t].vstr] /\ Rabbit!Return(t, v)
  BY DEF Rabbit!NoneIsBetter
<1>2. v \in Rabbit!Vertices /\ th[t].vstr \in Nat
  BY <1>1, HeadFacts DEF RabbitInv, Control, ThreadType
<1>3. RabbitTypes'
  BY <1>1, <1>2 DEF RabbitInv, RabbitTypes
<1>4. \A w \in Rabbit!Vertices : str'[w] = IF w = v THEN th[t].vstr ELSE str[w]
  BY <1>1 DEF RabbitInv, RabbitTypes
<1>5. Spared(t)
  BY <1>1, <1>4 DEF Spared
<1>6. v # Rabbit!vmax
  BY <1>2, RabbitConstants
<1> QED BY <1>1, <1>2, <1>3, <1>4, <1>5, <1>6, ReturnKeepsInv

\* v gets its strength back and is tried again later.
LEMMA UndoStep ==
  ASSUME RabbitInv, NEW t \in RabbitThreads, Rabbit!Undo(t)
  PROVE  /\ RabbitInv' /\ Spared(t) /\ th'[t].pc = "loop"
         /\ \A s \in RabbitThreads : s # t => th'[s] = th[s]
<1> DEFINE v == Rabbit!V(t)
<1>1. /\ th[t].pc = "undo" /\ UNCHANGED <<ord, child, sibling, es>>
      /\ str' = [str EXCEPT ![v] = th[t].vstr] /\ Rabbit!Return(t, Rabbit!vmax)
  BY DEF Rabbit!Undo
<1>2. v \in Rabbit!Vertices /\ th[t].vstr \in Nat
  BY <1>1, HeadFacts DEF RabbitInv, Control, ThreadType
<1>3. RabbitTypes'
  BY <1>1, <1>2 DEF RabbitInv, RabbitTypes
<1>4. \A w \in Rabbit!Vertices : str'[w] = IF w = v THEN th[t].vstr ELSE str[w]
  BY <1>1 DEF RabbitInv, RabbitTypes
<1>5. Spared(t)
  BY <1>1, <1>4 DEF Spared
<1> QED BY <1>1, <1>2, <1>3, <1>4, <1>5, ReturnKeepsInv

\* v is merged: its thread lets go of it and its strength stays negative.
LEMMA SetCommunityStep ==
  ASSUME RabbitInv, NEW t \in RabbitThreads, Rabbit!SetCommunity(t)
  PROVE  /\ RabbitInv' /\ Spared(t) /\ th'[t].pc = "loop"
         /\ \A s \in RabbitThreads : s # t => th'[s] = th[s]
<1>1. /\ th[t].pc = "com" /\ UNCHANGED <<ord, str, child, sibling, es>>
      /\ Rabbit!Return(t, th[t].u)
  BY DEF Rabbit!SetCommunity
<1>2. th[t].u \in Rabbit!Vertices
  BY <1>1 DEF RabbitInv, Control
<1>3. th[t].u # Rabbit!vmax
  BY <1>2, RabbitConstants
<1>4. RabbitTypes'
  BY <1>1 DEF RabbitInv, RabbitTypes
<1> QED BY <1>1, <1>3, <1>4, ReturnKeepsInv DEF Spared

\* The next vertex of the order passes from those whose turn comes to the queue.
LEMMA TurnFacts ==
  ASSUME NEW i \in Nat, i <= RabbitN, i > 0
  PROVE  Turns(i) = {i} \union Turns(i + Rabbit!NumThreads) /\ i \notin Turns(i + Rabbit!NumThreads)
<1> DEFINE nt == Rabbit!NumThreads
<1>1. nt \in Nat \ {0} /\ RabbitN \in Nat
  BY RabbitConstants
<1> HIDE DEF nt
<1>2. \A k \in Nat : i + nt + k * nt = i + (k + 1) * nt /\ k + 1 \in Nat /\ k * nt \in Nat
  BY <1>1
<1>3. \A k \in Nat : k = 0 \/ (k - 1 \in Nat /\ (i + nt) + (k - 1) * nt = i + k * nt)
  BY <1>1
<1>4. i + 0 * nt = i
  BY <1>1
<1>5. Turns(i) \subseteq {i} \union Turns(i + nt)
  <2> SUFFICES ASSUME NEW j \in Turns(i), j # i  PROVE j \in Turns(i + nt)
    OBVIOUS
  <2>1. PICK k \in Nat : j = i + k * nt
    BY DEF Turns, nt
  <2>2. k # 0
    BY <1>4, <2>1
  <2>3. j = (i + nt) + (k - 1) * nt /\ k - 1 \in Nat
    BY <1>3, <2>1, <2>2
  <2> QED BY <2>3 DEF Turns, nt
<1>6. {i} \union Turns(i + nt) \subseteq Turns(i)
  <2>1. i \in Turns(i)
    BY <1>1, <1>4 DEF Turns, nt
  <2>2. ASSUME NEW j \in Turns(i + nt)  PROVE j \in Turns(i)
    <3>1. PICK k \in Nat : j = i + nt + k * nt /\ j \in 1 .. RabbitN
      BY DEF Turns, nt
    <3>2. j = i + (k + 1) * nt
      BY <1>2, <3>1
    <3> QED BY <3>1, <3>2 DEF Turns, nt
  <2> QED BY <2>1, <2>2
<1>7. i \notin Turns(i + nt)
  <2> SUFFICES ASSUME NEW k \in Nat, i = i + nt + k * nt  PROVE FALSE
    BY DEF Turns, nt
  <2> QED BY <1>1, <1>2
<1> QED BY <1>5, <1>6, <1>7 DEF nt

\* A thread that leaves the loop, or the critical section, holds no vertex.
LEMMA LeaveStep ==
  ASSUME RabbitInv, NEW t \in RabbitThreads, NEW r, Rabbit!Update(t, r), DOMAIN r = {"part"},
         th[t].pc = "loop", th[t].queue = << >>, UNCHANGED <<ord, str, child, sibling, es>>
  PROVE  RabbitInv' /\ th'[t].pc = "loop" /\ \A s \in RabbitThreads : s # t => th'[s] = th[s]
<1>1. DOMAIN r = {"part"}
  OBVIOUS
<1>2. DOMAIN r \subseteq Fields /\ Fields \ DOMAIN r = Fields \ {"part"}
  BY <1>1 DEF Fields
<1>3. /\ DOMAIN th = RabbitThreads /\ DOMAIN th[t] = Fields
      /\ ThreadType(t) /\ Once(t) /\ Open(t) /\ Control(t)
  BY DEF RabbitInv, ThreadType
<1>4. /\ DOMAIN th' = RabbitThreads /\ DOMAIN th'[t] = Fields
      /\ \A s \in RabbitThreads : s # t => th'[s] = th[s]
      /\ \A f \in Fields : th'[t][f] = IF f \in DOMAIN r THEN r[f] ELSE th[t][f]
  BY <1>2, <1>3, UpdateFacts
<1>5. {"queue", "pends", "i", "pc", "vstr", "u", "ua"} \subseteq Fields \ {"part"}
  BY DEF Fields
<1>6. /\ th'[t].queue = th[t].queue /\ th'[t].pends = th[t].pends /\ th'[t].i = th[t].i
      /\ th'[t].pc = th[t].pc /\ th'[t].vstr = th[t].vstr
  BY <1>1, <1>4, <1>5
<1>7. ThreadType(t)' /\ Once(t)' /\ Open(t)' /\ Todo(t)' = Todo(t)
  BY <1>3, <1>4, <1>6, Kept, TodoType
<1>8. Control(t)'
  BY <1>3, <1>6 DEF Control
<1>9. RabbitTypes'
  BY DEF RabbitInv, RabbitTypes
<1> QED BY <1>4, <1>6, <1>7, <1>8, <1>9, ThreadByThread

\* A thread at the top of its loop takes its pending vertices, and maybe one more.
LEMMA TakeStep ==
  ASSUME RabbitInv, NEW t \in RabbitThreads, NEW r, Rabbit!Update(t, r),
         DOMAIN r \subseteq {"queue", "pends", "i", "part"}, {"queue", "pends"} \subseteq DOMAIN r,
         r["pends"] = << >>,
         \/ /\ r["queue"] = th[t].pends /\ "i" \notin DOMAIN r
            /\ "part" \in DOMAIN r /\ r["part"] = "critical"
         \/ /\ th[t].i <= RabbitN /\ r["queue"] = Append(th[t].pends, ord[th[t].i])
            /\ "i" \in DOMAIN r /\ r["i"] = th[t].i + Rabbit!NumThreads
            /\ "part" \notin DOMAIN r /\ th[t].part = "for",
         th[t].pc = "loop", th[t].queue = << >>, UNCHANGED <<ord, str, child, sibling, es>>
  PROVE  RabbitInv' /\ th'[t].pc = "loop" /\ \A s \in RabbitThreads : s # t => th'[s] = th[s]
<1> DEFINE p == th[t].pends
           i == th[t].i
           more == "i" \in DOMAIN r
           v == ord[i]
<1>1. /\ DOMAIN th = RabbitThreads /\ DOMAIN th[t] = Fields
      /\ ThreadType(t) /\ Once(t) /\ Open(t) /\ Control(t)
  BY DEF RabbitInv, ThreadType
<1>2. DOMAIN r \subseteq Fields
  BY DEF Fields
<1>3. /\ DOMAIN th' = RabbitThreads /\ DOMAIN th'[t] = Fields
      /\ \A s \in RabbitThreads : s # t => th'[s] = th[s]
      /\ \A f \in Fields : th'[t][f] = IF f \in DOMAIN r THEN r[f] ELSE th[t][f]
  BY <1>1, <1>2, UpdateFacts
<1>4. {"queue", "pends", "i", "part"} \subseteq Fields /\ {"pc", "vstr"} \subseteq Fields \ DOMAIN r
  BY DEF Fields
<1>5. /\ th'[t].pends = << >> /\ th'[t].pc = "loop" /\ th'[t].vstr = th[t].vstr /\ th[t].vstr < 0
      /\ th'[t].part \notin {"barrier", "end"}
  BY <1>1, <1>3, <1>4 DEF Control
<1>6. th'[t].queue = (IF more THEN Append(p, v) ELSE p)
      /\ th'[t].i = IF more THEN i + Rabbit!NumThreads ELSE i
  BY <1>3, <1>4
<1>7. p \in Seq(Rabbit!Vertices) /\ i \in Nat \ {0} /\ Rabbit!NumThreads \in Nat \ {0} /\ RabbitN \in Nat
  BY <1>1, RabbitConstants DEF ThreadType
<1>8. more => i \in 1 .. RabbitN /\ v \in Rabbit!Vertices
  BY <1>7 DEF RabbitInv, RabbitTypes
<1>9. more => /\ Append(p, v) \in Seq(Rabbit!Vertices) /\ DOMAIN Append(p, v) = 1 .. (Len(p) + 1)
              /\ Append(p, v)[Len(p) + 1] = v /\ \A k \in DOMAIN p : Append(p, v)[k] = p[k]
  BY <1>7, <1>8
<1>10. DOMAIN p = 1 .. Len(p) /\ Len(p) \in Nat
  BY <1>7
<1>11. more => Later(t) = {v} \union Later(t)' /\ v \notin Later(t)'
  <2> SUFFICES ASSUME more
               PROVE  Later(t) = {v} \union Later(t)' /\ v \notin Later(t)'
    OBVIOUS
  <2>1. Turns(i) = {i} \union Turns(i + Rabbit!NumThreads) /\ i \notin Turns(i + Rabbit!NumThreads)
    BY <1>7, <1>8, TurnFacts
  <2>2. \A j \in Turns(i + Rabbit!NumThreads) : ord[j] # v
    BY <1>8, <2>1 DEF RabbitInv, RabbitTypes, Turns
  <2>3. Later(t)' = {ord[j] : j \in Turns(i + Rabbit!NumThreads)}
    BY <1>6 DEF Later, Turns
  <2> HIDE DEF i, v
  <2>4. Later(t) = {ord[j] : j \in Turns(i)} /\ v = ord[i]
    BY DEF Later, i, v
  <2> QED BY <2>1, <2>2, <2>3, <2>4
<1>12. ~ more => Later(t)' = Later(t)
  BY <1>6 DEF Later, Turns
<1>13. Range(p) \intersect Later(t) = {} /\ \A j, k \in DOMAIN p : p[j] = p[k] => j = k
  BY <1>1 DEF Once
<1> HIDE DEF p, i, v, more
<1>14. Range(th'[t].queue) \subseteq Range(p) \union (IF more THEN {v} ELSE {}) /\ Range(th'[t].pends) = {}
  BY <1>5, <1>6, <1>9, <1>10 DEF Range
<1>15. ThreadType(t)'
  BY <1>1, <1>3, <1>5, <1>6, <1>7, <1>9 DEF ThreadType
<1>16. Once(t)'
  <2>1. more => \A k \in DOMAIN p : p[k] # v
    BY <1>11, <1>13 DEF Range
  <2>2. \A j, k \in DOMAIN th'[t].queue : th'[t].queue[j] = th'[t].queue[k] => j = k
    BY <1>6, <1>9, <1>10, <1>13, <2>1
  <2>3. Range(th'[t].queue) \intersect Later(t)' = {}
    BY <1>11, <1>12, <1>13, <1>14
  <2>4. DOMAIN th'[t].pends = {}
    BY <1>5
  <2> QED BY <1>14, <2>2, <2>3, <2>4 DEF Once
<1>17. Todo(t)' \subseteq Todo(t)
  BY <1>11, <1>12, <1>14 DEF Todo, p
<1>18. Open(t)'
  <2>1. \A w \in Range(p) \union Later(t) : str[w] >= 0
    BY <1>1 DEF Open, p
  <2>2. \A w \in Range(th'[t].queue) \union Later(t)' : str'[w] >= 0
    BY <1>11, <1>12, <1>14, <2>1
  <2> QED BY <1>14, <2>2 DEF Open, Range
<1>19. Control(t)'
  BY <1>5 DEF Control
<1>20. RabbitTypes'
  BY DEF RabbitInv, RabbitTypes
<1> QED BY <1>3, <1>5, <1>15, <1>16, <1>17, <1>18, <1>19, <1>20, ThreadByThread

\* What a step of a thread comes to.
LEMMA ThreadStep ==
  ASSUME RabbitInv, NEW t \in RabbitThreads, Rabbit!Thread(t)
  PROVE  /\ RabbitInv' /\ Spared(t)
         /\ \A s \in RabbitThreads : s # t => th'[s] = th[s]
         /\ th'[t].pc = "loop" \/ (th'[t].queue = th[t].queue /\ th[t].pc # "com")
<1>1. CASE Rabbit!NextIteration(t)
  <2>1. th[t].pc = "loop" /\ th[t].queue = << >> /\ UNCHANGED <<ord, str, child, sibling, es>>
    BY <1>1 DEF Rabbit!NextIteration, Rabbit!shared
  <2>2. CASE th[t].i <= RabbitN
    <3> DEFINE r == [queue |-> Append(th[t].pends, ord[th[t].i]), pends |-> << >>,
                     i |-> th[t].i + Rabbit!NumThreads]
    <3>1. Rabbit!Update(t, r) /\ th[t].part = "for"
      BY <1>1, <2>2 DEF Rabbit!NextIteration
    <3>2. /\ DOMAIN r = {"queue", "pends", "i"} /\ r["pends"] = << >>
          /\ r["queue"] = Append(th[t].pends, ord[th[t].i]) /\ r["i"] = th[t].i + Rabbit!NumThreads
      OBVIOUS
    <3> HIDE DEF r
    <3>3. /\ DOMAIN r \subseteq {"queue", "pends", "i", "part"} /\ {"queue", "pends"} \subseteq DOMAIN r
          /\ "i" \in DOMAIN r /\ "part" \notin DOMAIN r
      BY <3>2
    <3>4. RabbitInv' /\ th'[t].pc = "loop" /\ \A s \in RabbitThreads : s # t => th'[s] = th[s]
      BY <2>1, <2>2, <3>1, <3>2, <3>3, TakeStep
    <3>5. Spared(t)
      BY <2>1 DEF Spared
    <3> QED BY <3>4, <3>5
  <2>3. CASE ~ (th[t].i <= RabbitN)
    <3> DEFINE r == [part |-> "barrier"]
    <3>1. Rabbit!Update(t, r) /\ DOMAIN r = {"part"}
      BY <1>1, <2>3 DEF Rabbit!NextIteration
    <3> HIDE DEF r
    <3>2. RabbitInv' /\ th'[t].pc = "loop" /\ \A s \in RabbitThreads : s # t => th'[s] = th[s]
      BY <2>1, <3>1, LeaveStep
    <3>3. Spared(t)
      BY <2>1 DEF Spared
    <3> QED BY <3>2, <3>3
  <2> QED BY <2>2, <2>3
<1>2. CASE Rabbit!EnterCritical(t)
  <2> DEFINE r == [part |-> "critical", queue |-> th[t].pends, pends |-> << >>]
  <2>1. Rabbit!Update(t, r) /\ th[t].part = "barrier" /\ UNCHANGED <<ord, str, child, sibling, es>>
    BY <1>2 DEF Rabbit!EnterCritical, Rabbit!shared
  <2>2. th[t].pc = "loop" /\ th[t].queue = << >>
    BY <2>1 DEF RabbitInv, Control
  <2>3. /\ DOMAIN r = {"queue", "pends", "part"} /\ r["pends"] = << >>
        /\ r["queue"] = th[t].pends /\ r["part"] = "critical"
    OBVIOUS
  <2> HIDE DEF r
  <2>4. /\ DOMAIN r \subseteq {"queue", "pends", "i", "part"} /\ {"queue", "pends"} \subseteq DOMAIN r
        /\ "i" \notin DOMAIN r /\ "part" \in DOMAIN r
    BY <2>3
  <2>5. RabbitInv' /\ th'[t].pc = "loop" /\ \A s \in RabbitThreads : s # t => th'[s] = th[s]
    BY <2>1, <2>2, <2>3, <2>4, TakeStep
  <2>6. Spared(t)
    BY <2>1 DEF Spared
  <2> QED BY <2>5, <2>6
<1>3. CASE Rabbit!LeaveCritical(t)
  <2> DEFINE r == [part |-> "end"]
  <2>1. /\ th[t].pc = "loop" /\ th[t].queue = << >> /\ UNCHANGED <<ord, str, child, sibling, es>>
        /\ Rabbit!Update(t, r) /\ DOMAIN r = {"part"}
    BY <1>3 DEF Rabbit!LeaveCritical, Rabbit!shared
  <2> HIDE DEF r
  <2>2. RabbitInv' /\ th'[t].pc = "loop" /\ \A s \in RabbitThreads : s # t => th'[s] = th[s]
    BY <2>1, LeaveStep
  <2>3. Spared(t)
    BY <2>1 DEF Spared
  <2> QED BY <2>2, <2>3
<1>4. CASE Rabbit!Lock(t)
  BY <1>4, LockStep DEF Same
<1>5. CASE Rabbit!NoneIsBetter(t) \/ Rabbit!Undo(t) \/ Rabbit!SetCommunity(t)
  BY <1>5, NoneIsBetterStep, UndoStep, SetCommunityStep
<1>6. CASE \/ Rabbit!Merge(t) \/ Rabbit!TraceCom(t) \/ Rabbit!Shorten(t) \/ Rabbit!UniteChildren(t)
           \/ Rabbit!Recheck(t) \/ Rabbit!FindBest(t) \/ Rabbit!CompareExchange(t)
  <2>1. RabbitTypes' /\ Worked(t) /\ Control(t)' /\ Spared(t) /\ th[t].pc # "com"
    BY <1>6, MergeStep, TraceComStep, ShortenStep, UniteChildrenStep, RecheckStep, FindBestStep,
       CompareExchangeStep
  <2> QED BY <2>1, WorkedKeepsInv DEF Worked, Same
<1> QED BY <1>1, <1>2, <1>3, <1>4, <1>5, <1>6 DEF Rabbit!Thread

-----------------------------------------------------------------------------
(* The beginning: strengths are not negative, and the turns are dealt out. *)

\* The sums of the model are those of CommonFacts.
LEMMA RabbitSum == \A f, S : Rabbit!Sum(f, S) = SetSum(f, S)
BY DEF Rabbit!Sum, Rabbit!FoldSet, Rabbit!MapThenFoldSet, SetSum, OneOf

\* Finitely many edges of positive weight.
LEMMA GraphFacts ==
  \A E \in Graphs : IsFiniteSet(E) /\ E \subseteq Rabbit!Vertices \X Rabbit!Vertices \X (Nat \ {0})
BY OfRabbit DEF Rabbit!RabbitAssumption, Rabbit!IsFiniteSet, IsFiniteSet

\* No strength is negative in the beginning.
LEMMA StrengthsNatural ==
  ASSUME edges \in Graphs, es = Rabbit!AdjacencyList, NEW v \in Rabbit!Vertices
  PROVE  Rabbit!Strength(es[v]) \in Nat
<1>1. IsFiniteSet(edges) /\ \A e \in edges : e[3] \in Nat
  <2>1. IsFiniteSet(edges) /\ edges \subseteq Rabbit!Vertices \X Rabbit!Vertices \X (Nat \ {0})
    BY GraphFacts
  <2> QED BY <2>1
<1>2. ASSUME NEW s, NEW u  PROVE Rabbit!Weight(s, u) \in Nat
  <2> DEFINE w == [e \in edges |-> e[3]]
             P == {e \in edges : <<e[1], e[2]>> \in {<<s, u>>, <<u, s>>}}
  <2>1. IsFiniteSet(P)
    BY <1>1, FS_Subset
  <2>2. \A e \in P : w[e] \in Nat
    BY <1>1
  <2>3. Rabbit!Weight(s, u) = SetSum(w, P)
    BY RabbitSum DEF Rabbit!Weight
  <2> HIDE DEF w, P
  <2> QED BY <2>1, <2>2, <2>3, SetSumNat
<1>3. \A u \in Rabbit!Vertices : es[v][u] \in Nat
  BY <1>2 DEF Rabbit!AdjacencyList
<1>4. IsFiniteSet(Rabbit!Vertices)
  BY RabbitConstants, FS_Interval
<1>5. SetSum(es[v], Rabbit!Vertices) \in Nat
  BY <1>3, <1>4, SetSumNat
<1> QED BY <1>5, RabbitSum DEF Rabbit!Strength

\* Two threads have no turn in common.
LEMMA TurnsApart ==
  ASSUME NEW s \in RabbitThreads, NEW t \in RabbitThreads, s # t
  PROVE  Turns(s + 1) \intersect Turns(t + 1) = {}
<1> DEFINE nt == Rabbit!NumThreads
<1>1. nt \in Nat \ {0} /\ s \in 0 .. (nt - 1) /\ t \in 0 .. (nt - 1)
  BY RabbitConstants
<1> HIDE DEF nt
<1> SUFFICES ASSUME NEW k \in Nat, NEW l \in Nat, s + 1 + k * nt = t + 1 + l * nt  PROVE FALSE
  BY DEF Turns, nt
<1>2. ASSUME NEW a \in Nat, NEW b \in Nat, a < b  PROVE a * nt + nt <= b * nt
  <2>1. (b - a - 1) \in Nat
    BY <1>2
  <2>2. (b - a - 1) * nt \in Nat
    BY <1>1, <2>1
  <2>3. b * nt = a * nt + nt + (b - a - 1) * nt
    BY <1>1
  <2> QED BY <1>1, <2>2, <2>3
<1>3. k * nt \in Nat /\ l * nt \in Nat
  BY <1>1
<1>4. CASE k < l
  BY <1>1, <1>2, <1>3, <1>4
<1>5. CASE l < k
  BY <1>1, <1>2, <1>3, <1>5
<1>6. CASE k = l
  BY <1>1, <1>3, <1>6
<1> QED BY <1>4, <1>5, <1>6

\* The invariant holds before the first vertex is tried.
LEMMA RabbitBegins ==
  ASSUME Rabbit!Init
  PROVE  RabbitInv
<1>1. RabbitTypes
  <2>1. str = [v \in Rabbit!Vertices |-> Rabbit!Strength(es[v])] /\ edges \in Graphs /\ es = Rabbit!AdjacencyList
    BY DEF Rabbit!Init
  <2>2. str \in [Rabbit!Vertices -> Int]
    BY <2>1, StrengthsNatural
  <2>3. /\ child \in [Rabbit!Vertices -> 0 .. RabbitN] /\ sibling \in [Rabbit!Vertices -> 0 .. RabbitN]
        /\ es = [v \in Rabbit!Vertices |-> es[v]]
    BY RabbitConstants DEF Rabbit!Init, Rabbit!AdjacencyList
  <2>4. ord \in [1 .. RabbitN -> Rabbit!Vertices] /\ \A i, j \in 1 .. RabbitN : i < j => ord[i] # ord[j]
    BY DEF Rabbit!Init, Rabbit!IsMergeOrder
  <2>5. \A j, k \in 1 .. RabbitN : ord[j] = ord[k] => j = k
    <3>1. \A j, k \in 1 .. RabbitN : j < k \/ k < j \/ j = k
      BY RabbitConstants
    <3> QED BY <2>4, <3>1
  <2> QED BY <2>2, <2>3, <2>4, <2>5 DEF RabbitTypes
<1>2. DOMAIN th = RabbitThreads
  BY DEF Rabbit!Init
<1>3. ASSUME NEW t \in RabbitThreads
      PROVE  /\ DOMAIN th[t] = Fields /\ th[t].queue = << >> /\ th[t].pends = << >>
             /\ th[t].i = t + 1 /\ th[t].vstr = -1 /\ th[t].pc = "loop" /\ th[t].part = "for"
  <2> DEFINE r == [part |-> "for", i |-> t + 1, queue |-> << >>, pends |-> << >>, tops |-> << >>]
  <2>1. th[t] = Rabbit!Set(Rabbit!Idle, r)
    BY DEF Rabbit!Init
  <2>2. /\ DOMAIN Rabbit!Idle = {"pc", "vstr", "nbrs", "src", "rest", "c", "u", "ua"}
        /\ Rabbit!Idle["pc"] = "loop" /\ Rabbit!Idle["vstr"] = -1
    BY DEF Rabbit!Idle
  <2>3. /\ DOMAIN r = {"part", "i", "queue", "pends", "tops"}
        /\ r["part"] = "for" /\ r["i"] = t + 1 /\ r["queue"] = << >> /\ r["pends"] = << >>
    OBVIOUS
  <2> HIDE DEF r
  <2> QED BY <2>1, <2>2, <2>3 DEF Rabbit!Set, Fields
<1>4. \A t \in RabbitThreads : t \in Nat
  BY RabbitConstants
<1>5. ASSUME NEW t \in RabbitThreads
      PROVE  Todo(t) = {ord[j] : j \in Turns(t + 1)}
  <2>1. Range(th[t].queue) = {} /\ Range(th[t].pends) = {}
    BY <1>3 DEF Range
  <2> QED BY <1>3, <2>1 DEF Todo, Later
<1>6. ASSUME NEW t \in RabbitThreads
      PROVE  ThreadType(t) /\ Once(t) /\ Open(t) /\ Control(t)
  <2>1. ThreadType(t)
    <3>1. t + 1 \in Nat \ {0} /\ -1 \in Int
      BY <1>4
    <3>2. << >> \in Seq(Rabbit!Vertices)
      OBVIOUS
    <3> QED BY <1>3, <3>1, <3>2 DEF ThreadType
  <2>2. Range(th[t].queue) = {} /\ Range(th[t].pends) = {} /\ DOMAIN th[t].queue = {} /\ DOMAIN th[t].pends = {}
    BY <1>3 DEF Range
  <2>3. Once(t)
    BY <2>2 DEF Once
  <2>4. \A v \in Rabbit!Vertices : str[v] \in Nat
    BY StrengthsNatural DEF Rabbit!Init
  <2>5. Later(t) \subseteq Rabbit!Vertices
    BY <1>1 DEF RabbitTypes, Later, Turns
  <2>6. Open(t)
    BY <2>2, <2>4, <2>5 DEF Open
  <2>7. Control(t)
    BY <1>3 DEF Control
  <2> QED BY <2>1, <2>3, <2>6, <2>7
<1>7. Apart
  <2> SUFFICES ASSUME NEW s \in RabbitThreads, NEW t \in RabbitThreads, s # t
               PROVE  Todo(s) \intersect Todo(t) = {}
    BY DEF Apart
  <2>1. Turns(s + 1) \intersect Turns(t + 1) = {}
    BY TurnsApart
  <2>2. Turns(s + 1) \subseteq 1 .. RabbitN /\ Turns(t + 1) \subseteq 1 .. RabbitN
    BY DEF Turns
  <2>3. \A j, k \in 1 .. RabbitN : ord[j] = ord[k] => j = k
    BY <1>1 DEF RabbitTypes
  <2> QED BY <1>5, <2>1, <2>2, <2>3
<1> QED BY <1>1, <1>2, <1>6, <1>7 DEF RabbitInv

\* Computing the permutation changes nothing the invariant speaks of.
LEMMA NothingHappens ==
  ASSUME RabbitInv, UNCHANGED <<ord, str, child, sibling, es, th>>
  PROVE  RabbitInv'
<1>1. RabbitTypes'
  BY DEF RabbitInv, RabbitTypes
<1>2. ASSUME NEW t \in RabbitThreads
      PROVE  ThreadType(t)' /\ Once(t)' /\ Open(t)' /\ Control(t)' /\ Todo(t)' = Todo(t)
  <2>1. ThreadType(t) /\ Once(t) /\ Open(t) /\ Control(t)
    BY DEF RabbitInv
  <2>2. Control(t)'
    BY <2>1 DEF Control
  <2> QED BY <2>1, <2>2, Kept, TodoType
<1>3. Apart'
  BY <1>2 DEF RabbitInv, Apart
<1> QED BY <1>1, <1>2, <1>3 DEF RabbitInv

\* However merges, rollbacks and retries of the threads of aggregate() interleave,
\* every vertex is in the hands of at most one thread, and its strength is
\* negative only if that thread has locked it or it is merged.
THEOREM RabbitInvariance == MCSpec => []RabbitIInv
<1>1. MCInit => RabbitIInv
  BY RabbitBegins DEF MCInit, RabbitIInv
<1>2. RabbitIInv /\ [MCNext]_all => RabbitIInv'
  <2> SUFFICES ASSUME RabbitIInv, [MCNext]_all, which' = "rabbit"  PROVE RabbitInv'
    BY DEF RabbitIInv
  <2>1. CASE ByRabbit /\ Rabbit!Next
    <3>1. RabbitInv
      BY <2>1 DEF RabbitIInv, ByRabbit
    <3>2. ASSUME NEW t \in RabbitThreads, Rabbit!Thread(t)
          PROVE  RabbitInv' /\ Spared(t)
      BY <3>1, <3>2, ThreadStep
    <3>3. CASE Rabbit!ComputePerm
      <4>1. UNCHANGED <<ord, str, child, sibling, es, th>>
        BY <3>3 DEF Rabbit!ComputePerm, Rabbit!shared
      <4> QED BY <3>1, <4>1, NothingHappens
    <3> QED BY <2>1, <3>2, <3>3 DEF Rabbit!Next
  <2>2. CASE Hub /\ Next
    BY <2>2 DEF Hub
  <2>3. CASE ByLeiden /\ Leiden!Next
    BY <2>3 DEF ByLeiden
  <2>4. CASE UNCHANGED all
    <3>1. UNCHANGED <<which, ord, str, child, sibling, es, th>>
      BY <2>4 DEF all, rabbit_vars
    <3> QED BY <3>1, NothingHappens DEF RabbitIInv
  <2> QED BY <2>1, <2>2, <2>3, <2>4 DEF MCNext
<1> QED BY <1>1, <1>2, PTL DEF MCSpec

\* What unite() reads of a merged vertex without a lock (strength, first child,
\* sibling and edges) is never written again, and the vertex stays merged.
THEOREM Frozen == MCSpec => [][ByRabbit => Rabbit!MergedIsFrozen]_all
<1>1. RabbitIInv /\ [MCNext]_all => [ByRabbit => Rabbit!MergedIsFrozen]_all
  <2> SUFFICES ASSUME RabbitIInv, MCNext, ByRabbit  PROVE Rabbit!MergedIsFrozen
    OBVIOUS
  <2>1. RabbitInv
    BY DEF RabbitIInv, ByRabbit
  <2> SUFFICES ASSUME NEW v \in Rabbit!Vertices, Rabbit!Merged(v)
               PROVE  Rabbit!Merged(v)' /\ UNCHANGED <<str[v], child[v], sibling[v], es[v]>>
    BY DEF Rabbit!MergedIsFrozen
  <2>2. Rabbit!Next
    BY DEF MCNext, Hub, ByRabbit, ByLeiden
  <2>3. str[v] < 0 /\ \A s \in RabbitThreads : th[s].queue # << >> /\ Rabbit!V(s) = v /\ th[s].pc # "loop" => th[s].pc = "com"
    BY DEF Rabbit!Merged, Rabbit!Merging
  <2>4. CASE Rabbit!ComputePerm
    <3>1. UNCHANGED <<str, child, sibling, es, th>>
      BY <2>4 DEF Rabbit!ComputePerm, Rabbit!shared
    <3> QED BY <2>3, <3>1 DEF Rabbit!Merged, Rabbit!Merging, Rabbit!V
  <2>5. ASSUME NEW t \in RabbitThreads, Rabbit!Thread(t)
        PROVE  Rabbit!Merged(v)' /\ UNCHANGED <<str[v], child[v], sibling[v], es[v]>>
    <3>1. /\ RabbitInv' /\ Spared(t)
          /\ \A s \in RabbitThreads : s # t => th'[s] = th[s]
          /\ th'[t].pc = "loop" \/ (th'[t].queue = th[t].queue /\ th[t].pc # "com")
      BY <2>1, <2>5, ThreadStep
    <3>2. ThreadType(t) /\ Open(t) /\ Control(t)
      BY <2>1 DEF RabbitInv
    <3>3. v # Rabbit!V(t) \/ th[t].pc \in {"loop", "com"}
      BY <2>3, <3>2 DEF Control
    <3>4. UNCHANGED <<str[v], child[v], sibling[v], es[v]>>
      BY <2>3, <3>1, <3>3 DEF Spared
    <3>5. ASSUME NEW s \in RabbitThreads, th'[s].queue # << >>, Rabbit!V(s)' = v, th'[s].pc # "loop"
          PROVE  th'[s].pc = "com"
      <4>1. CASE s # t
        <5>1. th'[s] = th[s]
          BY <3>1, <4>1
        <5> QED BY <2>3, <3>5, <5>1 DEF Rabbit!V
      <4>2. CASE s = t
        <5>1. th'[t].queue = th[t].queue /\ th[t].pc # "com"
          BY <3>1, <3>5, <4>2
        <5>2. th[t].queue # << >> /\ Rabbit!V(t) = v
          BY <3>5, <4>2, <5>1 DEF Rabbit!V
        <5>3. th[t].pc = "loop"
          BY <2>3, <5>1, <5>2
        <5>4. str[v] >= 0
          BY <3>2, <5>2, <5>3, HeadFacts DEF Open, Control
        <5> QED BY <2>3, <5>4, <2>1 DEF RabbitInv, RabbitTypes
      <4> QED BY <4>1, <4>2
    <3>6. str'[v] < 0
      BY <2>3, <3>4
    <3> QED BY <3>4, <3>5, <3>6 DEF Rabbit!Merged, Rabbit!Merging
  <2> QED BY <2>2, <2>4, <2>5 DEF Rabbit!Next
<1> QED BY <1>1, RabbitInvariance, PTL DEF MCSpec

-----------------------------------------------------------------------------
(***************************************************************************)
(* Leiden.  A thread has the vertices of its chunk to itself; the weight   *)
(* of a community counts each vertex once, in its community or under way.  *)
(* In the refinement every vertex comes once and begins alone, so that one *)
(* that is about to leave is where it began; whoever is there besides has  *)
(* come, and only vertices with edges, hence with a weight, move.          *)
(***************************************************************************)

Moving == {"leave", "restore", "join", "set"}
LeidenLocals ==
  [pc : {"idle", "test", "scan", "wake", "reset"} \union Moving, u : Nat, end : Nat,
   rest : SUBSET Leiden!Span, seen : SUBSET Leiden!Span, c : Leiden!Span]

\* The neighbours of u scanned, and the communities u may go to.
Near(u) == {v \in Leiden!Order : y_[u][v] > 0 /\ (Leiden!refining => vcob[v] = vcob[u])}
Fit(u) == {c \in Leiden!Order : vtot[u] > 0 /\ (Leiden!refining => vcob[c] = vcob[u])}

Weights == [Leiden!Span -> [Leiden!Span -> Nat]]

LeidenTypes ==
  /\ x_ \in Weights /\ y_ \in Weights /\ n_ \in 0 .. LeidenN /\ p_ \in Nat
  /\ vtot = Leiden!VertexWeights(y_)
  /\ vcom \in [Leiden!Span -> Leiden!Span] /\ \A u \in Leiden!Order : vcom[u] \in Leiden!Order
  /\ vcob \in [Leiden!Span -> Leiden!Span]
  /\ ctot \in [Leiden!Span -> Int]
  /\ ucom \in [Leiden!Span -> Leiden!Span]
  /\ mappings \in Seq([Leiden!Span -> Leiden!Span])
  /\ next \in Nat /\ l_phase \in {"move", "refine", "pass", "done"}
  /\ l_th \in [LeidenThreads -> LeidenLocals]

Worker(t) ==
  /\ l_th[t].pc # "idle" => /\ l_phase \in {"move", "refine"}
                            /\ l_th[t].u < l_th[t].end /\ l_th[t].end <= n_ /\ l_th[t].end <= next
  /\ l_th[t].pc \in {"test", "scan"} => l_th[t].rest \subseteq Near(l_th[t].u) /\ l_th[t].seen \subseteq Fit(l_th[t].u)
  /\ l_th[t].pc \in Moving => l_th[t].c \in Fit(l_th[t].u) \ {vcom[l_th[t].u]}
  /\ Leiden!refining /\ l_th[t].pc \in {"test", "scan"} \union Moving => vcom[l_th[t].u] = l_th[t].u

\* What is left of the chunk of t.
Share(t) == IF l_th[t].pc = "idle" THEN {} ELSE l_th[t].u .. (l_th[t].end - 1)

SharesApart == \A s, t \in LeidenThreads : s # t => Share(s) \intersect Share(t) = {}

\* The vertices whose turn is still to come, and those that have moved.
ToCome(v) == v >= next \/ \E t \in LeidenThreads : v \in Share(t) /\ v # l_th[t].u
Refining ==
  /\ Leiden!refining => \A v \in Leiden!Order : /\ ToCome(v) => vcom[v] = v
                                                /\ vcom[v] # v => vtot[v] > 0
  /\ l_phase \in {"refine", "pass"} => \A v \in Leiden!Order : vcob[vcom[v]] = vcob[v]

\* The vertices that count for community c where they are.
Inside(c) == {u \in Leiden!Order : vcom[u] = c} \ Leiden!Leaving(c)

Balance == \A c \in Leiden!Order : ctot[c] = SetSum(vtot, Inside(c)) + SetSum(vtot, Leiden!Arriving(c))

\* The vertices of the graph given that d stands for.
Stood(d) == Into(ucom, Leiden!Span, {d})
EdgesBetween(c, d) == SetSum([u \in Leiden!Span |-> SetSum(x_[u], Stood(d))], Stood(c))

Exact ==
  l_phase # "done" =>
    /\ \A u \in Leiden!Span : ucom[u] \in Leiden!Order
    /\ \A c, d \in Leiden!Order : y_[c][d] = EdgesBetween(c, d)

FirstPass == p_ = 0 => mappings = << >> /\ ucom = Leiden!Identity /\ n_ = LeidenN

Nested ==
  /\ \A i, j \in 1 .. Len(mappings) : i < j => Leiden!Coarser(mappings[i], mappings[j])
  /\ \A i \in 1 .. Len(mappings) : Leiden!Coarser(mappings[i], ucom)

LeidenInv ==
  /\ LeidenTypes
  /\ \A t \in LeidenThreads : Worker(t)
  /\ SharesApart /\ Refining /\ Balance /\ Exact /\ FirstPass /\ Nested

LeidenIInv == which = "leiden" => LeidenInv

\* The assumption on the constants, spelled out.
LEMMA LeidenConstants ==
  /\ LeidenN \in Nat \ {0} /\ Chunk \in Nat \ {0}
  /\ Leiden!Span = 0 .. (LeidenN - 1) /\ IsFiniteSet(Leiden!Span) /\ 0 \in Leiden!Span
  /\ LeidenInputs \subseteq Weights /\ Leiden!NoCommunity = 0
<1>1. LeidenN \in Nat \ {0} /\ Chunk \in Nat \ {0} /\ LeidenInputs \subseteq Weights
  BY OfLeiden DEF Leiden!LeidenAssumption, Weights
<1>2. IsFiniteSet(0 .. (LeidenN - 1))
  BY <1>1, FS_Interval
<1> QED BY <1>1, <1>2 DEF Leiden!Span, Leiden!NoCommunity

\* The vertices of a pass are some of those of the graph given.
LEMMA OrderFacts ==
  ASSUME n_ \in 0 .. LeidenN
  PROVE  /\ Leiden!Order = 0 .. (n_ - 1) /\ Leiden!Order \subseteq Leiden!Span
         /\ IsFiniteSet(Leiden!Order)
<1>1. Leiden!Order = 0 .. (n_ - 1) /\ Leiden!Order \subseteq Leiden!Span
  BY LeidenConstants DEF Leiden!Order
<1> QED BY <1>1, LeidenConstants, FS_Subset

\* The sums of the model are those of CommonFacts.
LEMMA LeidenSum == \A f, S : Leiden!Sum(f, S) = SetSum(f, S)
BY DEF Leiden!Sum, Leiden!FoldSet, Leiden!MapThenFoldSet, SetSum, OneOf

\* And its sizes of sets those of the library.
LEMMA LeidenSize == \A S : Leiden!Cardinality(S) = Cardinality(S)
BY DEF Leiden!Cardinality, Cardinality

\* The least element of a set of numbers.
LEMMA LeidenMin ==
  /\ \A S : S \subseteq Nat /\ S # {} => Leiden!Min(S) \in S
  /\ \A a, b \in Nat : Leiden!Min({a, b}) \in {a, b} /\ Leiden!Min({a, b}) <= a /\ Leiden!Min({a, b}) <= b
<1>1. ASSUME NEW S, S \subseteq Nat, S # {}
      PROVE  Leiden!Min(S) \in S /\ \A x \in S : Leiden!Min(S) <= x
  <2>1. PICK m \in S : \A x \in S : m <= x
    BY <1>1, LeastNumber
  <2> QED BY <2>1 DEF Leiden!Min
<1>2. ASSUME NEW a \in Nat, NEW b \in Nat
      PROVE  Leiden!Min({a, b}) \in {a, b} /\ Leiden!Min({a, b}) <= a /\ Leiden!Min({a, b}) <= b
  <2>1. {a, b} \subseteq Nat /\ {a, b} # {} /\ a \in {a, b} /\ b \in {a, b}
    OBVIOUS
  <2> HIDE DEF Leiden!Min
  <2> QED BY <1>1, <2>1
<1> QED BY <1>1, <1>2

\* The weight of a vertex is natural, and positive if it has an edge.
LEMMA VertexWeightsFacts ==
  ASSUME NEW g \in Weights
  PROVE  /\ Leiden!VertexWeights(g) \in [Leiden!Span -> Nat]
         /\ \A u, v \in Leiden!Span : g[u][v] > 0 => Leiden!VertexWeights(g)[u] > 0
<1>1. ASSUME NEW u \in Leiden!Span
      PROVE  /\ SetSum(g[u], Leiden!Span) \in Nat
             /\ \A v \in Leiden!Span : g[u][v] > 0 => SetSum(g[u], Leiden!Span) > 0
  <2>1. \A v \in Leiden!Span : g[u][v] \in Nat
    BY DEF Weights
  <2>2. SetSum(g[u], Leiden!Span) \in Nat
    BY <2>1, LeidenConstants, SetSumNat
  <2>3. ASSUME NEW v \in Leiden!Span, g[u][v] > 0  PROVE SetSum(g[u], Leiden!Span) > 0
    <3>1. IsFiniteSet(Leiden!Span \ {v}) /\ \A w \in Leiden!Span \ {v} : g[u][w] \in Nat
      BY <2>1, LeidenConstants, FS_Subset
    <3>2. SetSum(g[u], Leiden!Span \ {v}) \in Nat
      BY <3>1, SetSumNat
    <3>3. SetSum(g[u], Leiden!Span) = g[u][v] + SetSum(g[u], Leiden!Span \ {v})
      BY <2>1, LeidenConstants, SetSumFacts
    <3> QED BY <2>1, <2>3, <3>2, <3>3
  <2> QED BY <2>2, <2>3
<1>2. \A u \in Leiden!Span : Leiden!VertexWeights(g)[u] = SetSum(g[u], Leiden!Span)
  BY LeidenSum DEF Leiden!VertexWeights
<1>3. DOMAIN Leiden!VertexWeights(g) = Leiden!Span /\ Leiden!VertexWeights(g) = [u \in Leiden!Span |-> Leiden!VertexWeights(g)[u]]
  BY DEF Leiden!VertexWeights
<1> QED BY <1>1, <1>2, <1>3

-----------------------------------------------------------------------------
(* A step of a thread. *)

\* What a thread never changes, and what of the rest only its own vertex has to do with.
Frame(t) ==
  /\ UNCHANGED <<x_, y_, n_, p_, vtot, l_phase, vcob, ucom, mappings>>
  /\ \A s \in LeidenThreads : s # t => l_th'[s] = l_th[s]
  /\ next' \in Nat /\ next' >= next
  /\ \A v \in Leiden!Span : v # l_th[t].u => vcom'[v] = vcom[v]
  /\ vcom' = vcom \/ (l_th[t].pc = "set" /\ l_th'[t].u = l_th[t].u /\ vcom'[l_th[t].u] = l_th[t].c)
  /\ \A v \in Share(t)' : v \in Share(t) \/ (v >= next /\ v < next')
  /\ \A v \in Share(t)' : v # l_th'[t].u => v >= next \/ (v \in Share(t) /\ v # l_th[t].u)

\* The vertex of a thread that is not idle is one of this pass, and in its share.
LEMMA OwnVertex ==
  ASSUME LeidenInv, NEW t \in LeidenThreads, l_th[t].pc # "idle"
  PROVE  /\ l_th[t].u \in Leiden!Order /\ l_th[t].u \in Share(t) /\ l_th[t].u < next
         /\ l_phase \in {"move", "refine"}
<1>1. /\ l_th[t].u \in Nat /\ l_th[t].end \in Nat
      /\ l_th[t].u < l_th[t].end /\ l_th[t].end <= n_ /\ l_th[t].end <= next
      /\ l_phase \in {"move", "refine"} /\ n_ \in 0 .. LeidenN /\ next \in Nat
  BY DEF LeidenInv, LeidenTypes, LeidenLocals, Worker
<1> QED BY <1>1, OrderFacts, LeidenConstants DEF Share

\* Two threads are at different vertices, and none is at another one's.
LEMMA Distinct ==
  ASSUME LeidenInv, NEW t \in LeidenThreads, NEW s \in LeidenThreads, s # t, l_th[t].pc # "idle"
  PROVE  l_th[t].u \notin Share(s) /\ (l_th[s].pc # "idle" => l_th[s].u # l_th[t].u)
<1>1. l_th[t].u \in Share(t)
  BY OwnVertex
<1>2. Share(s) \intersect Share(t) = {}
  BY DEF LeidenInv, SharesApart
<1>3. l_th[s].pc # "idle" => l_th[s].u \in Share(s)
  BY OwnVertex
<1> QED BY <1>1, <1>2, <1>3

\* While a graph and its bounds stay, so do the sets defined by them.
LEMMA GraphStays ==
  ASSUME UNCHANGED <<y_, n_, vtot, l_phase, vcob>>
  PROVE  /\ Leiden!Order' = Leiden!Order /\ (Leiden!refining' <=> Leiden!refining)
         /\ \A u : Near(u)' = Near(u) /\ Fit(u)' = Fit(u)
<1>1. Leiden!Order' = Leiden!Order /\ (Leiden!refining' <=> Leiden!refining)
  BY DEF Leiden!Order, Leiden!refining
<1>2. ASSUME NEW u  PROVE Near(u)' = Near(u) /\ Fit(u)' = Fit(u)
  BY <1>1 DEF Near, Fit
<1> QED BY <1>1, <1>2

\* The other threads go on as before.
LEMMA OthersWork ==
  ASSUME LeidenInv, NEW t \in LeidenThreads, Frame(t), NEW s \in LeidenThreads, s # t
  PROVE  Worker(s)' /\ Share(s)' = Share(s)
<1>1. l_th'[s] = l_th[s]
  BY DEF Frame
<1>2. Share(s)' = Share(s)
  BY <1>1 DEF Share
<1>3. l_th[s].pc # "idle" => vcom'[l_th[s].u] = vcom[l_th[s].u]
  <2> SUFFICES ASSUME l_th[s].pc # "idle"  PROVE vcom'[l_th[s].u] = vcom[l_th[s].u]
    OBVIOUS
  <2>1. l_th[s].u \in Leiden!Span
    BY OwnVertex, OrderFacts DEF LeidenInv, LeidenTypes
  <2>2. CASE vcom' = vcom
    BY <2>2
  <2>3. CASE vcom' # vcom
    <3>1. l_th[t].pc # "idle"
      BY <2>3 DEF Frame
    <3>2. l_th[s].u # l_th[t].u
      BY <3>1, Distinct
    <3> QED BY <2>1, <3>2 DEF Frame
  <2> QED BY <2>2, <2>3
<1>4. /\ Leiden!Order' = Leiden!Order /\ (Leiden!refining' <=> Leiden!refining)
      /\ \A u : Near(u)' = Near(u) /\ Fit(u)' = Fit(u)
  BY GraphStays DEF Frame
<1>5. Worker(s)
  BY DEF LeidenInv
<1>6. n_' = n_ /\ next' >= next /\ next' \in Nat /\ next \in Nat /\ l_phase' = l_phase /\ l_th[s].end \in Nat
  BY DEF Frame, LeidenInv, LeidenTypes, LeidenLocals
<1>7. Worker(s)'
  BY <1>1, <1>3, <1>4, <1>5, <1>6 DEF Worker, Moving
<1> QED BY <1>2, <1>7

LEMMA SharesStayApart ==
  ASSUME LeidenInv, NEW t \in LeidenThreads, Frame(t)
  PROVE  SharesApart'
<1>1. \A s \in LeidenThreads : s # t => Share(s)' = Share(s)
  BY OthersWork
<1>2. \A s \in LeidenThreads : \A v \in Share(s) : v < next
  <2> SUFFICES ASSUME NEW s \in LeidenThreads, NEW v \in Share(s)  PROVE v < next
    OBVIOUS
  <2>1. l_th[s].pc # "idle" /\ v \in l_th[s].u .. (l_th[s].end - 1)
    BY DEF Share
  <2> QED BY <2>1 DEF LeidenInv, LeidenTypes, LeidenLocals, Worker
<1>3. ASSUME NEW s \in LeidenThreads, s # t  PROVE Share(s)' \intersect Share(t)' = {}
  <2>1. Share(s) \intersect Share(t) = {}
    BY <1>3 DEF LeidenInv, SharesApart
  <2>2. \A v \in Share(s) : v < next /\ v \in Int
    BY <1>2 DEF Share
  <2>3. \A v \in Share(t)' : v \in Share(t) \/ v >= next
    BY DEF Frame
  <2>4. next \in Nat
    BY DEF LeidenInv, LeidenTypes
  <2> QED BY <1>1, <1>3, <2>1, <2>2, <2>3, <2>4
<1>4. \A r, s \in LeidenThreads : r # s /\ r # t /\ s # t => Share(r)' \intersect Share(s)' = {}
  BY <1>1 DEF LeidenInv, SharesApart
<1>5. ASSUME NEW r \in LeidenThreads, NEW s \in LeidenThreads, r # s
      PROVE  Share(r)' \intersect Share(s)' = {}
  BY <1>3, <1>4, <1>5
<1> QED BY <1>5 DEF SharesApart

LEMMA RefiningStays ==
  ASSUME LeidenInv, NEW t \in LeidenThreads, Frame(t), LeidenTypes'
  PROVE  Refining'
<1>1. Leiden!Order' = Leiden!Order /\ (Leiden!refining' <=> Leiden!refining)
  BY GraphStays DEF Frame
<1>2. UNCHANGED <<vtot, vcob, l_phase>>
  BY DEF Frame
<1>3. Leiden!Order \subseteq Leiden!Span /\ \A v \in Leiden!Order : v \in Nat
  BY OrderFacts DEF LeidenInv, LeidenTypes
<1>4. ASSUME NEW v \in Leiden!Order, ToCome(v)'  PROVE ToCome(v)
  <2>1. v \in Nat /\ next \in Nat /\ next' \in Nat /\ next' >= next
    BY <1>3 DEF LeidenInv, LeidenTypes, Frame
  <2>2. CASE v >= next'
    BY <2>1, <2>2 DEF ToCome
  <2>3. ASSUME NEW s \in LeidenThreads, v \in Share(s)', v # l_th'[s].u  PROVE ToCome(v)
    <3>1. CASE s = t
      BY <2>3, <3>1 DEF Frame, ToCome
    <3>2. CASE s # t
      <4>1. Share(s)' = Share(s) /\ l_th'[s] = l_th[s]
        BY <3>2, OthersWork DEF Frame
      <4> QED BY <2>3, <4>1 DEF ToCome
    <3> QED BY <3>1, <3>2
  <2> QED BY <1>4, <2>2, <2>3 DEF ToCome
<1>0. PICK u : u = l_th[t].u
  OBVIOUS
<1>5. ASSUME vcom' # vcom
      PROVE  /\ u \in Leiden!Order /\ ~ ToCome(u)' /\ vtot[u] > 0
             /\ Leiden!refining => vcob[vcom'[u]] = vcob[u]
             /\ l_phase \in {"move", "refine"}
  <2>1. l_th[t].pc = "set" /\ l_th'[t].u = u /\ vcom'[u] = l_th[t].c
    BY <1>0, <1>5 DEF Frame
  <2>2. u \in Leiden!Order /\ u \in Share(t) /\ u < next /\ l_phase \in {"move", "refine"}
    BY <1>0, <2>1, OwnVertex
  <2>3. l_th[t].c \in Fit(u)
    BY <1>0, <2>1 DEF LeidenInv, Worker, Moving
  <2>4. vtot[u] > 0 /\ (Leiden!refining => vcob[vcom'[u]] = vcob[u])
    BY <2>1, <2>3 DEF Fit
  <2>5. ASSUME NEW s \in LeidenThreads, u \in Share(s)'  PROVE u = l_th'[s].u
    <3>1. s # t => u \notin Share(s) /\ Share(s)' = Share(s)
      BY <1>0, <2>1, Distinct, OthersWork
    <3> QED BY <2>1, <2>5, <3>1
  <2>6. next \in Nat /\ next' \in Nat /\ next' >= next /\ u \in Nat
    BY <1>3, <2>2 DEF LeidenInv, LeidenTypes, Frame
  <2>7. ~ ToCome(u)'
    BY <2>2, <2>5, <2>6 DEF ToCome
  <2> QED BY <2>2, <2>4, <2>7
<1>6. \A v \in Leiden!Span : v # u => vcom'[v] = vcom[v]
  BY <1>0 DEF Frame
<1>7. Leiden!refining => \A v \in Leiden!Order : /\ ToCome(v)' => vcom'[v] = v
                                                 /\ vcom'[v] # v => vtot[v] > 0
  <2> SUFFICES ASSUME Leiden!refining, NEW v \in Leiden!Order
               PROVE  /\ ToCome(v)' => vcom'[v] = v
                      /\ vcom'[v] # v => vtot[v] > 0
    OBVIOUS
  <2>1. (ToCome(v) => vcom[v] = v) /\ (vcom[v] # v => vtot[v] > 0)
    BY DEF LeidenInv, Refining
  <2>2. CASE vcom'[v] = vcom[v]
    BY <1>4, <2>1, <2>2
  <2>3. CASE vcom'[v] # vcom[v]
    <3>1. v = u /\ vcom' # vcom
      BY <1>3, <1>6, <2>3
    <3> QED BY <1>5, <3>1
  <2> QED BY <2>2, <2>3
<1>8. l_phase \in {"refine", "pass"} => \A v \in Leiden!Order : vcob[vcom'[v]] = vcob[v]
  <2> SUFFICES ASSUME l_phase \in {"refine", "pass"}, NEW v \in Leiden!Order
               PROVE  vcob[vcom'[v]] = vcob[v]
    OBVIOUS
  <2>1. vcob[vcom[v]] = vcob[v]
    BY DEF LeidenInv, Refining
  <2>2. CASE vcom'[v] = vcom[v]
    BY <2>1, <2>2
  <2>3. CASE vcom'[v] # vcom[v]
    <3>1. v = u /\ vcom' # vcom
      BY <1>3, <1>6, <2>3
    <3>2. Leiden!refining
      BY <1>5, <3>1 DEF Leiden!refining
    <3> QED BY <1>5, <3>1, <3>2
  <2> QED BY <2>2, <2>3
<1> QED BY <1>1, <1>2, <1>7, <1>8 DEF Refining

\* What the passes have found so far.
LEMMA HistoryStays ==
  ASSUME Exact, FirstPass, Nested, UNCHANGED <<x_, y_, n_, p_, l_phase, ucom, mappings>>
  PROVE  Exact' /\ FirstPass' /\ Nested'
<1>1. Leiden!Order' = Leiden!Order
  BY DEF Leiden!Order
<1>2. \A d : Stood(d)' = Stood(d)
  BY DEF Stood
<1>3. \A c, d : EdgesBetween(c, d)' = EdgesBetween(c, d)
  BY <1>2 DEF EdgesBetween
<1>4. Exact'
  BY <1>1, <1>3 DEF Exact
<1> QED BY <1>4 DEF FirstPass, Nested

\* The invariant after a step of t, put together from what the step does to t.
LEMMA LeidenThreadByThread ==
  ASSUME LeidenInv, NEW t \in LeidenThreads, Frame(t), LeidenTypes', Worker(t)', Balance'
  PROVE  LeidenInv'
<1>1. \A s \in LeidenThreads : Worker(s)'
  BY OthersWork
<1>2. Exact' /\ FirstPass' /\ Nested'
  BY HistoryStays DEF Frame, LeidenInv
<1> QED BY <1>1, <1>2, SharesStayApart, RefiningStays DEF LeidenInv

\* The vertices between two communities.
Underway == {"restore", "join", "set"}

\* The locals of t are r, those of the others stay.
Takes(t, r) ==
  /\ r \in LeidenLocals /\ l_th'[t] = r /\ l_th' \in [LeidenThreads -> LeidenLocals]
  /\ \A s \in LeidenThreads : s # t => l_th'[s] = l_th[s]

LEMMA LocalStep ==
  ASSUME LeidenTypes, NEW t \in LeidenThreads, NEW r \in LeidenLocals, Leiden!Local(t, r)
  PROVE  Takes(t, r)
BY DEF Takes, Leiden!Local, LeidenTypes

\* A step that takes no vertex out of a community or into one.
LEMMA StillBalanced ==
  ASSUME LeidenInv, NEW t \in LeidenThreads, NEW r, Takes(t, r),
         l_th[t].pc \notin Underway, r.pc \notin Underway,
         UNCHANGED <<n_, vtot, vcom, ctot>>
  PROVE  Balance'
<1>1. Leiden!Order' = Leiden!Order
  BY DEF Leiden!Order
<1>2. \A s \in LeidenThreads : s = t \/ l_th'[s] = l_th[s]
  BY DEF Takes
<1>3. \A s \in LeidenThreads :
        /\ l_th'[s].pc \in Underway => l_th[s].pc \in Underway /\ l_th'[s] = l_th[s]
        /\ l_th[s].pc \in Underway => l_th'[s].pc \in Underway /\ l_th'[s] = l_th[s]
  BY <1>2 DEF Takes
<1>4. ASSUME NEW c  PROVE Leiden!Leaving(c)' = Leiden!Leaving(c) /\ Leiden!Arriving(c)' = Leiden!Arriving(c)
  BY <1>1, <1>3 DEF Leiden!Leaving, Leiden!Arriving, Underway
<1>5. ASSUME NEW c  PROVE Inside(c)' = Inside(c)
  BY <1>1, <1>4 DEF Inside
<1> QED BY <1>1, <1>4, <1>5 DEF Balance, LeidenInv

\* The invariant after such a step.
LEMMA QuietStep ==
  ASSUME LeidenInv, NEW t \in LeidenThreads, NEW r, Takes(t, r),
         l_th[t].pc \notin Underway, r.pc \notin Underway,
         UNCHANGED <<x_, y_, n_, p_, vtot, l_phase, vcob, ucom, mappings, vcom, ctot>>,
         next' \in Nat, next' >= next,
         \A v \in Share(t)' : v \in Share(t) \/ (v >= next /\ v < next'),
         \A v \in Share(t)' : v # r.u => v >= next \/ (v \in Share(t) /\ v # l_th[t].u),
         Worker(t)'
  PROVE  LeidenInv'
<1>1. Frame(t)
  BY DEF Frame, Takes
<1>2. Leiden!Order' = Leiden!Order
  BY DEF Leiden!Order
<1>3. Leiden!VertexWeights(y_)' = Leiden!VertexWeights(y_)
  BY DEF Leiden!VertexWeights
<1>4. LeidenTypes'
  BY <1>2, <1>3 DEF LeidenInv, LeidenTypes, Takes
<1> QED BY <1>1, <1>4, StillBalanced, LeidenThreadByThread

\* A step at the same vertex.
LEMMA SameVertex ==
  ASSUME LeidenInv, NEW t \in LeidenThreads, NEW r, Takes(t, r),
         l_th[t].pc # "idle", r.pc # "idle", r.u = l_th[t].u, r.end = l_th[t].end
  PROVE  /\ Share(t)' = Share(t)
         /\ \A v \in Share(t)' : v \in Share(t) \/ (v >= next /\ v < next')
         /\ \A v \in Share(t)' : v # r.u => v >= next \/ (v \in Share(t) /\ v # l_th[t].u)
BY DEF Takes, Share

\* Going on to the next vertex of the chunk, or to the next chunk.
LEMMA Advances ==
  ASSUME LeidenInv, NEW t \in LeidenThreads, l_th[t].pc # "idle", l_th[t].pc \notin Underway,
         Leiden!Advance(t),
         UNCHANGED <<x_, y_, n_, p_, vtot, l_phase, vcob, ucom, mappings, vcom, ctot, next>>
  PROVE  LeidenInv'
<1>1. /\ l_th[t].u \in Nat /\ l_th[t].end \in Nat /\ next \in Nat
      /\ l_th[t].u < l_th[t].end /\ l_th[t].end <= n_ /\ l_th[t].end <= next
      /\ l_phase \in {"move", "refine"} /\ n_ \in 0 .. LeidenN
  BY DEF LeidenInv, LeidenTypes, LeidenLocals, Worker
<1>2. CASE l_th[t].u + 1 < l_th[t].end
  <2>0. PICK i, r : i = Leiden!Idle /\ r = [i EXCEPT !.pc = "test", !.u = l_th[t].u + 1, !.end = l_th[t].end]
    OBVIOUS
  <2>1. r.pc = "test" /\ r.u = l_th[t].u + 1 /\ r.end = l_th[t].end /\ r \in LeidenLocals
    <3>1. i \in LeidenLocals
      BY <2>0, LeidenConstants DEF Leiden!Idle, LeidenLocals
    <3>2. l_th[t].u + 1 \in Nat
      BY <1>1
    <3> QED BY <1>1, <2>0, <3>1, <3>2 DEF LeidenLocals
  <2>11. r.rest = {} /\ r.seen = {}
    BY <2>0 DEF Leiden!Idle
  <2>2. Leiden!Local(t, r)
    BY <1>2, <2>0 DEF Leiden!Advance
  <2>3. Takes(t, r)
    BY <2>1, <2>2, LocalStep DEF LeidenInv
  <2>4. Share(t)' = r.u .. (r.end - 1) /\ Share(t) = l_th[t].u .. (l_th[t].end - 1)
    BY <2>1, <2>3 DEF Share, Takes
  <2>5. \A v \in Share(t)' : v \in Share(t) /\ v # l_th[t].u
    BY <1>1, <2>1, <2>4
  <2>6. r.u \in Leiden!Order /\ ToCome(r.u)
    BY <1>1, <1>2, <2>1, <2>4, <2>5, OrderFacts DEF ToCome
  <2>7. Leiden!refining => vcom[r.u] = r.u
    BY <2>6 DEF LeidenInv, Refining
  <2>8. Worker(t)'
    <3>1. l_th'[t] = r
      BY <2>3 DEF Takes
    <3>2. Leiden!refining' <=> Leiden!refining
      BY DEF Leiden!refining
    <3> QED BY <1>1, <1>2, <2>1, <2>7, <2>11, <3>1, <3>2 DEF Worker, Moving
  <2>9. r.pc \notin Underway
    BY <2>1 DEF Underway
  <2>10. next' \in Nat /\ next' >= next
    BY <1>1
  <2> QED BY <2>3, <2>5, <2>8, <2>9, <2>10, QuietStep
<1>3. CASE ~ (l_th[t].u + 1 < l_th[t].end)
  <2>1. Leiden!Idle \in LeidenLocals /\ Leiden!Idle.pc = "idle"
    BY LeidenConstants DEF Leiden!Idle, LeidenLocals
  <2>2. Takes(t, Leiden!Idle)
    BY <1>3, <2>1, LocalStep DEF Leiden!Advance, LeidenInv
  <2>3. l_th'[t].pc = "idle"
    BY <2>1, <2>2 DEF Takes
  <2>4. Share(t)' = {} /\ Worker(t)'
    BY <2>3 DEF Share, Worker, Moving
  <2>5. Leiden!Idle.pc \notin Underway /\ next' \in Nat /\ next' >= next
    BY <1>1, <2>1 DEF Underway
  <2> QED BY <2>2, <2>4, <2>5, QuietStep
<1> QED BY <1>2, <1>3

LEMMA TakeChunkStep ==
  ASSUME LeidenInv, NEW t \in LeidenThreads, Leiden!TakeChunk(t)
  PROVE  LeidenInv'
<1>1. /\ n_ \in 0 .. LeidenN /\ next \in Nat /\ Chunk \in Nat \ {0} /\ next < n_
      /\ l_phase \in {"move", "refine"} /\ l_th[t].pc = "idle" /\ next' = next + Chunk
      /\ UNCHANGED <<x_, y_, n_, p_, vtot, l_phase, vcob, ucom, mappings, vcom, ctot>>
  BY LeidenConstants DEF LeidenInv, LeidenTypes, Leiden!TakeChunk, Leiden!graph, Leiden!passes
<1>2. PICK end : end = Leiden!Min({next + Chunk, n_})
  OBVIOUS
<1>3. end \in Nat /\ next < end /\ end <= n_ /\ end <= next + Chunk
  <2>1. next + Chunk \in Nat /\ n_ \in Nat
    BY <1>1
  <2>2. end \in {next + Chunk, n_} /\ end <= next + Chunk /\ end <= n_
    BY <1>2, <2>1, LeidenMin
  <2> QED BY <1>1, <2>1, <2>2
<1>4. PICK i, r : i = Leiden!Idle /\ r = [i EXCEPT !.pc = "test", !.u = next, !.end = end]
  OBVIOUS
<1>5. r.pc = "test" /\ r.u = next /\ r.end = end /\ r \in LeidenLocals
  <2>1. i \in LeidenLocals
    BY <1>4, LeidenConstants DEF Leiden!Idle, LeidenLocals
  <2> QED BY <1>1, <1>3, <1>4, <2>1 DEF LeidenLocals
<1>6. r.rest = {} /\ r.seen = {}
  BY <1>4 DEF Leiden!Idle
<1>7. Takes(t, r)
  BY <1>2, <1>4, <1>5, LocalStep DEF LeidenInv, Leiden!TakeChunk
<1>8. l_th'[t] = r
  BY <1>7 DEF Takes
<1>9. Share(t)' = next .. (end - 1)
  BY <1>5, <1>8 DEF Share
<1>10. \A v \in Share(t)' : v >= next /\ v < next'
  BY <1>1, <1>3, <1>9
<1>11. Leiden!refining => vcom[next] = next
  <2>1. next \in Leiden!Order /\ ToCome(next)
    BY <1>1, OrderFacts DEF ToCome
  <2> QED BY <2>1 DEF LeidenInv, Refining
<1>12. Worker(t)'
  <2>1. Leiden!refining' <=> Leiden!refining
    BY <1>1 DEF Leiden!refining
  <2> QED BY <1>1, <1>3, <1>5, <1>6, <1>8, <1>11, <2>1 DEF Worker, Moving
<1>13. r.pc \notin Underway /\ l_th[t].pc \notin Underway /\ next' \in Nat /\ next' >= next
  BY <1>1, <1>5 DEF Underway
<1> QED BY <1>1, <1>7, <1>10, <1>12, <1>13, QuietStep

\* A step of a thread at its vertex, of which no community is the wiser.
LEMMA StepAtVertex ==
  ASSUME LeidenInv, NEW t \in LeidenThreads, NEW r \in LeidenLocals, Leiden!Local(t, r),
         l_th[t].pc # "idle", l_th[t].pc \notin Underway, r.pc \notin Underway, r.pc # "idle",
         r.u = l_th[t].u, r.end = l_th[t].end,
         UNCHANGED <<x_, y_, n_, p_, vtot, l_phase, vcob, ucom, mappings, vcom, ctot, next>>,
         r.pc \in {"test", "scan"} => r.rest \subseteq Near(r.u) /\ r.seen \subseteq Fit(r.u),
         r.pc \in Moving => r.c \in Fit(r.u) \ {vcom[r.u]},
         Leiden!refining /\ r.pc \in {"test", "scan"} \union Moving => vcom[r.u] = r.u
  PROVE  LeidenInv'
<1>1. Takes(t, r)
  BY LocalStep DEF LeidenInv
<1>2. l_th'[t] = r
  BY <1>1 DEF Takes
<1>3. /\ (Leiden!refining' <=> Leiden!refining)
      /\ \A u : Near(u)' = Near(u) /\ Fit(u)' = Fit(u)
  BY GraphStays
<1>4. Worker(t)
  BY DEF LeidenInv
<1>5. Worker(t)'
  BY <1>2, <1>3, <1>4 DEF Worker
<1>6. next' \in Nat /\ next' >= next
  BY DEF LeidenInv, LeidenTypes
<1> QED BY <1>1, <1>5, <1>6, SameVertex, QuietStep

LEMMA TestStep ==
  ASSUME LeidenInv, NEW t \in LeidenThreads, Leiden!Test(t)
  PROVE  LeidenInv'
<1>1. /\ l_th[t].pc = "test"
      /\ UNCHANGED <<x_, y_, n_, p_, vtot, l_phase, vcob, ucom, mappings, vcom, ctot, next>>
  BY DEF Leiden!Test, Leiden!graph, Leiden!passes
<1>2. l_th[t].pc # "idle" /\ l_th[t].pc \notin Underway
  BY <1>1 DEF Underway
<1>3. CASE Leiden!Advance(t)
  BY <1>1, <1>2, <1>3, Advances
<1>4. CASE ~ Leiden!Advance(t)
  <2>1. PICK r : r = [l_th[t] EXCEPT !.pc = "scan", !.rest = Leiden!Scanned(l_th[t].u)]
    OBVIOUS
  <2>2. Leiden!Local(t, r)
    BY <1>4, <2>1 DEF Leiden!Test
  <2>3. Leiden!Scanned(l_th[t].u) \subseteq Near(l_th[t].u) /\ Leiden!Scanned(l_th[t].u) \subseteq Leiden!Span
    BY OrderFacts DEF Leiden!Scanned, Near, LeidenInv, LeidenTypes
  <2>4. /\ r \in LeidenLocals /\ r.pc = "scan" /\ r.u = l_th[t].u /\ r.end = l_th[t].end
        /\ r.rest = Leiden!Scanned(l_th[t].u) /\ r.seen = l_th[t].seen
    BY <2>1, <2>3 DEF LeidenInv, LeidenTypes, LeidenLocals
  <2>5. /\ r.rest \subseteq Near(r.u) /\ r.seen \subseteq Fit(r.u)
        /\ Leiden!refining => vcom[r.u] = r.u
    BY <1>1, <2>3, <2>4 DEF LeidenInv, Worker
  <2>6. r.pc \notin Underway /\ r.pc # "idle" /\ r.pc \notin Moving
    BY <2>4 DEF Underway, Moving
  <2> QED BY <1>1, <1>2, <2>2, <2>4, <2>5, <2>6, StepAtVertex
<1> QED BY <1>3, <1>4

LEMMA ScanStep ==
  ASSUME LeidenInv, NEW t \in LeidenThreads, Leiden!Scan(t)
  PROVE  LeidenInv'
<1>1. /\ l_th[t].pc = "scan" /\ l_th[t].rest # {}
      /\ UNCHANGED <<x_, y_, n_, p_, vtot, l_phase, vcob, ucom, mappings, vcom, ctot, next>>
  BY DEF Leiden!Scan, Leiden!graph, Leiden!passes
<1>2. l_th[t].pc # "idle" /\ l_th[t].pc \notin Underway
  BY <1>1 DEF Underway
<1>3. PICK v : v = Leiden!Min(l_th[t].rest)
  OBVIOUS
<1>4. /\ l_th[t].u \in Leiden!Order /\ Leiden!Order \subseteq Leiden!Span /\ Leiden!Span \subseteq Nat
      /\ l_th[t].rest \subseteq Leiden!Span /\ l_th[t].seen \subseteq Leiden!Span
  <2>1. n_ \in 0 .. LeidenN /\ l_th[t] \in LeidenLocals
    BY DEF LeidenInv, LeidenTypes
  <2>2. Leiden!Order \subseteq Leiden!Span /\ Leiden!Span \subseteq Nat
    BY <2>1, OrderFacts, LeidenConstants
  <2> QED BY <1>2, <2>1, <2>2, OwnVertex DEF LeidenLocals
<1>5. /\ l_th[t].rest \subseteq Near(l_th[t].u) /\ l_th[t].seen \subseteq Fit(l_th[t].u)
      /\ Leiden!refining => vcom[l_th[t].u] = l_th[t].u
  BY <1>1 DEF LeidenInv, Worker
<1>6. v \in Near(l_th[t].u)
  BY <1>1, <1>3, <1>4, <1>5, LeidenMin
<1>7. vcom[v] \in Fit(l_th[t].u) /\ vcom[v] \in Leiden!Span
  <2>1. v \in Leiden!Order /\ y_[l_th[t].u][v] > 0 /\ (Leiden!refining => vcob[v] = vcob[l_th[t].u])
    BY <1>6 DEF Near
  <2>2. vcom[v] \in Leiden!Order
    BY <2>1 DEF LeidenInv, LeidenTypes
  <2>3. vtot[l_th[t].u] > 0
    BY <1>4, <2>1, VertexWeightsFacts DEF LeidenInv, LeidenTypes
  <2>4. Leiden!refining => vcob[vcom[v]] = vcob[v]
    BY <2>1 DEF LeidenInv, Refining, Leiden!refining
  <2> QED BY <1>4, <2>1, <2>2, <2>3, <2>4 DEF Fit
<1>8. PICK r : r = [l_th[t] EXCEPT !.rest = l_th[t].rest \ {v}, !.seen = l_th[t].seen \union {vcom[v]}]
  OBVIOUS
<1>9. Leiden!Local(t, r)
  BY <1>3, <1>8 DEF Leiden!Scan
<1>10. /\ r \in LeidenLocals /\ r.pc = "scan" /\ r.u = l_th[t].u /\ r.end = l_th[t].end
       /\ r.rest = l_th[t].rest \ {v} /\ r.seen = l_th[t].seen \union {vcom[v]}
  BY <1>1, <1>4, <1>7, <1>8 DEF LeidenInv, LeidenTypes, LeidenLocals
<1>11. /\ r.rest \subseteq Near(r.u) /\ r.seen \subseteq Fit(r.u)
       /\ Leiden!refining => vcom[r.u] = r.u
  BY <1>5, <1>7, <1>10
<1>12. r.pc \notin Underway /\ r.pc # "idle" /\ r.pc \notin Moving
  BY <1>10 DEF Underway, Moving
<1> QED BY <1>1, <1>2, <1>9, <1>10, <1>11, <1>12, StepAtVertex

\* To go on at the same vertex and keep the other locals.
LEMMA GotoStep ==
  ASSUME LeidenInv, NEW t \in LeidenThreads, NEW to \in {"wake", "reset"} \union Moving, Leiden!Goto(t, to)
  PROVE  \E r \in LeidenLocals : /\ Leiden!Local(t, r) /\ Takes(t, r)
                                 /\ r.pc = to /\ r.u = l_th[t].u /\ r.end = l_th[t].end /\ r.c = l_th[t].c
<1>1. PICK r : r = [l_th[t] EXCEPT !.pc = to]
  OBVIOUS
<1>2. Leiden!Local(t, r)
  BY <1>1 DEF Leiden!Goto
<1>3. r \in LeidenLocals /\ r.pc = to /\ r.u = l_th[t].u /\ r.end = l_th[t].end /\ r.c = l_th[t].c
  BY <1>1 DEF LeidenInv, LeidenTypes, LeidenLocals
<1>4. Takes(t, r)
  BY <1>2, <1>3, LocalStep DEF LeidenInv
<1> QED BY <1>2, <1>3, <1>4

\* To be done with a vertex without anything to be said of it.
LEMMA GotoReset ==
  ASSUME LeidenInv, NEW t \in LeidenThreads, NEW r \in LeidenLocals, Leiden!Local(t, r),
         l_th[t].pc # "idle", l_th[t].pc \notin Underway,
         r.pc = "reset", r.u = l_th[t].u, r.end = l_th[t].end,
         UNCHANGED <<x_, y_, n_, p_, vtot, l_phase, vcob, ucom, mappings, vcom, ctot, next>>
  PROVE  LeidenInv'
<1>1. r.pc \notin Underway /\ r.pc # "idle" /\ r.pc \notin Moving /\ r.pc \notin {"test", "scan"}
  BY DEF Underway, Moving
<1> QED BY <1>1, StepAtVertex

LEMMA ChooseStep ==
  ASSUME LeidenInv, NEW t \in LeidenThreads, Leiden!Choose(t)
  PROVE  LeidenInv'
<1>1. /\ l_th[t].pc = "scan"
      /\ UNCHANGED <<x_, y_, n_, p_, vtot, l_phase, vcob, ucom, mappings, vcom, ctot, next>>
  BY DEF Leiden!Choose, Leiden!graph, Leiden!passes
<1>2. l_th[t].pc # "idle" /\ l_th[t].pc \notin Underway
  BY <1>1 DEF Underway
<1>3. CASE Leiden!Goto(t, "reset")
  BY <1>1, <1>2, <1>3, GotoStep, GotoReset
<1>4. ASSUME NEW c \in l_th[t].seen \ {vcom[l_th[t].u]},
             Leiden!Local(t, [l_th[t] EXCEPT !.pc = IF c = Leiden!NoCommunity THEN "reset" ELSE "leave",
                                             !.c = c, !.seen = {}])
      PROVE  LeidenInv'
  <2>1. PICK to : to = IF c = Leiden!NoCommunity THEN "reset" ELSE "leave"
    OBVIOUS
  <2>2. PICK r : r = [l_th[t] EXCEPT !.pc = to, !.c = c, !.seen = {}]
    OBVIOUS
  <2>3. Leiden!Local(t, r)
    BY <1>4, <2>1, <2>2
  <2>4. to \in {"reset", "leave"}
    BY <2>1
  <2>5. c \in Leiden!Span
    BY DEF LeidenInv, LeidenTypes, LeidenLocals
  <2>6. r \in LeidenLocals /\ r.pc = to /\ r.u = l_th[t].u /\ r.end = l_th[t].end /\ r.c = c
    BY <2>2, <2>4, <2>5 DEF LeidenInv, LeidenTypes, LeidenLocals, Moving
  <2>7. r.c \in Fit(r.u) \ {vcom[r.u]} /\ (Leiden!refining => vcom[r.u] = r.u)
    BY <1>1, <2>6 DEF LeidenInv, Worker
  <2>8. r.pc \notin Underway /\ r.pc # "idle" /\ r.pc \notin {"test", "scan"}
    BY <2>4, <2>6 DEF Underway
  <2> QED BY <1>1, <1>2, <2>3, <2>6, <2>7, <2>8, StepAtVertex
<1> QED BY <1>3, <1>4 DEF Leiden!Choose

LEMMA WakeStep ==
  ASSUME LeidenInv, NEW t \in LeidenThreads, Leiden!Wake(t)
  PROVE  LeidenInv'
<1>1. /\ l_th[t].pc = "wake" /\ Leiden!Goto(t, "reset")
      /\ UNCHANGED <<x_, y_, n_, p_, vtot, l_phase, vcob, ucom, mappings, vcom, ctot, next>>
  BY DEF Leiden!Wake, Leiden!graph, Leiden!passes
<1>2. l_th[t].pc # "idle" /\ l_th[t].pc \notin Underway
  BY <1>1 DEF Underway
<1> QED BY <1>1, <1>2, GotoStep, GotoReset

LEMMA ResetStep ==
  ASSUME LeidenInv, NEW t \in LeidenThreads, Leiden!Reset(t)
  PROVE  LeidenInv'
<1>1. /\ l_th[t].pc = "reset" /\ Leiden!Advance(t)
      /\ UNCHANGED <<x_, y_, n_, p_, vtot, l_phase, vcob, ucom, mappings, vcom, ctot, next>>
  BY DEF Leiden!Reset, Leiden!graph, Leiden!passes
<1>2. l_th[t].pc # "idle" /\ l_th[t].pc \notin Underway
  BY <1>1 DEF Underway
<1> QED BY <1>1, <1>2, Advances

\* Of the sets that count for a community, a step at vertex u changes no more
\* than whether u is in them.
LEMMA OnlyOwnVertex ==
  ASSUME LeidenInv, NEW t \in LeidenThreads, NEW r, Takes(t, r), l_th[t].pc # "idle",
         NEW u, u = l_th[t].u, r.u = u, n_' = n_,
         \A v \in Leiden!Order : v # u => vcom'[v] = vcom[v]
  PROVE  \A c : /\ Inside(c)' \ {u} = Inside(c) \ {u}
                /\ Leiden!Arriving(c)' \ {u} = Leiden!Arriving(c) \ {u}
                /\ u \in Inside(c) <=> vcom[u] = c /\ l_th[t].pc \notin Underway
                /\ u \in Inside(c)' <=> vcom'[u] = c /\ r.pc \notin Underway
                /\ u \in Leiden!Arriving(c) <=> l_th[t].pc = "set" /\ l_th[t].c = c
                /\ u \in Leiden!Arriving(c)' <=> r.pc = "set" /\ r.c = c
<1>1. Leiden!Order' = Leiden!Order /\ u \in Leiden!Order
  BY OwnVertex DEF Leiden!Order
<1>2. l_th'[t] = r /\ \A s \in LeidenThreads : s # t => l_th'[s] = l_th[s]
  BY DEF Takes
<1>3. \A s \in LeidenThreads : s # t => (l_th[s].pc # "idle" => l_th[s].u # u)
  BY Distinct
<1> SUFFICES ASSUME NEW c
             PROVE  /\ Inside(c)' \ {u} = Inside(c) \ {u}
                    /\ Leiden!Arriving(c)' \ {u} = Leiden!Arriving(c) \ {u}
                    /\ u \in Inside(c) <=> vcom[u] = c /\ l_th[t].pc \notin Underway
                    /\ u \in Inside(c)' <=> vcom'[u] = c /\ r.pc \notin Underway
                    /\ u \in Leiden!Arriving(c) <=> l_th[t].pc = "set" /\ l_th[t].c = c
                    /\ u \in Leiden!Arriving(c)' <=> r.pc = "set" /\ r.c = c
  OBVIOUS
<1>4. \A v \in Leiden!Order :
        /\ v \in Inside(c) <=> vcom[v] = c /\ ~ \E s \in LeidenThreads : l_th[s].u = v /\ l_th[s].pc \in Underway
        /\ v \in Inside(c)' <=> vcom'[v] = c /\ ~ \E s \in LeidenThreads : l_th'[s].u = v /\ l_th'[s].pc \in Underway
        /\ v \in Leiden!Arriving(c) <=> \E s \in LeidenThreads : l_th[s].u = v /\ l_th[s].pc = "set" /\ l_th[s].c = c
        /\ v \in Leiden!Arriving(c)' <=> \E s \in LeidenThreads : l_th'[s].u = v /\ l_th'[s].pc = "set" /\ l_th'[s].c = c
  BY <1>1 DEF Inside, Leiden!Leaving, Leiden!Arriving, Underway
<1>5. /\ Inside(c) \subseteq Leiden!Order /\ Inside(c)' \subseteq Leiden!Order
      /\ Leiden!Arriving(c) \subseteq Leiden!Order /\ Leiden!Arriving(c)' \subseteq Leiden!Order
  BY <1>1 DEF Inside, Leiden!Arriving
<1>6. ASSUME NEW v \in Leiden!Order, v # u
      PROVE  (v \in Inside(c)' <=> v \in Inside(c)) /\ (v \in Leiden!Arriving(c)' <=> v \in Leiden!Arriving(c))
  <2>1. \A s \in LeidenThreads : l_th'[s].u = v \/ l_th[s].u = v => l_th'[s] = l_th[s]
    BY <1>2, <1>6
  <2>2. /\ (\E s \in LeidenThreads : l_th'[s].u = v /\ l_th'[s].pc \in Underway)
           <=> \E s \in LeidenThreads : l_th[s].u = v /\ l_th[s].pc \in Underway
        /\ (\E s \in LeidenThreads : l_th'[s].u = v /\ l_th'[s].pc = "set" /\ l_th'[s].c = c)
           <=> \E s \in LeidenThreads : l_th[s].u = v /\ l_th[s].pc = "set" /\ l_th[s].c = c
    BY <2>1
  <2> QED BY <1>4, <1>6, <2>2
<1>7. \A s \in LeidenThreads : l_th[s].pc \in Underway /\ l_th[s].u = u => s = t
  BY <1>3 DEF Underway
<1>8. \A s \in LeidenThreads : l_th'[s].pc \in Underway /\ l_th'[s].u = u => s = t
  BY <1>2, <1>7
<1>9. "set" \in Underway
  BY DEF Underway
<1>10. /\ u \in Inside(c) <=> vcom[u] = c /\ l_th[t].pc \notin Underway
       /\ u \in Leiden!Arriving(c) <=> l_th[t].pc = "set" /\ l_th[t].c = c
  BY <1>1, <1>4, <1>7, <1>9
<1>11. /\ u \in Inside(c)' <=> vcom'[u] = c /\ r.pc \notin Underway
       /\ u \in Leiden!Arriving(c)' <=> r.pc = "set" /\ r.c = c
  BY <1>1, <1>2, <1>4, <1>8, <1>9
<1>12. Inside(c)' \ {u} = Inside(c) \ {u} /\ Leiden!Arriving(c)' \ {u} = Leiden!Arriving(c) \ {u}
  BY <1>5, <1>6
<1> QED BY <1>10, <1>11, <1>12

\* What vertex u adds to the sum over S.
Counts(u, S) == IF u \in S THEN vtot[u] ELSE 0

LEMMA CountsOnce ==
  ASSUME LeidenTypes, NEW S \in SUBSET Leiden!Order, NEW u \in Leiden!Order
  PROVE  /\ SetSum(vtot, S) = SetSum(vtot, S \ {u}) + Counts(u, S)
         /\ SetSum(vtot, S) \in Nat /\ SetSum(vtot, S \ {u}) \in Nat /\ Counts(u, S) \in Nat
<1>1. IsFiniteSet(S) /\ IsFiniteSet(S \ {u}) /\ \A v \in Leiden!Order : vtot[v] \in Nat
  BY OrderFacts, FS_Subset, VertexWeightsFacts DEF LeidenTypes
<1>2. SetSum(vtot, S) \in Nat /\ SetSum(vtot, S \ {u}) \in Nat
  BY <1>1, SetSumNat
<1>3. CASE u \in S
  <2>1. SetSum(vtot, S) = vtot[u] + SetSum(vtot, S \ {u})
    BY <1>1, <1>3, SetSumFacts
  <2> QED BY <1>1, <1>2, <1>3, <2>1 DEF Counts
<1>4. CASE u \notin S
  <2>1. S \ {u} = S
    BY <1>4
  <2>2. SetSum(vtot, S \ {u}) = SetSum(vtot, S)
    BY <2>1, Zenon
  <2> QED BY <1>2, <1>4, <2>2 DEF Counts
<1> QED BY <1>3, <1>4

\* The weights balance if what a community gains is what u now counts for it.
LEMMA Rebalanced ==
  ASSUME LeidenInv, NEW t \in LeidenThreads, NEW r, Takes(t, r), l_th[t].pc # "idle",
         NEW u, u = l_th[t].u, r.u = u, n_' = n_, vtot' = vtot,
         \A v \in Leiden!Order : v # u => vcom'[v] = vcom[v],
         \A c \in Leiden!Order :
           ctot'[c] = ctot[c] + (IF vcom'[u] = c /\ r.pc \notin Underway THEN vtot[u] ELSE 0)
                              + (IF r.pc = "set" /\ r.c = c THEN vtot[u] ELSE 0)
                              - (IF vcom[u] = c /\ l_th[t].pc \notin Underway THEN vtot[u] ELSE 0)
                              - (IF l_th[t].pc = "set" /\ l_th[t].c = c THEN vtot[u] ELSE 0)
  PROVE  Balance'
<1>1. Leiden!Order' = Leiden!Order /\ u \in Leiden!Order
  BY OwnVertex DEF Leiden!Order
<1>2. ASSUME NEW c \in Leiden!Order
      PROVE  ctot'[c] = SetSum(vtot, Inside(c)') + SetSum(vtot, Leiden!Arriving(c)')
  <2> DEFINE in == Inside(c)  in1 == Inside(c)'  ar == Leiden!Arriving(c)  ar1 == Leiden!Arriving(c)'
  <2>1. in \in SUBSET Leiden!Order /\ in1 \in SUBSET Leiden!Order /\ ar \in SUBSET Leiden!Order /\ ar1 \in SUBSET Leiden!Order
    BY <1>1 DEF Inside, Leiden!Arriving
  <2>2. /\ in1 \ {u} = in \ {u} /\ ar1 \ {u} = ar \ {u}
        /\ u \in in <=> vcom[u] = c /\ l_th[t].pc \notin Underway
        /\ u \in in1 <=> vcom'[u] = c /\ r.pc \notin Underway
        /\ u \in ar <=> l_th[t].pc = "set" /\ l_th[t].c = c
        /\ u \in ar1 <=> r.pc = "set" /\ r.c = c
    BY OnlyOwnVertex
  <2>3. ctot[c] = SetSum(vtot, in) + SetSum(vtot, ar)
    BY DEF LeidenInv, Balance
  <2> HIDE DEF in, in1, ar, ar1
  <2>4. ctot'[c] = ctot[c] + Counts(u, in1) + Counts(u, ar1) - Counts(u, in) - Counts(u, ar)
    BY <2>2 DEF Counts
  <2>5. \A S \in SUBSET Leiden!Order :
          /\ SetSum(vtot, S) = SetSum(vtot, S \ {u}) + Counts(u, S)
          /\ SetSum(vtot, S) \in Nat /\ SetSum(vtot, S \ {u}) \in Nat /\ Counts(u, S) \in Nat
    BY <1>1, CountsOnce DEF LeidenInv
  <2>6. SetSum(vtot, in1 \ {u}) = SetSum(vtot, in \ {u}) /\ SetSum(vtot, ar1 \ {u}) = SetSum(vtot, ar \ {u})
    BY <2>2, Zenon
  <2>7. ctot'[c] = SetSum(vtot, in1) + SetSum(vtot, ar1)
    BY <2>1, <2>3, <2>4, <2>5, <2>6
  <2> QED BY <2>7 DEF in1, ar1
<1> QED BY <1>1, <1>2 DEF Balance

\* A step of a thread that changes the weight of a community by that of its vertex.
LEMMA WeightStep ==
  ASSUME LeidenInv, NEW t \in LeidenThreads, l_th[t].pc \in Underway \union {"leave"},
         UNCHANGED <<x_, y_, n_, p_, vtot, l_phase, vcob, ucom, mappings, next>>,
         NEW r \in LeidenLocals, Takes(t, r), r.pc \in Underway \union {"wake", "reset"},
         NEW u, u = l_th[t].u, r.u = u, r.end = l_th[t].end, r.c = l_th[t].c,
         ctot' \in [Leiden!Span -> Int],
         vcom' \in [Leiden!Span -> Leiden!Span],
         \A v \in Leiden!Span : v # u => vcom'[v] = vcom[v],
         vcom' = vcom \/ (l_th[t].pc = "set" /\ vcom'[u] = l_th[t].c),
         l_th[t].pc = "set" => r.pc = "wake",
         \A c \in Leiden!Order :
           ctot'[c] = ctot[c] + (IF vcom'[u] = c /\ r.pc \notin Underway THEN vtot[u] ELSE 0)
                              + (IF r.pc = "set" /\ r.c = c THEN vtot[u] ELSE 0)
                              - (IF vcom[u] = c /\ l_th[t].pc \notin Underway THEN vtot[u] ELSE 0)
                              - (IF l_th[t].pc = "set" /\ l_th[t].c = c THEN vtot[u] ELSE 0)
  PROVE  LeidenInv'
<1>1. /\ l_th[t].pc # "idle" /\ r.pc # "idle" /\ l_th[t].pc \in Moving
      /\ r.pc \notin {"test", "scan"} /\ (r.pc \in Moving => r.pc \in Underway /\ l_th[t].pc # "set")
  BY DEF Underway, Moving
<1>2. u \in Leiden!Order /\ Leiden!Order \subseteq Leiden!Span /\ Leiden!Order' = Leiden!Order
  BY <1>1, OwnVertex, OrderFacts, GraphStays DEF LeidenInv, LeidenTypes
<1>3. /\ l_th[t].c \in Fit(u) \ {vcom[u]} /\ (Leiden!refining => vcom[u] = u)
      /\ l_th[t].u < l_th[t].end /\ l_th[t].end <= n_ /\ l_th[t].end <= next
      /\ l_phase \in {"move", "refine"}
  BY <1>1 DEF LeidenInv, Worker
<1>4. \A v \in Leiden!Span : v # u => vcom'[v] = vcom[v]
  OBVIOUS
<1>5. vcom' = vcom \/ (l_th[t].pc = "set" /\ vcom'[u] = l_th[t].c)
  OBVIOUS
<1>7. l_th'[t] = r /\ \A s \in LeidenThreads : s # t => l_th'[s] = l_th[s]
  BY DEF Takes
<1>8. next' \in Nat /\ next' >= next
  BY DEF LeidenInv, LeidenTypes
<1>9. Frame(t)
  <2>1. /\ \A v \in Share(t)' : v \in Share(t) \/ (v >= next /\ v < next')
        /\ \A v \in Share(t)' : v # r.u => v >= next \/ (v \in Share(t) /\ v # l_th[t].u)
    BY <1>1, SameVertex
  <2>2. \A v \in Share(t)' : v # l_th'[t].u => v >= next \/ (v \in Share(t) /\ v # l_th[t].u)
    BY <1>7, <2>1
  <2>3. vcom' = vcom \/ (l_th[t].pc = "set" /\ l_th'[t].u = l_th[t].u /\ vcom'[l_th[t].u] = l_th[t].c)
    BY <1>5, <1>7
  <2>4. \A v \in Leiden!Span : v # l_th[t].u => vcom'[v] = vcom[v]
    BY <1>4
  <2> QED BY <1>7, <1>8, <2>1, <2>2, <2>3, <2>4 DEF Frame
<1>10. \A v \in Leiden!Order : vcom'[v] \in Leiden!Order
  <2>1. \A v \in Leiden!Order : vcom[v] \in Leiden!Order
    BY DEF LeidenInv, LeidenTypes
  <2>2. l_th[t].c \in Leiden!Order
    BY <1>3 DEF Fit
  <2> QED BY <1>2, <1>4, <1>5, <2>1, <2>2
<1>11. LeidenTypes'
  <2>1. Leiden!VertexWeights(y_)' = Leiden!VertexWeights(y_)
    BY DEF Leiden!VertexWeights
  <2> QED BY <1>2, <1>8, <1>10, <2>1 DEF LeidenInv, LeidenTypes, Takes
<1>12. Worker(t)'
  <2>1. /\ (Leiden!refining' <=> Leiden!refining)
        /\ \A v : Near(v)' = Near(v) /\ Fit(v)' = Fit(v)
    BY GraphStays
  <2>2. r.pc \in Moving => r.c \in Fit(u) \ {vcom'[u]} /\ vcom'[u] = vcom[u]
    BY <1>1, <1>3, <1>5
  <2>3. r.u = u /\ r.end = l_th[t].end /\ r.u < r.end /\ r.end <= n_ /\ r.end <= next
    BY <1>3
  <2> QED BY <1>1, <1>3, <1>7, <2>1, <2>2, <2>3 DEF Worker
<1>13. Balance'
  <2>1. \A v \in Leiden!Order : v # u => vcom'[v] = vcom[v]
    BY <1>2, <1>4
  <2> QED BY <1>1, <2>1, Rebalanced
<1> QED BY <1>9, <1>11, <1>12, <1>13, LeidenThreadByThread

\* What is known of a thread that has chosen a community.
LEMMA MoverFacts ==
  ASSUME LeidenInv, NEW t \in LeidenThreads, l_th[t].pc \in Moving
  PROVE  /\ l_th[t].u \in Leiden!Order /\ l_th[t].c \in Leiden!Order /\ vcom[l_th[t].u] \in Leiden!Order
         /\ Leiden!Order \subseteq Leiden!Span
         /\ l_th[t].c # vcom[l_th[t].u] /\ vtot[l_th[t].u] \in Nat
         /\ \A c \in Leiden!Span : ctot[c] \in Int
<1>1. l_th[t].u \in Leiden!Order /\ Leiden!Order \subseteq Leiden!Span
  BY OwnVertex, OrderFacts DEF Moving, LeidenInv, LeidenTypes
<1>2. l_th[t].c \in Leiden!Order /\ l_th[t].c # vcom[l_th[t].u]
  BY DEF LeidenInv, Worker, Fit
<1>3. vtot[l_th[t].u] \in Nat
  BY <1>1, VertexWeightsFacts DEF LeidenInv, LeidenTypes
<1> QED BY <1>1, <1>2, <1>3 DEF LeidenInv, LeidenTypes

LEMMA LeidenLeaveStep ==
  ASSUME LeidenInv, NEW t \in LeidenThreads, Leiden!Leave(t)
  PROVE  LeidenInv'
<1>1. PICK u : u = l_th[t].u
  OBVIOUS
<1>2. PICK to \in {"join", "restore"} : Leiden!Goto(t, to)
  BY DEF Leiden!Leave
<1>3. PICK r \in LeidenLocals : Takes(t, r) /\ r.pc = to /\ r.u = u /\ r.end = l_th[t].end /\ r.c = l_th[t].c
  BY <1>1, <1>2, GotoStep DEF Moving
<1>4. /\ l_th[t].pc = "leave" /\ ctot' = [ctot EXCEPT ![vcom[u]] = ctot[vcom[u]] - vtot[u]]
      /\ UNCHANGED <<x_, y_, n_, p_, vtot, l_phase, vcob, ucom, mappings, vcom, next>>
  BY <1>1 DEF Leiden!Leave, Leiden!graph, Leiden!passes
<1>5. /\ u \in Leiden!Order /\ l_th[t].c \in Leiden!Order /\ vcom[u] \in Leiden!Order
      /\ Leiden!Order \subseteq Leiden!Span
      /\ l_th[t].c # vcom[u] /\ vtot[u] \in Nat
      /\ \A c \in Leiden!Span : ctot[c] \in Int
  BY <1>1, <1>4, MoverFacts DEF Moving
<1>6. l_th[t].pc \in Underway \union {"leave"} /\ r.pc \in Underway \union {"wake", "reset"}
  BY <1>3, <1>4 DEF Underway
<1>7. ctot' \in [Leiden!Span -> Int]
  BY <1>4, <1>5 DEF LeidenInv, LeidenTypes
<1>8. l_th[t].pc \notin Underway /\ r.pc \in Underway /\ r.pc # "set" /\ l_th[t].pc # "set"
  BY <1>3, <1>4 DEF Underway
<1>9. \A c \in Leiden!Span : ctot'[c] = IF vcom[u] = c THEN ctot[c] - vtot[u] ELSE ctot[c]
  BY <1>4 DEF LeidenInv, LeidenTypes
<1>10. \A c \in Leiden!Order :
         ctot'[c] = ctot[c] + (IF vcom'[u] = c /\ r.pc \notin Underway THEN vtot[u] ELSE 0)
                            + (IF r.pc = "set" /\ r.c = c THEN vtot[u] ELSE 0)
                            - (IF vcom[u] = c /\ l_th[t].pc \notin Underway THEN vtot[u] ELSE 0)
                            - (IF l_th[t].pc = "set" /\ l_th[t].c = c THEN vtot[u] ELSE 0)
  BY <1>5, <1>8, <1>9
<1>11. vcom' \in [Leiden!Span -> Leiden!Span] /\ vcom' = vcom
  BY <1>4 DEF LeidenInv, LeidenTypes
<1> QED BY <1>1, <1>3, <1>4, <1>6, <1>7, <1>8, <1>10, <1>11, WeightStep

LEMMA RestoreStep ==
  ASSUME LeidenInv, NEW t \in LeidenThreads, Leiden!Restore(t)
  PROVE  LeidenInv'
<1>1. PICK u : u = l_th[t].u
  OBVIOUS
<1>3. PICK r \in LeidenLocals : Takes(t, r) /\ r.pc = "reset" /\ r.u = u /\ r.end = l_th[t].end /\ r.c = l_th[t].c
  BY <1>1, GotoStep DEF Leiden!Restore
<1>4. /\ l_th[t].pc = "restore" /\ ctot' = [ctot EXCEPT ![vcom[u]] = ctot[vcom[u]] + vtot[u]]
      /\ UNCHANGED <<x_, y_, n_, p_, vtot, l_phase, vcob, ucom, mappings, vcom, next>>
  BY <1>1 DEF Leiden!Restore, Leiden!Restored, Leiden!graph, Leiden!passes
<1>5. /\ u \in Leiden!Order /\ l_th[t].c \in Leiden!Order /\ vcom[u] \in Leiden!Order
      /\ Leiden!Order \subseteq Leiden!Span
      /\ l_th[t].c # vcom[u] /\ vtot[u] \in Nat
      /\ \A c \in Leiden!Span : ctot[c] \in Int
  BY <1>1, <1>4, MoverFacts DEF Moving
<1>6. l_th[t].pc \in Underway \union {"leave"} /\ r.pc \in Underway \union {"wake", "reset"}
  BY <1>3, <1>4 DEF Underway
<1>7. ctot' \in [Leiden!Span -> Int]
  BY <1>4, <1>5 DEF LeidenInv, LeidenTypes
<1>8. l_th[t].pc \in Underway /\ r.pc \notin Underway /\ r.pc # "set" /\ l_th[t].pc # "set"
  BY <1>3, <1>4 DEF Underway
<1>9. \A c \in Leiden!Span : ctot'[c] = IF vcom[u] = c THEN ctot[c] + vtot[u] ELSE ctot[c]
  BY <1>4 DEF LeidenInv, LeidenTypes
<1>10. \A c \in Leiden!Order :
         ctot'[c] = ctot[c] + (IF vcom'[u] = c /\ r.pc \notin Underway THEN vtot[u] ELSE 0)
                            + (IF r.pc = "set" /\ r.c = c THEN vtot[u] ELSE 0)
                            - (IF vcom[u] = c /\ l_th[t].pc \notin Underway THEN vtot[u] ELSE 0)
                            - (IF l_th[t].pc = "set" /\ l_th[t].c = c THEN vtot[u] ELSE 0)
  BY <1>4, <1>5, <1>8, <1>9
<1>11. vcom' \in [Leiden!Span -> Leiden!Span] /\ vcom' = vcom
  BY <1>4 DEF LeidenInv, LeidenTypes
<1> QED BY <1>1, <1>3, <1>4, <1>6, <1>7, <1>8, <1>10, <1>11, WeightStep

LEMMA JoinStep ==
  ASSUME LeidenInv, NEW t \in LeidenThreads, Leiden!Join(t)
  PROVE  LeidenInv'
<1>1. PICK u : u = l_th[t].u
  OBVIOUS
<1>3. PICK r \in LeidenLocals : Takes(t, r) /\ r.pc = "set" /\ r.u = u /\ r.end = l_th[t].end /\ r.c = l_th[t].c
  BY <1>1, GotoStep DEF Leiden!Join, Moving
<1>4. /\ l_th[t].pc = "join" /\ ctot' = [ctot EXCEPT ![r.c] = ctot[r.c] + vtot[u]]
      /\ UNCHANGED <<x_, y_, n_, p_, vtot, l_phase, vcob, ucom, mappings, vcom, next>>
  BY <1>1, <1>3 DEF Leiden!Join, Leiden!graph, Leiden!passes
<1>5. /\ u \in Leiden!Order /\ l_th[t].c \in Leiden!Order /\ vcom[u] \in Leiden!Order
      /\ Leiden!Order \subseteq Leiden!Span
      /\ l_th[t].c # vcom[u] /\ vtot[u] \in Nat
      /\ \A c \in Leiden!Span : ctot[c] \in Int
  BY <1>1, <1>4, MoverFacts DEF Moving
<1>6. l_th[t].pc \in Underway \union {"leave"} /\ r.pc \in Underway \union {"wake", "reset"}
  BY <1>3, <1>4 DEF Underway
<1>7. ctot' \in [Leiden!Span -> Int]
  BY <1>3, <1>4, <1>5 DEF LeidenInv, LeidenTypes
<1>8. l_th[t].pc \in Underway /\ r.pc \in Underway /\ l_th[t].pc # "set"
  BY <1>3, <1>4 DEF Underway
<1>9. \A c \in Leiden!Span : ctot'[c] = IF r.c = c THEN ctot[c] + vtot[u] ELSE ctot[c]
  BY <1>4 DEF LeidenInv, LeidenTypes
<1>10. \A c \in Leiden!Order :
         ctot'[c] = ctot[c] + (IF vcom'[u] = c /\ r.pc \notin Underway THEN vtot[u] ELSE 0)
                            + (IF r.pc = "set" /\ r.c = c THEN vtot[u] ELSE 0)
                            - (IF vcom[u] = c /\ l_th[t].pc \notin Underway THEN vtot[u] ELSE 0)
                            - (IF l_th[t].pc = "set" /\ l_th[t].c = c THEN vtot[u] ELSE 0)
  BY <1>3, <1>5, <1>8, <1>9
<1>11. vcom' \in [Leiden!Span -> Leiden!Span] /\ vcom' = vcom
  BY <1>4 DEF LeidenInv, LeidenTypes
<1> QED BY <1>1, <1>3, <1>4, <1>6, <1>7, <1>8, <1>10, <1>11, WeightStep

LEMMA LeidenSetCommunityStep ==
  ASSUME LeidenInv, NEW t \in LeidenThreads, Leiden!SetCommunity(t)
  PROVE  LeidenInv'
<1>1. PICK u : u = l_th[t].u
  OBVIOUS
<1>3. PICK r \in LeidenLocals : Takes(t, r) /\ r.pc = "wake" /\ r.u = u /\ r.end = l_th[t].end /\ r.c = l_th[t].c
  BY <1>1, GotoStep DEF Leiden!SetCommunity
<1>4. /\ l_th[t].pc = "set" /\ vcom' = [vcom EXCEPT ![u] = r.c]
      /\ UNCHANGED <<x_, y_, n_, p_, vtot, l_phase, vcob, ucom, mappings, ctot, next>>
  BY <1>1, <1>3 DEF Leiden!SetCommunity, Leiden!graph, Leiden!passes
<1>5. /\ u \in Leiden!Order /\ l_th[t].c \in Leiden!Order /\ vcom[u] \in Leiden!Order
      /\ Leiden!Order \subseteq Leiden!Span
      /\ l_th[t].c # vcom[u] /\ vtot[u] \in Nat
      /\ \A c \in Leiden!Span : ctot[c] \in Int
  BY <1>1, <1>4, MoverFacts DEF Moving
<1>6. l_th[t].pc \in Underway \union {"leave"} /\ r.pc \in Underway \union {"wake", "reset"}
  BY <1>3, <1>4 DEF Underway
<1>7. ctot' \in [Leiden!Span -> Int] /\ vcom' \in [Leiden!Span -> Leiden!Span] /\ vcom'[u] = r.c
  BY <1>3, <1>4, <1>5 DEF LeidenInv, LeidenTypes
<1>8. l_th[t].pc \in Underway /\ r.pc \notin Underway /\ r.pc # "set"
  BY <1>3, <1>4 DEF Underway
<1>10. \A c \in Leiden!Order :
         ctot'[c] = ctot[c] + (IF vcom'[u] = c /\ r.pc \notin Underway THEN vtot[u] ELSE 0)
                            + (IF r.pc = "set" /\ r.c = c THEN vtot[u] ELSE 0)
                            - (IF vcom[u] = c /\ l_th[t].pc \notin Underway THEN vtot[u] ELSE 0)
                            - (IF l_th[t].pc = "set" /\ l_th[t].c = c THEN vtot[u] ELSE 0)
  BY <1>3, <1>4, <1>5, <1>7, <1>8
<1>11. /\ \A v \in Leiden!Span : v # u => vcom'[v] = vcom[v]
       /\ l_th[t].pc = "set" /\ vcom'[u] = l_th[t].c
  BY <1>3, <1>4, <1>7 DEF LeidenInv, LeidenTypes
<1>12. l_th[t].pc = "set" => r.pc = "wake"
  BY <1>3
<1> QED BY <1>1, <1>3, <1>4, <1>6, <1>7, <1>10, <1>11, <1>12, WeightStep

LEMMA LeidenThreadStep ==
  ASSUME LeidenInv, NEW t \in LeidenThreads, Leiden!Thread(t)
  PROVE  LeidenInv'
BY TakeChunkStep, TestStep, ScanStep, ChooseStep, LeidenLeaveStep, RestoreStep, JoinStep,
   LeidenSetCommunityStep, WakeStep, ResetStep DEF Leiden!Thread

-----------------------------------------------------------------------------
(* The loops: no thread has anything in hand. *)

AllIdle == \A t \in LeidenThreads : l_th[t].pc = "idle"

LEMMA NobodyWorks ==
  ASSUME AllIdle'
  PROVE  /\ \A t \in LeidenThreads : Worker(t)'
         /\ SharesApart'
         /\ \A c : /\ Inside(c)' = {u \in Leiden!Order' : vcom'[u] = c}
                   /\ Leiden!Arriving(c)' = {}
<1>1. \A t \in LeidenThreads : l_th'[t].pc = "idle"
  BY DEF AllIdle
<1>2. \A t \in LeidenThreads : Worker(t)'
  BY <1>1 DEF Worker, Moving
<1>3. \A t \in LeidenThreads : Share(t)' = {}
  BY <1>1 DEF Share
<1>4. ASSUME NEW c  PROVE Leiden!Leaving(c)' = {} /\ Leiden!Arriving(c)' = {}
  BY <1>1 DEF Leiden!Leaving, Leiden!Arriving
<1>5. \A c : Inside(c)' = {u \in Leiden!Order' : vcom'[u] = c}
  BY <1>4 DEF Inside
<1> QED BY <1>2, <1>3, <1>4, <1>5 DEF SharesApart

\* Every vertex on its own.
LEMMA SinglesBalance ==
  ASSUME AllIdle', \A c \in Leiden!Order' : vcom'[c] = c /\ ctot'[c] = vtot'[c] /\ vtot'[c] \in Int
  PROVE  Balance'
<1>1. ASSUME NEW c \in Leiden!Order'
      PROVE  ctot'[c] = SetSum(vtot', Inside(c)') + SetSum(vtot', Leiden!Arriving(c)')
  <2>1. Inside(c)' = {c} /\ Leiden!Arriving(c)' = {}
    BY NobodyWorks
  <2>2. SetSum(vtot', {c}) = vtot'[c]
    BY SetSumOne
  <2>3. SetSum(vtot', {}) = 0
    BY FS_EmptySet, SetSumFacts
  <2>4. SetSum(vtot', Inside(c)') = vtot'[c] /\ SetSum(vtot', Leiden!Arriving(c)') = 0
    BY <2>1, <2>2, <2>3, Zenon
  <2> QED BY <2>4
<1> QED BY <1>1 DEF Balance

LEMMA EndIterationStep ==
  ASSUME LeidenInv, Leiden!EndIteration
  PROVE  LeidenInv'
<1>1. /\ l_phase = "move" /\ AllIdle' /\ next' = 0 /\ n_ \in 0 .. LeidenN
      /\ UNCHANGED <<x_, y_, n_, p_, vtot, ucom, mappings, l_th>>
  BY DEF Leiden!EndIteration, Leiden!Barrier, Leiden!graph, AllIdle, LeidenInv, LeidenTypes
<1>2. Leiden!Order' = Leiden!Order /\ Leiden!Order \subseteq Leiden!Span
  BY <1>1, OrderFacts DEF Leiden!Order
<1>3. Leiden!VertexWeights(y_)' = Leiden!VertexWeights(y_)
  BY <1>1 DEF Leiden!VertexWeights
<1>4. vtot \in [Leiden!Span -> Nat]
  BY VertexWeightsFacts DEF LeidenInv, LeidenTypes
<1>5. CASE UNCHANGED <<l_phase, vcob, vcom, ctot>>
  <2>1. LeidenTypes'
    BY <1>1, <1>2, <1>3, <1>5 DEF LeidenInv, LeidenTypes
  <2>2. Refining'
    BY <1>1, <1>5 DEF Refining, Leiden!refining
  <2>3. Balance'
    <3>1. AllIdle
      BY <1>1 DEF AllIdle
    <3>2. ASSUME NEW c  PROVE Leiden!Leaving(c)' = Leiden!Leaving(c) /\ Leiden!Arriving(c)' = Leiden!Arriving(c)
      BY <1>1, <1>2, <1>5 DEF Leiden!Leaving, Leiden!Arriving
    <3>3. ASSUME NEW c  PROVE Inside(c)' = Inside(c)
      BY <1>2, <1>5, <3>2 DEF Inside
    <3> QED BY <1>1, <1>2, <1>5, <3>2, <3>3 DEF Balance, LeidenInv
  <2>4. Exact' /\ FirstPass' /\ Nested'
    BY <1>1, <1>5, HistoryStays DEF LeidenInv
  <2> QED BY <1>1, <2>1, <2>2, <2>3, <2>4, NobodyWorks DEF LeidenInv
<1>6. CASE Leiden!StartRefinement
  <2>1. /\ l_phase' = "refine" /\ vcob' = vcom
        /\ vcom' = [u \in Leiden!Span |-> IF u \in Leiden!Order THEN u ELSE vcom[u]]
        /\ ctot' = [u \in Leiden!Span |-> IF u \in Leiden!Order THEN vtot[u] ELSE ctot[u]]
    BY <1>6 DEF Leiden!StartRefinement
  <2>2. /\ vcom' \in [Leiden!Span -> Leiden!Span] /\ ctot' \in [Leiden!Span -> Int]
        /\ \A u \in Leiden!Order : vcom'[u] = u /\ ctot'[u] = vtot[u] /\ vtot[u] \in Int
    BY <1>2, <1>4, <2>1 DEF LeidenInv, LeidenTypes
  <2>3. LeidenTypes'
    BY <1>1, <1>2, <1>3, <2>1, <2>2 DEF LeidenInv, LeidenTypes
  <2>4. Refining'
    BY <1>2, <2>2 DEF Refining
  <2>5. Balance'
    BY <1>1, <1>2, <2>2, SinglesBalance
  <2>6. Exact' /\ FirstPass' /\ Nested'
    <3>1. \A c, d : EdgesBetween(c, d)' = EdgesBetween(c, d)
      BY <1>1 DEF EdgesBetween, Stood
    <3>2. Exact'
      BY <1>1, <1>2, <3>1 DEF LeidenInv, Exact
    <3> QED BY <1>1, <3>2 DEF LeidenInv, FirstPass, Nested
  <2> QED BY <1>1, <2>3, <2>4, <2>5, <2>6, NobodyWorks DEF LeidenInv
<1> QED BY <1>5, <1>6 DEF Leiden!EndIteration

LEMMA EndRefinementStep ==
  ASSUME LeidenInv, Leiden!EndRefinement
  PROVE  LeidenInv'
<1>1. /\ l_phase = "refine" /\ l_phase' = "pass" /\ AllIdle'
      /\ UNCHANGED <<x_, y_, n_, p_, vtot, ucom, mappings, vcob, vcom, ctot, next, l_th>>
  BY DEF Leiden!EndRefinement, Leiden!Barrier, Leiden!graph, AllIdle
<1>2. Leiden!Order' = Leiden!Order
  BY <1>1 DEF Leiden!Order
<1>3. Leiden!VertexWeights(y_)' = Leiden!VertexWeights(y_)
  BY <1>1 DEF Leiden!VertexWeights
<1>4. LeidenTypes'
  BY <1>1, <1>2, <1>3 DEF LeidenInv, LeidenTypes
<1>5. Refining'
  BY <1>1, <1>2 DEF LeidenInv, Refining, Leiden!refining
<1>6. Balance'
  <2>1. ASSUME NEW c  PROVE Leiden!Leaving(c)' = Leiden!Leaving(c) /\ Leiden!Arriving(c)' = Leiden!Arriving(c)
    BY <1>1, <1>2 DEF Leiden!Leaving, Leiden!Arriving
  <2>2. ASSUME NEW c  PROVE Inside(c)' = Inside(c)
    BY <1>1, <1>2, <2>1 DEF Inside
  <2> QED BY <1>1, <1>2, <2>1, <2>2 DEF Balance, LeidenInv
<1>7. Exact' /\ FirstPass' /\ Nested'
  <2>1. \A c, d : EdgesBetween(c, d)' = EdgesBetween(c, d)
    BY <1>1 DEF EdgesBetween, Stood
  <2>2. Exact'
    BY <1>1, <1>2, <2>1 DEF LeidenInv, Exact
  <2> QED BY <1>1, <2>2 DEF LeidenInv, FirstPass, Nested
<1> QED BY <1>1, <1>4, <1>5, <1>6, <1>7, NobodyWorks DEF LeidenInv

\* The communities found, renumbered.
LEMMA RenumberFacts ==
  ASSUME LeidenTypes
  PROVE  /\ Cardinality(Leiden!Communities) \in 0 .. n_
         /\ Cardinality(Leiden!Communities) \in 0 .. LeidenN
         /\ \A u \in Leiden!Order : Leiden!Renumbered(u) \in 0 .. (Cardinality(Leiden!Communities) - 1)
         /\ \A u, v \in Leiden!Order : vcom[u] = vcom[v] => Leiden!Renumbered(u) = Leiden!Renumbered(v)
<1>1. Leiden!Order = 0 .. (n_ - 1) /\ IsFiniteSet(Leiden!Order) /\ n_ \in Nat
  BY OrderFacts, LeidenConstants DEF LeidenTypes
<1>2. Cardinality(Leiden!Order) = n_
  <2>1. 0 \in Int /\ n_ - 1 \in Int
    BY <1>1
  <2>2. Cardinality(0 .. (n_ - 1)) = IF 0 > n_ - 1 THEN 0 ELSE n_ - 1 - 0 + 1
    BY <2>1, FS_Interval
  <2> QED BY <1>1, <2>2
<1>3. Leiden!Communities \subseteq Leiden!Order
  BY DEF Leiden!Communities, LeidenTypes
<1>4. IsFiniteSet(Leiden!Communities) /\ Cardinality(Leiden!Communities) \in 0 .. n_
  <2>1. /\ IsFiniteSet(Leiden!Communities) /\ Cardinality(Leiden!Communities) <= n_
        /\ Cardinality(Leiden!Communities) \in Nat
    BY <1>1, <1>2, <1>3, FS_Subset, FS_CardinalityType
  <2> QED BY <1>1, <2>1
<1>5. ASSUME NEW u \in Leiden!Order
      PROVE  Leiden!Renumbered(u) \in 0 .. (Cardinality(Leiden!Communities) - 1)
  <2> DEFINE less == {c \in Leiden!Communities : c < vcom[u]}
  <2>1. Leiden!Renumbered(u) = Cardinality(less)
    BY LeidenSize DEF Leiden!Renumbered
  <2>2. vcom[u] \in Leiden!Communities /\ vcom[u] \in Nat
    BY <1>1 DEF Leiden!Communities, LeidenTypes
  <2>3. less \subseteq Leiden!Communities /\ vcom[u] \notin less
    BY <2>2
  <2> HIDE DEF less
  <2>4. /\ Cardinality(less) <= Cardinality(Leiden!Communities)
        /\ Cardinality(less) # Cardinality(Leiden!Communities) /\ Cardinality(less) \in Nat
    BY <1>4, <2>2, <2>3, FS_Subset, FS_CardinalityType
  <2> QED BY <1>4, <2>1, <2>4
<1>6. \A u, v \in Leiden!Order : vcom[u] = vcom[v] => Leiden!Renumbered(u) = Leiden!Renumbered(v)
  BY DEF Leiden!Renumbered
<1>7. \A k \in 0 .. n_ : k \in 0 .. LeidenN
  BY LeidenConstants DEF LeidenTypes
<1> QED BY <1>4, <1>5, <1>6, <1>7

\* The vertices that u of the next graph stands for are those of its members.
LEMMA MembersStand ==
  ASSUME LeidenInv, l_phase = "pass", NEW com, com \in [Leiden!Span -> Nat],
         \A u \in Leiden!Order : com[u] = Leiden!Renumbered(u),
         ucom' = Leiden!Lookup(com), n_' = Cardinality(Leiden!Communities)
  PROVE  /\ ucom' \in [Leiden!Span -> Leiden!Span]
         /\ \A u \in Leiden!Span : ucom'[u] = Leiden!Renumbered(ucom[u]) /\ ucom'[u] \in Leiden!Order'
         /\ \A d : Stood(d)' = Into(ucom, Leiden!Span, Leiden!Members(d))
<1>1. \A u \in Leiden!Span : ucom[u] \in Leiden!Order
  BY DEF LeidenInv, Exact
<1>2. DOMAIN ucom' = Leiden!Span /\ \A u \in Leiden!Span : ucom'[u] = Leiden!Renumbered(ucom[u])
  BY <1>1 DEF Leiden!Lookup
<1>3. \A u \in Leiden!Span : Leiden!Renumbered(ucom[u]) \in 0 .. (Cardinality(Leiden!Communities) - 1)
  BY <1>1, RenumberFacts DEF LeidenInv
<1>4. Leiden!Order' = 0 .. (Cardinality(Leiden!Communities) - 1) /\ Leiden!Order' \subseteq Leiden!Span
  <2>1. Cardinality(Leiden!Communities) \in 0 .. LeidenN
    BY RenumberFacts DEF LeidenInv
  <2> QED BY <2>1, LeidenConstants DEF Leiden!Order
<1>5. ucom' = [u \in Leiden!Span |-> com[ucom[u]]]
  BY DEF Leiden!Lookup
<1>6. ucom' \in [Leiden!Span -> Leiden!Span]
  BY <1>1, <1>2, <1>3, <1>4, <1>5
<1>7. ASSUME NEW d  PROVE Stood(d)' = Into(ucom, Leiden!Span, Leiden!Members(d))
  BY <1>1, <1>2 DEF Stood, Into, Leiden!Members
<1> QED BY <1>2, <1>3, <1>4, <1>6, <1>7

\* The weights aggregated are those of the graph given, grouped.
LEMMA AggregationExact ==
  ASSUME LeidenInv, l_phase = "pass", NEW com, com \in [Leiden!Span -> Nat],
         \A u \in Leiden!Order : com[u] = Leiden!Renumbered(u),
         ucom' = Leiden!Lookup(com), n_' = Cardinality(Leiden!Communities), x_' = x_,
         y_' = Leiden!Aggregated
  PROVE  /\ \A c, d \in Leiden!Order' : y_'[c][d] = EdgesBetween(c, d)'
         /\ y_' \in Weights
<1>1. /\ Leiden!Order \subseteq Leiden!Span /\ IsFiniteSet(Leiden!Span)
      /\ \A c : Leiden!Members(c) \in SUBSET Leiden!Order
  BY OrderFacts, LeidenConstants DEF LeidenInv, LeidenTypes, Leiden!Members
<1>2. IsTable(x_, Leiden!Span, Leiden!Span) /\ \A u, v \in Leiden!Span : y_[u][v] \in Nat
  BY DEF LeidenInv, LeidenTypes, Weights, IsTable
<1>3. ASSUME NEW c \in Leiden!Span, NEW d \in Leiden!Span
      PROVE  /\ Leiden!Aggregated[c][d] = EdgesBetween(c, d)' /\ Leiden!Aggregated[c][d] \in Nat
  <2> DEFINE rows == [u \in Leiden!Span |-> SetSum(y_[u], Leiden!Members(d))]
             total == [u \in Leiden!Span |-> SetSum(x_[u], Stood(d)')]
             column(b) == [u \in Leiden!Span |-> SetSum(x_[u], Stood(b))]
             part == [b \in Leiden!Order |-> column(b)]
  <2>1. Leiden!Aggregated[c][d] = SetSum(rows, Leiden!Members(c))
    <3>1. Leiden!Aggregated[c][d] = Leiden!Sum([u \in Leiden!Span |-> Leiden!Sum(y_[u], Leiden!Members(d))], Leiden!Members(c))
      BY DEF Leiden!Aggregated, Leiden!WeightBetween
    <3>2. [u \in Leiden!Span |-> Leiden!Sum(y_[u], Leiden!Members(d))] = rows
      BY LeidenSum, Zenon
    <3> QED BY <3>1, <3>2, LeidenSum, Zenon
  <2>2. EdgesBetween(c, d)' = SetSum(total, Stood(c)')
    BY DEF EdgesBetween
  <2>3. \A b : Stood(b)' = Into(ucom, Leiden!Span, Leiden!Members(b))
    BY MembersStand
  <2>4. RowSums(rows, y_, Leiden!Members(c), Leiden!Members(d))
    BY <1>1 DEF RowSums
  <2>5. RowSums(total, x_, Leiden!Span, Into(ucom, Leiden!Span, Leiden!Members(d)))
    <3>1. \A u \in Leiden!Span : total[u] = SetSum(x_[u], Stood(d)')
      OBVIOUS
    <3> HIDE DEF total
    <3>2. Stood(d)' = Into(ucom, Leiden!Span, Leiden!Members(d))
      BY <2>3
    <3>3. \A u \in Leiden!Span : total[u] = SetSum(x_[u], Into(ucom, Leiden!Span, Leiden!Members(d)))
      BY <3>1, <3>2, Zenon
    <3> QED BY <3>3 DEF RowSums
  <2>6. \A b \in Leiden!Order : RowSums(part[b], x_, Leiden!Span, Into(ucom, Leiden!Span, {b}))
    BY DEF RowSums, Stood
  <2>7. \A b \in Leiden!Order : \A a \in Leiden!Order : y_[a][b] = SetSum(part[b], Into(ucom, Leiden!Span, {a}))
    <3> SUFFICES ASSUME NEW b \in Leiden!Order, NEW a \in Leiden!Order
                 PROVE  y_[a][b] = SetSum(part[b], Into(ucom, Leiden!Span, {a}))
      OBVIOUS
    <3>1. y_[a][b] = EdgesBetween(a, b)
      BY DEF LeidenInv, Exact
    <3>2. part[b] = column(b)
      OBVIOUS
    <3>3. EdgesBetween(a, b) = SetSum(column(b), Stood(a))
      BY DEF EdgesBetween
    <3> HIDE DEF part, column
    <3> QED BY <3>1, <3>2, <3>3 DEF Stood
  <2> HIDE DEF rows, total, column, part
  <2>8. Grouped(y_, part, x_, ucom, Leiden!Span, Leiden!Order)
    BY <2>6, <2>7 DEF Grouped
  <2>9. Leiden!Members(c) \in SUBSET Leiden!Order /\ Leiden!Members(d) \in SUBSET Leiden!Order
    BY <1>1
  <2>10. SetSum(rows, Leiden!Members(c)) = SetSum(total, Into(ucom, Leiden!Span, Leiden!Members(c)))
    BY <1>1, <1>2, <2>4, <2>5, <2>8, <2>9, GroupsOfGroups
  <2>11. SetSum(total, Stood(c)') = SetSum(total, Into(ucom, Leiden!Span, Leiden!Members(c)))
    BY <2>3, Zenon
  <2>12. SetSum(rows, Leiden!Members(c)) \in Nat
    <3>1. \A b : IsFiniteSet(Leiden!Members(b))
      BY <1>1, FS_Subset
    <3>2. ASSUME NEW u \in Leiden!Members(c)  PROVE rows[u] \in Nat
      <4>1. \A v \in Leiden!Members(d) : y_[u][v] \in Nat
        BY <1>1, <1>2
      <4>2. SetSum(y_[u], Leiden!Members(d)) \in Nat
        BY <3>1, <4>1, SetSumNat
      <4> QED BY <2>4, <4>2 DEF RowSums
    <3> QED BY <3>1, <3>2, SetSumNat
  <2> QED BY <2>1, <2>2, <2>10, <2>11, <2>12
<1>4. Leiden!Aggregated = [c \in Leiden!Span |-> [d \in Leiden!Span |-> Leiden!Aggregated[c][d]]]
  BY DEF Leiden!Aggregated
<1>5. y_' \in Weights
  BY <1>3, <1>4 DEF Weights
<1>6. Leiden!Order' \subseteq Leiden!Span
  <2>1. Cardinality(Leiden!Communities) \in 0 .. LeidenN
    BY RenumberFacts DEF LeidenInv
  <2> QED BY <2>1, LeidenConstants DEF Leiden!Order
<1> QED BY <1>3, <1>5, <1>6

\* A mapping more, that the membership that follows is coarser than.
LEMMA NestedGrows ==
  ASSUME LeidenInv, NEW f \in [Leiden!Span -> Leiden!Span], mappings' = Append(mappings, f),
         \A i \in 1 .. Len(mappings) : Leiden!Coarser(mappings[i], f), Leiden!Coarser(f, ucom')
  PROVE  Nested' /\ mappings' \in Seq([Leiden!Span -> Leiden!Span])
<1>1. /\ mappings \in Seq([Leiden!Span -> Leiden!Span])
      /\ \A i, j \in 1 .. Len(mappings) : i < j => Leiden!Coarser(mappings[i], mappings[j])
  BY DEF LeidenInv, LeidenTypes, Nested
<1>2. /\ Len(mappings') = Len(mappings) + 1 /\ Len(mappings) \in Nat
      /\ \A i \in 1 .. Len(mappings) : mappings'[i] = mappings[i]
      /\ mappings'[Len(mappings) + 1] = f
      /\ mappings' \in Seq([Leiden!Span -> Leiden!Span])
  BY <1>1
<1>3. ASSUME NEW i \in 1 .. Len(mappings'), NEW j \in 1 .. Len(mappings'), i < j
      PROVE  Leiden!Coarser(mappings'[i], mappings'[j])
  <2>0. \A k, k1 \in Nat : k1 = k + 1 /\ i \in 1 .. k1 /\ j \in 1 .. k1
                           => i \in 1 .. k /\ (j \in 1 .. k \/ j = k + 1)
    BY <1>3
  <2>1. i \in 1 .. Len(mappings) /\ (j \in 1 .. Len(mappings) \/ j = Len(mappings) + 1)
    <3>1. Len(mappings') \in Nat /\ i \in 1 .. Len(mappings') /\ j \in 1 .. Len(mappings')
      BY <1>2
    <3> QED BY <1>2, <2>0, <3>1, Zenon
  <2> QED BY <1>1, <1>2, <1>3, <2>1
<1>4. ASSUME NEW i \in 1 .. Len(mappings')  PROVE Leiden!Coarser(mappings'[i], ucom')
  <2>1. CASE i \in 1 .. Len(mappings)
    <3>1. Leiden!Coarser(mappings[i], f) /\ mappings'[i] = mappings[i]
      BY <1>2, <2>1
    <3> QED BY <3>1 DEF Leiden!Coarser
  <2>2. CASE i = Len(mappings) + 1
    BY <1>2, <2>2
  <2> QED BY <1>2, <2>1, <2>2
<1>5. Nested'
  BY <1>3, <1>4 DEF Nested, Leiden!Coarser
<1> QED BY <1>2, <1>5

\* A pass that gives one vertex to all members of a community nests.
LEMMA PassNests ==
  ASSUME LeidenInv, l_phase = "pass", NEW com,
         \A u, v \in Leiden!Order : vcom[u] = vcom[v] => com[u] = com[v],
         ucom' = Leiden!Lookup(com), mappings' = Append(mappings, IF p_ = 0 THEN vcom ELSE ucom)
  PROVE  Nested' /\ mappings' \in Seq([Leiden!Span -> Leiden!Span])
<1>1. \A u \in Leiden!Span : ucom[u] \in Leiden!Order /\ ucom'[u] = com[ucom[u]]
  BY DEF LeidenInv, Exact, Leiden!Lookup
<1>2. vcom \in [Leiden!Span -> Leiden!Span] /\ ucom \in [Leiden!Span -> Leiden!Span]
  BY DEF LeidenInv, LeidenTypes
<1>3. CASE p_ = 0
  <2>1. mappings = << >> /\ \A u \in Leiden!Span : ucom[u] = u
    BY <1>3 DEF LeidenInv, FirstPass, Leiden!Identity
  <2>2. Leiden!Coarser(vcom, ucom')
    BY <1>1, <2>1 DEF Leiden!Coarser
  <2>3. \A i \in 1 .. Len(mappings) : Leiden!Coarser(mappings[i], vcom)
    BY <2>1
  <2>4. mappings' = Append(mappings, vcom)
    BY <1>3
  <2> QED BY <1>2, <2>2, <2>3, <2>4, NestedGrows
<1>4. CASE p_ # 0
  <2>1. Leiden!Coarser(ucom, ucom')
    BY <1>1 DEF Leiden!Coarser
  <2>2. \A i \in 1 .. Len(mappings) : Leiden!Coarser(mappings[i], ucom)
    BY DEF LeidenInv, Nested
  <2>3. mappings' = Append(mappings, ucom)
    BY <1>4
  <2> QED BY <1>2, <2>1, <2>2, <2>3, NestedGrows
<1> QED BY <1>3, <1>4

LEMMA EndPassStep ==
  ASSUME LeidenInv, Leiden!EndPass
  PROVE  LeidenInv'
<1>0. l_phase = "pass" /\ AllIdle
  BY DEF Leiden!EndPass, LeidenInv, Worker, AllIdle
<1>1. /\ AllIdle' /\ next' = 0 /\ p_' = p_ + 1 /\ p_ \in Nat
      /\ mappings' = Append(mappings, IF p_ = 0 THEN vcom ELSE ucom)
      /\ UNCHANGED <<x_, vcob, l_th>>
  BY <1>0 DEF Leiden!EndPass, AllIdle, LeidenInv, LeidenTypes
<1>2. \A t \in LeidenThreads : Worker(t)'
  BY <1>1, NobodyWorks
<1>3. SharesApart' /\ FirstPass'
  BY <1>1, NobodyWorks DEF FirstPass
<1>4. CASE Leiden!Converged
  <2>1. /\ l_phase' = "done" /\ ucom' = Leiden!Lookup(vcom)
        /\ UNCHANGED <<y_, n_, vtot, vcom, ctot>>
    BY <1>4 DEF Leiden!EndPass
  <2>2. Nested' /\ mappings' \in Seq([Leiden!Span -> Leiden!Span])
    BY <1>0, <1>1, <2>1, PassNests
  <2>3. ucom' \in [Leiden!Span -> Leiden!Span]
    BY <2>1 DEF Leiden!Lookup, LeidenInv, LeidenTypes
  <2>4. LeidenTypes'
    <3>1. Leiden!Order' = Leiden!Order
      BY <2>1 DEF Leiden!Order
    <3>2. Leiden!VertexWeights(y_)' = Leiden!VertexWeights(y_)
      BY <2>1 DEF Leiden!VertexWeights
    <3> QED BY <1>1, <2>1, <2>2, <2>3, <3>1, <3>2 DEF LeidenInv, LeidenTypes
  <2>5. Refining' /\ Exact'
    BY <2>1 DEF Refining, Exact, Leiden!refining
  <2>6. Balance'
    <3>1. Leiden!Order' = Leiden!Order
      BY <2>1 DEF Leiden!Order
    <3>2. ASSUME NEW c  PROVE Leiden!Leaving(c)' = Leiden!Leaving(c) /\ Leiden!Arriving(c)' = Leiden!Arriving(c)
      BY <1>1, <2>1, <3>1 DEF Leiden!Leaving, Leiden!Arriving
    <3>3. ASSUME NEW c  PROVE Inside(c)' = Inside(c)
      BY <2>1, <3>1, <3>2 DEF Inside
    <3> QED BY <2>1, <3>1, <3>2, <3>3 DEF Balance, LeidenInv
  <2> QED BY <1>2, <1>3, <2>2, <2>4, <2>5, <2>6 DEF LeidenInv
<1>5. CASE ~ Leiden!Converged
  <2> DEFINE com == [u \in Leiden!Span |-> IF u \in Leiden!Order THEN Leiden!Renumbered(u) ELSE 0]
  <2>1. /\ l_phase' = "move" /\ ucom' = Leiden!Lookup(com) /\ n_' = Cardinality(Leiden!Communities)
        /\ y_' = Leiden!Aggregated /\ vtot' = Leiden!VertexWeights(Leiden!Aggregated)
        /\ vcom' = Leiden!Identity /\ ctot' = vtot'
    BY <1>5, LeidenSize DEF Leiden!EndPass
  <2>2. Leiden!Order \subseteq Leiden!Span
    BY OrderFacts DEF LeidenInv, LeidenTypes
  <2>3. /\ com \in [Leiden!Span -> Nat]
        /\ \A u \in Leiden!Order : com[u] = Leiden!Renumbered(u)
        /\ \A u, v \in Leiden!Order : vcom[u] = vcom[v] => com[u] = com[v]
    <3>1. /\ \A u \in Leiden!Order : Leiden!Renumbered(u) \in 0 .. (Cardinality(Leiden!Communities) - 1)
          /\ \A u, v \in Leiden!Order : vcom[u] = vcom[v] => Leiden!Renumbered(u) = Leiden!Renumbered(v)
      BY RenumberFacts DEF LeidenInv
    <3>2. \A u \in Leiden!Order : Leiden!Renumbered(u) \in Nat
      BY <3>1
    <3> QED BY <2>2, <3>1, <3>2
  <2> HIDE DEF com
  <2>4. Nested' /\ mappings' \in Seq([Leiden!Span -> Leiden!Span])
    BY <1>0, <1>1, <2>1, <2>3, PassNests
  <2>5. /\ \A c, d \in Leiden!Order' : y_'[c][d] = EdgesBetween(c, d)'
        /\ y_' \in Weights
    BY <1>0, <1>1, <2>1, <2>3, AggregationExact
  <2>6. /\ ucom' \in [Leiden!Span -> Leiden!Span]
        /\ \A u \in Leiden!Span : ucom'[u] \in Leiden!Order'
    BY <1>0, <2>1, <2>3, MembersStand
  <2>7. /\ n_' \in 0 .. LeidenN /\ Leiden!Order' \subseteq Leiden!Span
    <3>1. n_' \in 0 .. LeidenN
      BY <2>1, RenumberFacts DEF LeidenInv
    <3>2. \A k \in 0 .. LeidenN : 0 .. (k - 1) \subseteq Leiden!Span
      BY LeidenConstants
    <3>3. Leiden!Order' = 0 .. (n_' - 1)
      BY DEF Leiden!Order
    <3> QED BY <3>1, <3>2, <3>3
  <2>8. vtot' \in [Leiden!Span -> Nat] /\ vtot' = Leiden!VertexWeights(y_)'
    <3>1. Leiden!VertexWeights(y_') \in [Leiden!Span -> Nat]
      BY <2>5, VertexWeightsFacts
    <3>2. Leiden!VertexWeights(y_)' = Leiden!VertexWeights(y_')
      BY DEF Leiden!VertexWeights
    <3> QED BY <2>1, <3>1, <3>2
  <2>9. vcom' \in [Leiden!Span -> Leiden!Span] /\ \A u \in Leiden!Span : vcom'[u] = u
    BY <2>1 DEF Leiden!Identity
  <2>10. LeidenTypes'
    <3>1. ctot' \in [Leiden!Span -> Int]
      BY <2>1, <2>8
    <3> QED BY <1>1, <2>1, <2>4, <2>5, <2>6, <2>7, <2>8, <2>9, <3>1 DEF LeidenInv, LeidenTypes
  <2>11. Balance'
    <3>1. \A c \in Leiden!Order' : vcom'[c] = c /\ ctot'[c] = vtot'[c] /\ vtot'[c] \in Int
      BY <2>1, <2>7, <2>8, <2>9
    <3> QED BY <1>1, <3>1, SinglesBalance
  <2>12. Refining'
    BY <2>1 DEF Refining, Leiden!refining
  <2>13. Exact'
    BY <2>5, <2>6 DEF Exact
  <2> QED BY <1>2, <1>3, <2>4, <2>10, <2>11, <2>12, <2>13 DEF LeidenInv
<1> QED BY <1>4, <1>5

LEMMA LeidenBegins == ASSUME Leiden!Init PROVE LeidenInv
<1>1. /\ x_ \in Weights /\ y_ = x_ /\ n_ = LeidenN /\ p_ = 0 /\ next = 0 /\ mappings = << >>
      /\ vtot = Leiden!VertexWeights(x_) /\ ctot = vtot
      /\ vcom = Leiden!Identity /\ ucom = Leiden!Identity
      /\ vcob = [u \in Leiden!Span |-> Leiden!NoCommunity]
      /\ l_phase \in {"move", "done"} /\ l_th = [t \in LeidenThreads |-> Leiden!Idle]
  BY LeidenConstants DEF Leiden!Init, Leiden!Initialized
<1>2. /\ vtot \in [Leiden!Span -> Nat] /\ vtot = Leiden!VertexWeights(y_)
      /\ vcom \in [Leiden!Span -> Leiden!Span] /\ ucom \in [Leiden!Span -> Leiden!Span]
      /\ vcob \in [Leiden!Span -> Leiden!Span] /\ ctot \in [Leiden!Span -> Int]
      /\ \A u \in Leiden!Span : vcom[u] = u /\ ucom[u] = u
  BY <1>1, VertexWeightsFacts, LeidenConstants DEF Leiden!Identity
<1>3. n_ \in 0 .. LeidenN /\ Leiden!Order = Leiden!Span
  BY <1>1, LeidenConstants DEF Leiden!Order
<1>4. Leiden!Idle \in LeidenLocals /\ Leiden!Idle.pc = "idle"
  BY LeidenConstants DEF Leiden!Idle, LeidenLocals
<1>5. l_th \in [LeidenThreads -> LeidenLocals] /\ AllIdle
  BY <1>1, <1>4 DEF AllIdle
<1>6. LeidenTypes
  BY <1>1, <1>2, <1>3, <1>5 DEF LeidenTypes
<1>7. \A t \in LeidenThreads : Worker(t)
  BY <1>5 DEF AllIdle, Worker, Moving
<1>8. SharesApart
  BY <1>5 DEF AllIdle, SharesApart, Share
<1>9. Refining
  BY <1>1 DEF Refining, Leiden!refining
<1>10. Balance
  <2> SUFFICES ASSUME NEW c \in Leiden!Span
               PROVE  ctot[c] = SetSum(vtot, Inside(c)) + SetSum(vtot, Leiden!Arriving(c))
    BY <1>3 DEF Balance
  <2>1. Leiden!Leaving(c) = {} /\ Leiden!Arriving(c) = {}
    BY <1>5 DEF AllIdle, Leiden!Leaving, Leiden!Arriving
  <2>2. Inside(c) = {c}
    BY <1>2, <1>3, <2>1 DEF Inside
  <2>3. SetSum(vtot, {c}) = vtot[c] /\ SetSum(vtot, {}) = 0 /\ vtot[c] \in Nat
    BY <1>2, SetSumOne, FS_EmptySet, SetSumFacts
  <2>4. SetSum(vtot, Inside(c)) = vtot[c] /\ SetSum(vtot, Leiden!Arriving(c)) = 0
    BY <2>1, <2>2, <2>3, Zenon
  <2> QED BY <1>1, <2>3, <2>4
<1>11. Exact
  <2>1. ASSUME NEW d \in Leiden!Span  PROVE Stood(d) = {d}
    BY <1>2 DEF Stood, Into
  <2>2. ASSUME NEW c \in Leiden!Span, NEW d \in Leiden!Span  PROVE y_[c][d] = EdgesBetween(c, d)
    <3> DEFINE row == [u \in Leiden!Span |-> SetSum(x_[u], Stood(d))]
    <3>1. EdgesBetween(c, d) = SetSum(row, Stood(c)) /\ row[c] = SetSum(x_[c], Stood(d))
      BY DEF EdgesBetween
    <3> HIDE DEF row
    <3>2. SetSum(x_[c], {d}) = x_[c][d] /\ x_[c][d] \in Int
      <4>1. x_[c][d] \in Int
        BY <1>1 DEF Weights
      <4> QED BY <4>1, SetSumOne
    <3>3. row[c] = x_[c][d]
      BY <2>1, <3>1, <3>2, Zenon
    <3>4. SetSum(row, {c}) = row[c]
      BY <3>2, <3>3, SetSumOne
    <3>5. SetSum(row, Stood(c)) = row[c]
      BY <2>1, <3>4, Zenon
    <3> QED BY <1>1, <3>1, <3>3, <3>5
  <2> QED BY <1>2, <1>3, <2>2 DEF Exact
<1>12. FirstPass /\ Nested
  BY <1>1 DEF FirstPass, Nested
<1> QED BY <1>6, <1>7, <1>8, <1>9, <1>10, <1>11, <1>12 DEF LeidenInv

LEMMA LeidenStays ==
  ASSUME LeidenInv, UNCHANGED leiden_vars
  PROVE  LeidenInv'
<1>1. UNCHANGED <<x_, y_, n_, p_, l_phase, vcom, vcob, vtot, ctot, ucom, mappings, next, l_th>>
  BY DEF leiden_vars
<1>2. /\ Leiden!Order' = Leiden!Order /\ (Leiden!refining' <=> Leiden!refining)
      /\ \A u : Near(u)' = Near(u) /\ Fit(u)' = Fit(u)
  BY <1>1, GraphStays
<1>3. Leiden!VertexWeights(y_)' = Leiden!VertexWeights(y_)
  BY <1>1 DEF Leiden!VertexWeights
<1>4. LeidenTypes'
  BY <1>1, <1>2, <1>3 DEF LeidenInv, LeidenTypes
<1>5. ASSUME NEW t \in LeidenThreads  PROVE Worker(t)' /\ Share(t)' = Share(t)
  <2>1. Share(t)' = Share(t) /\ Worker(t)
    BY <1>1 DEF Share, LeidenInv
  <2> QED BY <1>1, <1>2, <2>1 DEF Worker
<1>6. SharesApart'
  BY <1>5 DEF LeidenInv, SharesApart
<1>7. ASSUME NEW v  PROVE ToCome(v)' <=> ToCome(v)
  BY <1>1, <1>5 DEF ToCome
<1>8. Refining'
  BY <1>1, <1>2, <1>7 DEF LeidenInv, Refining
<1>9. Balance'
  <2>1. ASSUME NEW c  PROVE Leiden!Leaving(c)' = Leiden!Leaving(c) /\ Leiden!Arriving(c)' = Leiden!Arriving(c)
    BY <1>1, <1>2 DEF Leiden!Leaving, Leiden!Arriving
  <2>2. ASSUME NEW c  PROVE Inside(c)' = Inside(c)
    BY <1>1, <1>2, <2>1 DEF Inside
  <2> QED BY <1>1, <1>2, <2>1, <2>2 DEF Balance, LeidenInv
<1>10. Exact' /\ FirstPass' /\ Nested'
  BY <1>1, HistoryStays DEF LeidenInv
<1> QED BY <1>4, <1>5, <1>6, <1>8, <1>9, <1>10 DEF LeidenInv

\* The invariant of Leiden: vertices are handed to one thread each; weights
\* balance; refined communities grow from single vertices within their bounds;
\* and the graph of the pass is the one given, grouped by the membership so far.
THEOREM LeidenInvariance == MCSpec => []LeidenIInv
<1>1. MCInit => LeidenIInv
  BY LeidenBegins DEF MCInit, LeidenIInv
<1>2. LeidenIInv /\ [MCNext]_all => LeidenIInv'
  <2> SUFFICES ASSUME LeidenIInv, [MCNext]_all, which' = "leiden"  PROVE LeidenInv'
    BY DEF LeidenIInv
  <2>1. CASE ByLeiden /\ Leiden!Next
    <3>1. LeidenInv
      BY <2>1 DEF LeidenIInv, ByLeiden
    <3>2. CASE Leiden!Finished
      <4>1. UNCHANGED leiden_vars
        BY <3>2 DEF Leiden!Finished, Leiden!vars, Leiden!graph, Leiden!passes, leiden_vars
      <4> QED BY <3>1, <4>1, LeidenStays
    <3> QED BY <2>1, <3>1, <3>2, LeidenThreadStep, EndIterationStep, EndRefinementStep, EndPassStep
            DEF Leiden!Next
  <2>2. CASE (Hub /\ Next) \/ (ByRabbit /\ Rabbit!Next)
    BY <2>2 DEF Hub, ByRabbit
  <2>3. CASE UNCHANGED all
    <3>1. which' = which /\ UNCHANGED leiden_vars
      BY <2>3 DEF all
    <3> QED BY <3>1, LeidenStays DEF LeidenIInv
  <2> QED BY <2>1, <2>2, <2>3 DEF MCNext
<1> QED BY <1>1, <1>2, PTL DEF MCSpec

\* The ids made of the last mapping.
LEMMA ByLastColumn ==
  ASSUME LeidenTypes
  PROVE  Leiden!OrderedByCommunity
<1> DEFINE key == [v \in Leiden!Span |-> Leiden!LastColumn(v)]
           earlier(v) == {u \in Leiden!Span : \/ Leiden!LastColumn(u) < Leiden!LastColumn(v)
                                              \/ Leiden!LastColumn(u) = Leiden!LastColumn(v) /\ u < v}
           before == [v \in Leiden!Span |-> earlier(v)]
<1>1. \A v \in Leiden!Span : Leiden!LastColumn(v) \in Int
  <2> SUFFICES ASSUME NEW v \in Leiden!Span  PROVE Leiden!LastColumn(v) \in Int
    OBVIOUS
  <2>1. CASE mappings = << >>
    <3>1. {u \in Leiden!Span : x_[v][u] > 0} \subseteq Leiden!Span
      OBVIOUS
    <3>2. Cardinality({u \in Leiden!Span : x_[v][u] > 0}) \in Nat
      BY <3>1, LeidenConstants, FS_Subset, FS_CardinalityType
    <3>3. Leiden!LastColumn(v) = Cardinality({u \in Leiden!Span : x_[v][u] > 0})
      BY <2>1, LeidenSize DEF Leiden!LastColumn, Leiden!Degree
    <3> QED BY <3>2, <3>3
  <2>2. CASE mappings # << >>
    <3>1. mappings[Len(mappings)] \in [Leiden!Span -> Leiden!Span]
      BY <2>2 DEF LeidenTypes
    <3>2. mappings[Len(mappings)][v] \in Int
      BY <3>1, LeidenConstants
    <3> QED BY <2>2, <3>2 DEF Leiden!LastColumn
  <2> QED BY <2>1, <2>2
<1>2. key \in [Leiden!Span -> Int] /\ \A v \in Leiden!Span : key[v] = Leiden!LastColumn(v) /\ key[v] \in Int
  BY <1>1
<1>3. /\ Leiden!new_ids \in [Leiden!Span -> Nat]
      /\ \A v \in Leiden!Span : Leiden!new_ids[v] = Cardinality(before[v])
  <2>1. Leiden!new_ids = [v \in Leiden!Span |-> Leiden!Cardinality(earlier(v))]
    BY DEF Leiden!new_ids
  <2> HIDE DEF earlier
  <2>2. \A v \in Leiden!Span : /\ Leiden!Cardinality(earlier(v)) = Cardinality(before[v])
                               /\ Cardinality(before[v]) \in Nat
    <3> SUFFICES ASSUME NEW v \in Leiden!Span
                 PROVE  /\ Leiden!Cardinality(earlier(v)) = Cardinality(before[v])
                        /\ Cardinality(before[v]) \in Nat
      OBVIOUS
    <3>1. before[v] = earlier(v) /\ earlier(v) \subseteq Leiden!Span
      BY DEF earlier
    <3>2. Cardinality(earlier(v)) \in Nat
      BY <3>1, LeidenConstants, FS_Subset, FS_CardinalityType
    <3> QED BY <3>1, <3>2, LeidenSize
  <2> QED BY <2>1, <2>2
<1>4. \A v \in Leiden!Span : before[v] = {u \in Leiden!Span : key[u] < key[v] \/ (key[u] = key[v] /\ u < v)}
  <2> SUFFICES ASSUME NEW v \in Leiden!Span
               PROVE  before[v] = {u \in Leiden!Span : key[u] < key[v] \/ (key[u] = key[v] /\ u < v)}
    OBVIOUS
  <2>1. before[v] = earlier(v)
    OBVIOUS
  <2> HIDE DEF before, key
  <2>2. earlier(v) = {u \in Leiden!Span : key[u] < key[v] \/ (key[u] = key[v] /\ u < v)}
    BY <1>2
  <2> QED BY <2>1, <2>2
<1>5. /\ Leiden!Span \subseteq Int /\ IsFiniteSet(Leiden!Span) /\ Cardinality(Leiden!Span) = LeidenN
      /\ 0 .. (LeidenN - 1) \subseteq Leiden!Span
  <2>1. 0 \in Int /\ LeidenN - 1 \in Int /\ LeidenN \in Nat \ {0}
    BY LeidenConstants
  <2>2. Cardinality(0 .. (LeidenN - 1)) = IF 0 > LeidenN - 1 THEN 0 ELSE LeidenN - 1 - 0 + 1
    BY <2>1, FS_Interval
  <2> QED BY <2>1, <2>2, LeidenConstants
<1>6. PICK ids : ids = Leiden!new_ids
  OBVIOUS
<1> HIDE DEF key, before, earlier
<1>7. PICK span : span = Leiden!Span
  OBVIOUS
<1>8. Enumerates(ids, key, span)
  <2>1. LeidenN \in Nat /\ span \subseteq Int /\ IsFiniteSet(span) /\ Cardinality(span) = LeidenN
    BY <1>5, <1>7, LeidenConstants
  <2>2. \A k \in Nat : k < LeidenN => k \in span
    BY <1>7, LeidenConstants DEF Leiden!Span
  <2>3. RankedByKey(ids, before, key, span)
    BY <1>3, <1>4, <1>6, <1>7 DEF RankedByKey
  <2>4. key \in [span -> Int] /\ ids \in [span -> Nat]
    BY <1>2, <1>3, <1>6, <1>7
  <2> QED BY <2>1, <2>2, <2>3, <2>4, RankingEnumerates
<1>9. /\ ids \in [Leiden!Span -> Leiden!Span]
      /\ \A s \in Leiden!Span : \E v \in Leiden!Span : ids[v] = s
      /\ \A u, v \in Leiden!Span : ids[u] < ids[v] => key[u] <= key[v]
  BY <1>7, <1>8 DEF Enumerates
<1>10. {ids[v] : v \in Leiden!Span} = Leiden!Span
  BY <1>9
<1>11. ASSUME NEW u \in Leiden!Span, NEW v \in Leiden!Span, NEW w \in Leiden!Span,
              ids[u] < ids[v], ids[v] < ids[w], Leiden!LastColumn(u) = Leiden!LastColumn(w)
       PROVE  Leiden!LastColumn(v) = Leiden!LastColumn(u)
  <2>1. key[u] <= key[v] /\ key[v] <= key[w] /\ key[u] = key[w]
    BY <1>2, <1>9, <1>11
  <2> QED BY <1>2, <2>1
<1> QED BY <1>6, <1>10, <1>11 DEF Leiden!OrderedByCommunity

\* What a run checks of Leiden's communities follows from the invariant.
LEMMA LeidenInvIsSound ==
  ASSUME LeidenInv
  PROVE  Leiden!WeightsBalance /\ Leiden!Hierarchy
<1>1. Leiden!WeightsBalance
  BY LeidenSum DEF LeidenInv, Balance, Inside, Leiden!WeightsBalance
<1>2. Leiden!RefinedWithinBounds
  BY DEF LeidenInv, Refining, Leiden!RefinedWithinBounds
<1>3. Leiden!AggregateExact
  <2>1. \A d : Stood(d) = {v \in Leiden!Span : ucom[v] = d}
    BY DEF Stood, Into
  <2>2. ASSUME NEW c, NEW d
        PROVE  EdgesBetween(c, d) = Leiden!Sum([u \in Leiden!Span |-> Leiden!Sum(x_[u], {v \in Leiden!Span : ucom[v] = d})],
                                               {u \in Leiden!Span : ucom[u] = c})
    <3>1. [u \in Leiden!Span |-> Leiden!Sum(x_[u], {v \in Leiden!Span : ucom[v] = d})]
            = [u \in Leiden!Span |-> SetSum(x_[u], Stood(d))]
      BY <2>1, LeidenSum, Zenon
    <3> QED BY <2>1, <3>1, LeidenSum, Zenon DEF EdgesBetween
  <2>3. l_phase # "done" => /\ \A u \in Leiden!Span : ucom[u] \in Leiden!Order
                            /\ \A c, d \in Leiden!Order : y_[c][d] = EdgesBetween(c, d)
    BY DEF LeidenInv, Exact
  <2> QED BY <2>2, <2>3, Zenon DEF Leiden!AggregateExact
<1>4. Leiden!MappingsNest
  BY DEF LeidenInv, Nested, Leiden!MappingsNest
<1>5. Leiden!OrderedByCommunity
  BY ByLastColumn DEF LeidenInv
<1> QED BY <1>1, <1>2, <1>3, <1>4, <1>5 DEF Leiden!Hierarchy

\* Leiden's communities: their weights add up whatever moves race or are taken
\* back, refined ones stay within the community they came from, the graph of
\* every pass has the weights of the one given, mappings only coarsen, and the
\* ids returned keep the communities of the last mapping together.
THEOREM Sound == MCSpec => []CommunitiesAreSound
<1>1. LeidenIInv => CommunitiesAreSound
  BY LeidenInvIsSound DEF LeidenIInv, CommunitiesAreSound
<1> QED BY <1>1, LeidenInvariance, PTL

\* The thread whose vertex takes itself out of its community.
LEMMA OnlyLeaves ==
  ASSUME LeidenInv, Leiden!Next, NEW t \in LeidenThreads, l_th[t].pc = "leave", l_th'[t].pc = "join"
  PROVE  Leiden!Leave(t)
<1>1. ASSUME NEW s \in LeidenThreads, Leiden!Thread(s), s # t  PROVE FALSE
  <2>1. \E r : Leiden!Local(s, r)
    BY <1>1 DEF Leiden!Thread, Leiden!TakeChunk, Leiden!Test, Leiden!Scan, Leiden!Choose, Leiden!Leave,
       Leiden!Restore, Leiden!Join, Leiden!SetCommunity, Leiden!Wake, Leiden!Reset, Leiden!Advance, Leiden!Goto
  <2>2. l_th'[t] = l_th[t]
    BY <1>1, <2>1 DEF Leiden!Local, LeidenInv, LeidenTypes
  <2> QED BY <2>2
<1>2. ASSUME Leiden!EndIteration \/ Leiden!EndRefinement \/ Leiden!EndPass \/ Leiden!Finished  PROVE FALSE
  BY <1>2 DEF Leiden!EndIteration, Leiden!EndRefinement, Leiden!EndPass, Leiden!Finished, Leiden!vars
<1>3. Leiden!Thread(t)
  BY <1>1, <1>2 DEF Leiden!Next
<1> QED BY <1>3 DEF Leiden!Thread, Leiden!TakeChunk, Leiden!Test, Leiden!Scan, Leiden!Choose,
           Leiden!Restore, Leiden!Join, Leiden!SetCommunity, Leiden!Wake, Leiden!Reset

\* In the refinement the weight of a community with more than the vertex that
\* founded it is more than that of the vertex.
LEMMA WeightTells ==
  ASSUME LeidenInv, Leiden!refining, NEW t \in LeidenThreads, l_th[t].pc = "leave",
         NEW v \in Leiden!Order \ {l_th[t].u}, vcom[v] = vcom[l_th[t].u]
  PROVE  ctot[vcom[l_th[t].u]] > vtot[l_th[t].u]
<1>1. PICK u : u = l_th[t].u
  OBVIOUS
<1>2. u \in Leiden!Order /\ v \in Leiden!Order /\ v # u /\ vcom[u] = u /\ vcom[v] = u
  BY <1>1, OwnVertex DEF LeidenInv, Worker, Moving
<1>3. vtot[v] > 0
  BY <1>2 DEF LeidenInv, Refining
<1>4. v \in Inside(u)
  <2>1. ASSUME NEW s \in LeidenThreads, l_th[s].u = v, l_th[s].pc \in {"restore", "join", "set"}  PROVE FALSE
    BY <1>2, <2>1 DEF LeidenInv, Worker, Moving
  <2> QED BY <1>2, <2>1 DEF Inside, Leiden!Leaving
<1>5. u \in Inside(u)
  <2>1. ASSUME NEW s \in LeidenThreads, l_th[s].u = u, l_th[s].pc \in {"restore", "join", "set"}  PROVE FALSE
    <3>1. s # t
      BY <2>1
    <3> QED BY <1>1, <2>1, <3>1, Distinct
  <2> QED BY <1>2, <2>1 DEF Inside, Leiden!Leaving
<1>6. ctot[u] = SetSum(vtot, Inside(u)) + SetSum(vtot, Leiden!Arriving(u))
  BY <1>2 DEF LeidenInv, Balance
<1>7. Inside(u) \in SUBSET Leiden!Order /\ Inside(u) \ {u} \in SUBSET Leiden!Order /\ Leiden!Arriving(u) \in SUBSET Leiden!Order
  BY DEF Inside, Leiden!Arriving
<1>8. /\ SetSum(vtot, Inside(u)) = SetSum(vtot, Inside(u) \ {u}) + vtot[u] /\ vtot[u] \in Nat
      /\ SetSum(vtot, Leiden!Arriving(u)) \in Nat
  BY <1>2, <1>5, <1>7, CountsOnce DEF LeidenInv, Counts
<1>9. SetSum(vtot, Inside(u) \ {u}) = SetSum(vtot, (Inside(u) \ {u}) \ {v}) + vtot[v] /\ vtot[v] \in Nat
      /\ SetSum(vtot, (Inside(u) \ {u}) \ {v}) \in Nat
  BY <1>2, <1>4, <1>7, CountsOnce DEF LeidenInv, Counts
<1> QED BY <1>1, <1>2, <1>3, <1>6, <1>8, <1>9

\* Rabbit Order never writes to a merged vertex again, and a vertex that leaves
\* its community in Leiden's refinement leaves nobody behind.
THEOREM Stand == MCSpec => MergesStand
<1>1. LeidenIInv /\ [MCNext]_all => [ByLeiden => Leiden!LeavesAlone]_all
  <2> SUFFICES ASSUME LeidenIInv, MCNext, ByLeiden  PROVE Leiden!LeavesAlone
    OBVIOUS
  <2>1. LeidenInv /\ Leiden!Next
    BY DEF LeidenIInv, MCNext, Hub, ByRabbit, ByLeiden
  <2> SUFFICES ASSUME NEW t \in LeidenThreads, Leiden!refining, l_th[t].pc = "leave", l_th'[t].pc = "join",
                      NEW v \in Leiden!Order \ {l_th[t].u}, vcom[v] = vcom[l_th[t].u]
               PROVE  FALSE
    BY DEF Leiden!LeavesAlone
  <2>2. Leiden!Leave(t)
    BY <2>1, OnlyLeaves
  <2>3. Leiden!Alone(l_th[t].u)
    BY <2>1, <2>2 DEF Leiden!Leave, Leiden!Goto, Leiden!Local, LeidenInv, LeidenTypes, LeidenLocals
  <2>4. ctot[vcom[l_th[t].u]] <= vtot[l_th[t].u]
    BY <2>3 DEF Leiden!Alone
  <2>5. ctot[vcom[l_th[t].u]] > vtot[l_th[t].u]
    BY <2>1, WeightTells
  <2>6. ctot[vcom[l_th[t].u]] \in Int /\ vtot[l_th[t].u] \in Int
    BY <2>1, MoverFacts DEF Moving
  <2> QED BY <2>4, <2>5, <2>6
<1>2. MCSpec => [][ByLeiden => Leiden!LeavesAlone]_all
  BY <1>1, LeidenInvariance, PTL DEF MCSpec
<1>3. [ByRabbit => Rabbit!MergedIsFrozen]_all /\ [ByLeiden => Leiden!LeavesAlone]_all
        => [/\ ByRabbit => Rabbit!MergedIsFrozen
            /\ ByLeiden => Leiden!LeavesAlone]_all
  OBVIOUS
<1> QED BY <1>2, <1>3, Frozen, PTL DEF MergesStand
=============================================================================
