---------------------------- MODULE DegreeOrders ----------------------------
(***************************************************************************)
(* The orders of bench/include/gapbs/builder.h that look at nothing but    *)
(* degrees, other than HubSort and HubCluster (HubMapping.tla):            *)
(*   Sort, SortRabbit         a stable sort of all vertices;               *)
(*   DBG, HubClusterDBG       every thread puts the vertices of its static *)
(*                            part into buckets, which are then laid out   *)
(*                            one after the other, from the highest down;  *)
(*   HubSortDBG               the hubs sorted, then the others slice by    *)
(*                            slice;                                       *)
(*   COrder                   partitions with the same share of hubs each, *)
(*                            and a tail numbered by an atomic counter.    *)
(* In each parallel region a thread writes cells nobody else reads before  *)
(* the barrier: the region of a thread is one step, except in COrder's     *)
(* tail, where every turn takes its number from the shared counter.        *)
(***************************************************************************)
EXTENDS Integers, Sequences, FiniteSets

CONSTANTS N,               \* num_nodes()
          Inputs,          \* [degree, in_degree : [NodeID -> Nat], num_edges : Nat]
          Kinds,
          NumThreads,      \* omp_get_max_threads()
          NumBuckets,      \* num_buckets of GenerateDBGMapping
          PartitionSize    \* params::partition_size

NodeID == 0 .. (N - 1)
ThreadIds == 0 .. (NumThreads - 1)
None == -1                 \* (NodeID_)UINT_E_MAX

DegreeOrdersAssumption ==
  /\ {N, NumThreads, NumBuckets, PartitionSize} \subseteq Nat \ {0}
  /\ Kinds \subseteq {"Sort", "SortRabbit", "DBG", "HubClusterDBG", "HubSortDBG", "COrder"}
  /\ \A i \in Inputs : i.degree \in [NodeID -> Nat] /\ i.in_degree \in [NodeID -> Nat] /\ i.num_edges \in Nat

VARIABLES input,           \* degree is the out- or in-degree, as useOutdeg says
          kind, new_ids, phase,
          todo,            \* the threads, or COrder's iterations, still to run
          local,           \* per thread: its buckets, HubSortDBG its hubs
          start,           \* per thread: start_k, HubSortDBG its new_index
          index            \* COrder: the counter of the tail

vars == <<input, kind, new_ids, phase, todo, local, start, index>>

Average == input.num_edges \div N
IsHub(v) == input.degree[v] > Average

\* The vertices of S, in the order of their ids.
Listed(S) == SelectSeq([i \in 1 .. N |-> i - 1], LAMBDA v : v \in S)
Elements(s) == {s[i] : i \in 1 .. Len(s)}
PositionOf(v, s) == CHOOSE i \in 1 .. Len(s) : s[i] = v

-----------------------------------------------------------------------------
(* GenerateSortMapping and GenerateSortMappingRabbit.                      *)

\* The order of the comparator; a stable sort breaks ties by id.
SortsBefore(u, v) == input.degree[u] > input.degree[v]

IsIsolated(v) == input.degree[v] = 0 /\ input.in_degree[v] = 0

RabbitSortsBefore(u, v) ==
  /\ ~IsIsolated(u)
  /\ \/ IsIsolated(v)
     \/ input.degree[u] > input.degree[v]
     \/ input.degree[u] = input.degree[v] /\ input.in_degree[u] > input.in_degree[v]

Precedes(u, v) == IF kind = "Sort" THEN SortsBefore(u, v) ELSE RabbitSortsBefore(u, v)

StableRank(v) ==
  Cardinality({u \in NodeID : Precedes(u, v) \/ (u < v /\ ~Precedes(v, u))})

SortAll ==
  /\ phase = "sort"
  /\ new_ids' = [v \in NodeID |-> StableRank(v)]
  /\ phase' = "done"
  /\ UNCHANGED <<input, kind, todo, local, start, index>>

-----------------------------------------------------------------------------
(* GenerateDBGMapping and GenerateHubClusterDBGMapping.                    *)

Buckets == 0 .. ((IF kind = "DBG" THEN NumBuckets ELSE 2) - 1)
LastBucket == Cardinality(Buckets) - 1

\* av / 2, av, av * 2, av * 4, ...; av alone; the last one is unbounded.
Threshold(j) == IF kind = "HubClusterDBG" THEN Average
                ELSE IF j = 0 THEN Average \div 2 ELSE Average * 2 ^ (j - 1)

BucketOf(v) ==
  LET fits(j) == j = LastBucket \/ input.degree[v] <= Threshold(j)
  IN  CHOOSE j \in Buckets : fits(j) /\ \A i \in Buckets : i < j => ~fits(i)

\* The part of schedule(static): the first N % NumThreads have one more.
StaticPart(t) ==
  LET q == N \div NumThreads
      r == N % NumThreads
  IN  IF t < r THEN (t * (q + 1)) .. (t * (q + 1) + q) ELSE (t * q + r) .. (t * q + r + q - 1)

\* The slices of HubSortDBG: the last one takes the rest.
Slice(t) ==
  LET slice == N \div NumThreads
  IN  (t * slice) .. (IF t = NumThreads - 1 THEN N - 1 ELSE (t + 1) * slice - 1)

Classify(t) ==
  /\ phase = "classify" /\ t \in todo
  /\ local' = [local EXCEPT ![t] =
                 IF kind = "HubSortDBG" THEN << Listed({v \in Slice(t) : IsHub(v)}) >>
                 ELSE [j \in Buckets |-> Listed({v \in StaticPart(t) : BucketOf(v) = j})]]
  /\ todo' = todo \ {t}
  /\ UNCHANGED <<input, kind, new_ids, phase, start, index>>

\* Variant: the lowest bucket goes first.
InFrontFromBelow(t, j) ==
  Cardinality(UNION {Elements(local[s][i]) : s \in ThreadIds, i \in {b \in Buckets : b < j}}
                \cup UNION {Elements(local[s][j]) : s \in {u \in ThreadIds : u < t}})

\* What the buckets in front of bucket j of thread t hold.
InFront(t, j) ==
  Cardinality(UNION {Elements(local[s][i]) : s \in ThreadIds, i \in {b \in Buckets : b > j}}
                \cup UNION {Elements(local[s][j]) : s \in {u \in ThreadIds : u < t}})

LayOut ==
  /\ phase = "classify" /\ todo = {} /\ kind # "HubSortDBG"
  /\ start' = [t \in ThreadIds |-> [j \in Buckets |-> InFront(t, j)]]
  /\ phase' = "assign" /\ todo' = ThreadIds
  /\ UNCHANGED <<input, kind, new_ids, local, index>>

\* The id of a vertex in bucket j of thread t.
NewId(t, j, v) == start[t][j] + PositionOf(v, local[t][j]) - 1

Assign(t) ==
  /\ phase = "assign" /\ t \in todo /\ kind # "HubSortDBG"
  /\ new_ids' = [v \in NodeID |->
                   IF \E j \in Buckets : v \in Elements(local[t][j])
                   THEN NewId(t, CHOOSE j \in Buckets : v \in Elements(local[t][j]), v)
                   ELSE new_ids[v]]
  /\ todo' = todo \ {t}
  /\ UNCHANGED <<input, kind, phase, local, start, index>>

-----------------------------------------------------------------------------
(* GenerateHubSortDBGMapping.                                              *)

Hubs == UNION {Elements(local[t][1]) : t \in ThreadIds}

\* Sorted by std::greater on the pairs (degree, id).
HubRank(v) ==
  Cardinality({u \in Hubs : \/ input.degree[u] > input.degree[v]
                            \/ input.degree[u] = input.degree[v] /\ u > v})

RestBefore(t) ==
  Cardinality(UNION {Slice(s) \ Elements(local[s][1]) : s \in {u \in ThreadIds : u < t}})

RankHubs ==
  /\ phase = "classify" /\ todo = {} /\ kind = "HubSortDBG"
  /\ new_ids' = [v \in NodeID |-> IF v \in Hubs THEN HubRank(v) ELSE new_ids[v]]
  /\ start' = [t \in ThreadIds |-> Cardinality(Hubs) + RestBefore(t)]
  /\ phase' = "assign" /\ todo' = ThreadIds
  /\ UNCHANGED <<input, kind, local, index>>

\* Variant: the second loop takes the hubs of its part, too.
NumberedOrNot(v) == TRUE

Unnumbered(v) == new_ids[v] = None

AssignRest(t) ==
  /\ phase = "assign" /\ t \in todo /\ kind = "HubSortDBG"
  /\ LET rest == Listed({v \in Slice(t) : Unnumbered(v)})
     IN  new_ids' = [v \in NodeID |-> IF v \in Elements(rest)
                                      THEN start[t] + PositionOf(v, rest) - 1 ELSE new_ids[v]]
  /\ todo' = todo \ {t}
  /\ UNCHANGED <<input, kind, phase, local, start, index>>

-----------------------------------------------------------------------------
(* GenerateCOrderMapping.                                                  *)

CeilDiv(a, b) == (a + b - 1) \div b

segment_large == Listed({v \in NodeID : IsHub(v)})
segment_small == Listed({v \in NodeID : ~IsHub(v)})
num_partitions == (N - 1) \div PartitionSize + 1
num_large_per_seg == CeilDiv(Len(segment_large), num_partitions)
num_small_per_seg == PartitionSize - num_large_per_seg

\* The first c partitions can be filled.
CanFill(c) == num_large_per_seg * c <= Len(segment_large) /\ num_small_per_seg * c <= Len(segment_small)

last_cls == CHOOSE c \in 0 .. (num_partitions - 1) :
              CanFill(c) /\ \A d \in (c + 1) .. (num_partitions - 1) : ~CanFill(d)

\* The j-th hub, or other vertex, of partition i.
Large(i, j) == segment_large[i * num_large_per_seg + j + 1]
Small(i, j) == segment_small[i * num_small_per_seg + j + 1]

FillPartition(i) ==
  /\ phase = "partitions" /\ i \in todo
  /\ LET ids == [v \in {Large(i, j) : j \in 0 .. (num_large_per_seg - 1)} |->
                   i * PartitionSize + PositionOf(v, segment_large) - 1 - i * num_large_per_seg]
         others == [v \in {Small(i, j) : j \in 0 .. (num_small_per_seg - 1)} |->
                      i * PartitionSize + num_large_per_seg
                        + PositionOf(v, segment_small) - 1 - i * num_small_per_seg]
     IN  new_ids' = [v \in NodeID |-> IF v \in DOMAIN ids THEN ids[v]
                                      ELSE IF v \in DOMAIN others THEN others[v] ELSE new_ids[v]]
  /\ todo' = todo \ {i}
  /\ UNCHANGED <<input, kind, phase, local, start, index>>

Remainder(segment, per_seg) == Elements(SubSeq(segment, per_seg * last_cls + 1, Len(segment)))

TailStart == last_cls * PartitionSize

StartLargeTail ==
  /\ phase = "partitions" /\ todo = {}
  /\ phase' = "large" /\ todo' = Remainder(segment_large, num_large_per_seg)
  /\ index' = TailStart
  /\ UNCHANGED <<input, kind, new_ids, local, start>>

\* __sync_fetch_and_add, and the write to the cell of its own.
TakeIndex(v) ==
  /\ phase \in {"large", "small"} /\ v \in todo
  /\ new_ids' = [new_ids EXCEPT ![v] = index]
  /\ index' = index + 1
  /\ todo' = todo \ {v}
  /\ UNCHANGED <<input, kind, phase, local, start>>

StartSmallTail ==
  /\ phase = "large" /\ todo = {}
  /\ phase' = "small" /\ todo' = Remainder(segment_small, num_small_per_seg)
  /\ UNCHANGED <<input, kind, new_ids, local, start, index>>

-----------------------------------------------------------------------------
FirstPhase == IF kind \in {"Sort", "SortRabbit"} THEN "sort"
              ELSE IF kind = "COrder" THEN "partitions" ELSE "classify"

Init ==
  /\ input \in Inputs /\ kind \in Kinds
  /\ new_ids = [v \in NodeID |-> None]
  /\ phase = FirstPhase
  /\ todo = IF phase = "partitions" THEN 0 .. (last_cls - 1)
            ELSE IF phase = "classify" THEN ThreadIds ELSE {}
  /\ local = [t \in ThreadIds |-> << >>] /\ start = [t \in ThreadIds |-> << >>]
  /\ index = 0

Finish == /\ phase \in {"assign", "small"} /\ todo = {}
          /\ phase' = "done"
          /\ UNCHANGED <<input, kind, new_ids, todo, local, start, index>>

Finished == phase = "done" /\ UNCHANGED vars

Next ==
  \/ SortAll \/ LayOut \/ RankHubs
  \/ \E t \in ThreadIds : Classify(t) \/ Assign(t) \/ AssignRest(t)
  \/ \E i \in 0 .. (num_partitions - 1) : FillPartition(i)
  \/ StartLargeTail \/ StartSmallTail
  \/ \E v \in NodeID : TakeIndex(v)
  \/ Finish \/ Finished

Spec == Init /\ [][Next]_vars

-----------------------------------------------------------------------------
(* Whatever the threads do, the vertices end in the order of the kind: by  *)
(* degree, by bucket or hubs first, and otherwise by their old ids (hubs   *)
(* of HubSortDBG by descending ids).  The buckets of a thread only hold    *)
(* ascending ids in ascending parts because the schedule is static.        *)
Class(v) == IF kind = "HubSortDBG" THEN (IF IsHub(v) THEN input.degree[v] ELSE 0)
            ELSE IF kind \in {"Sort", "SortRabbit"} THEN input.degree[v]
            ELSE BucketOf(v)

Ahead(u, v) ==
  \/ Class(u) > Class(v)
  \/ /\ Class(u) = Class(v)
     /\ IF kind = "SortRabbit" /\ input.in_degree[u] # input.in_degree[v]
          THEN input.in_degree[u] > input.in_degree[v]
        ELSE IF kind = "HubSortDBG" /\ IsHub(u) THEN u > v ELSE u < v

OrderedByDegree ==
  phase = "done" /\ kind # "COrder" =>
    \A v \in NodeID : new_ids[v] = Cardinality({u \in NodeID : Ahead(u, v)})

(* COrder gives the ids 0 .. N - 1, and every partition but the tail has   *)
(* its share of hubs, in the first cells of the partition.                 *)
HubsAreSpread ==
  phase = "done" /\ kind = "COrder" =>
    /\ {new_ids[v] : v \in NodeID} = NodeID
    /\ \A v \in NodeID : new_ids[v] < last_cls * PartitionSize =>
         (IsHub(v) <=> new_ids[v] % PartitionSize < num_large_per_seg)

(* No vertex is numbered twice: each of the loops that write new_ids has   *)
(* cells of its own.                                                       *)
NumberedOnce ==
  \A v \in NodeID : new_ids[v] # None => new_ids'[v] = new_ids[v]
=============================================================================
