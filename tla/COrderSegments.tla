--------------------------- MODULE COrderSegments ---------------------------
(***************************************************************************)
(* GenerateCOrderMapping_v2 of bench/include/gapbs/builder.h: the threads  *)
(* put the hubs and the other vertices of their chunks into segments, and  *)
(* number the clusters in parallel; a cluster finds its share of both by   *)
(* the offsets of the segments.  Nothing calls it, and it is right only if *)
(* every cluster has a share left (EveryClusterHasItsShare): otherwise a   *)
(* search finds nothing, the cluster starts again with the first vertices, *)
(* or runs over the end of a segment.                                      *)
(*                                                                         *)
(* The unsigned differences of the code wrap; where a cluster starts does  *)
(* not, and where it ends only without a single vertex to number.          *)
(***************************************************************************)
EXTENDS Integers, Sequences, FiniteSets, SequencesExt

CONSTANTS
  N,               \* num_nodes()
  Inputs,          \* [degree : [NodeID -> Nat], num_edges : Nat]
  NumThreads,      \* omp_get_max_threads()
  ClusterSize      \* params::partition_size and the chunk: 1024

NodeID == 0 .. (N - 1)
ThreadIds == 0 .. (NumThreads - 1)
None == -1
num_clusters == (N - 1) \div ClusterSize + 1
Clusters == 0 .. (num_clusters - 1)

VARIABLES
  input, phase,
  todo,            \* threads that have not collected
  large_segment, small_segment,
  pending,         \* cluster -> the writes to new_ids still to be done
  new_ids

vars == <<input, phase, todo, large_segment, small_segment, pending, new_ids>>

Init ==
  /\ input \in Inputs
  /\ phase = "collect" /\ todo = ThreadIds
  /\ large_segment = [t \in ThreadIds |-> << >>] /\ small_segment = [t \in ThreadIds |-> << >>]
  /\ pending = [c \in Clusters |-> << >>]
  /\ new_ids = [v \in NodeID |-> None]

IsHub(v) == input.degree[v] > input.num_edges \div N

\* The part of schedule(static, 1024).
Part(t) == SelectSeq([i \in 1 .. N |-> i - 1], LAMBDA v : (v \div ClusterSize) % NumThreads = t)

Collect(t) ==
  /\ phase = "collect" /\ t \in todo
  /\ large_segment' = [large_segment EXCEPT ![t] = SelectSeq(Part(t), IsHub)]
  /\ small_segment' = [small_segment EXCEPT ![t] = SelectSeq(Part(t), LAMBDA v : ~ IsHub(v))]
  /\ todo' = todo \ {t}
  /\ UNCHANGED <<input, phase, pending, new_ids>>

-----------------------------------------------------------------------------

Offset(segment, t) == Len(FlattenSeq([s \in 1 .. t |-> segment[s - 1]]))
Total(segment) == Offset(segment, NumThreads)

num_large_per_seg == (Total(large_segment) + num_clusters - 1) \div num_clusters
num_small_per_seg == ClusterSize - num_large_per_seg

\* The first thread the loop over the offsets stops at, if any.
FirstFrom(first, stops) == {t \in stops : t >= first /\ \A s \in stops : s >= first => t <= s}

HoldsStart(segment, t, from) == Offset(segment, t + 1) > from

StartOf(segment, from) ==
  LET found == FirstFrom(0, {t \in ThreadIds : HoldsStart(segment, t, from)})
  IN  IF found = {} THEN [t |-> 0, v |-> 0]
      ELSE LET t == CHOOSE t \in found : TRUE IN [t |-> t, v |-> from - Offset(segment, t)]

HoldsEnd(segment, t, to) == Offset(segment, t + 1) >= to

EndOf(segment, start_t, to) ==
  LET found == FirstFrom(start_t, {t \in ThreadIds : HoldsEnd(segment, t, to)})
  IN  IF found = {} THEN [t |-> 0, v |-> 0]
      ELSE LET t == CHOOSE t \in found : TRUE IN [t |-> t, v |-> to - Offset(segment, t) - 1]

Cells(row, first, last) == IF row = << >> THEN << >> ELSE SubSeq(row, first + 1, last + 1)

\* The vertices numbered from one start to one end.
Share(segment, start, end) ==
  IF start.t = end.t THEN Cells(segment[start.t], start.v, end.v)
  ELSE FlattenSeq([k \in 1 .. (end.t - start.t) |->
                     LET row == segment[start.t + k - 1]
                     IN  Cells(row, IF k = 1 THEN start.v ELSE 0, Len(row) - 1)])
       \o Cells(segment[end.t], 0, end.v)

FromTo(segment, per_seg, c) ==
  LET start == StartOf(segment, c * per_seg)
      to == IF c # num_clusters - 1 THEN (c + 1) * per_seg ELSE Total(segment)
  IN  [start |-> start, end |-> EndOf(segment, start.t, to)]

\* end_v wrapped around: the loop leaves the segment.
Overruns(segment, per_seg, c) ==
  LET range == FromTo(segment, per_seg, c)
  IN  range.end.v < 0 /\ segment[range.end.t] # << >>

Writes(c) ==
  LET large == FromTo(large_segment, num_large_per_seg, c)
      small == FromTo(small_segment, num_small_per_seg, c)
      shares == Share(large_segment, large.start, large.end) \o Share(small_segment, small.start, small.end)
  IN  [k \in 1 .. Len(shares) |-> <<shares[k], c * ClusterSize + k - 1>>]

Divide ==
  /\ phase = "collect" /\ todo = {}
  /\ IF \E c \in Clusters : \/ Overruns(large_segment, num_large_per_seg, c)
                            \/ Overruns(small_segment, num_small_per_seg, c)
     THEN phase' = "crashed" /\ UNCHANGED pending
     ELSE phase' = "number" /\ pending' = [c \in Clusters |-> Writes(c)]
  /\ UNCHANGED <<input, todo, large_segment, small_segment, new_ids>>

Number(c) ==
  /\ phase = "number" /\ pending[c] # << >>
  /\ new_ids' = [new_ids EXCEPT ![Head(pending[c])[1]] = Head(pending[c])[2]]
  /\ pending' = [pending EXCEPT ![c] = Tail(@)]
  /\ UNCHANGED <<input, phase, todo, large_segment, small_segment>>

Finish ==
  /\ phase = "number" /\ \A c \in Clusters : pending[c] = << >>
  /\ phase' = "done"
  /\ UNCHANGED <<input, todo, large_segment, small_segment, pending, new_ids>>

Finished == phase \in {"done", "crashed"} /\ UNCHANGED vars

Next ==
  \/ Divide \/ Finish \/ Finished
  \/ \E t \in ThreadIds : Collect(t)
  \/ \E c \in Clusters : Number(c)

Spec == Init /\ [][Next]_vars

-----------------------------------------------------------------------------

EveryClusterHasItsShare ==
  LET HasShares(segment, per_seg) == Total(segment) = 0 \/ per_seg * (num_clusters - 1) < Total(segment)
  IN  /\ HasShares(large_segment, num_large_per_seg) /\ HasShares(small_segment, num_small_per_seg)
      /\ Total(small_segment) = 0 \/ num_small_per_seg > 0

InSegments(segment) == FlattenSeq([t \in 1 .. NumThreads |-> segment[t - 1]])
Ascending(sequence) == \A i, j \in DOMAIN sequence : i < j => new_ids[sequence[i]] < new_ids[sequence[j]]

(***************************************************************************)
(* If every cluster has its share, all vertices are numbered, once; each   *)
(* cluster has the same number of hubs, in its first cells; and both kinds *)
(* keep the order of the segments, although a share may begin and end in   *)
(* the segments of different threads.                                      *)
(***************************************************************************)
HubsAreSpread ==
  phase \in {"done", "crashed"} /\ EveryClusterHasItsShare =>
    /\ phase = "done" /\ {new_ids[v] : v \in NodeID} = NodeID
    /\ \A v \in NodeID : new_ids[v] < (num_clusters - 1) * ClusterSize =>
         (IsHub(v) <=> new_ids[v] % ClusterSize < num_large_per_seg)
    /\ Ascending(InSegments(large_segment)) /\ Ascending(InSegments(small_segment))
=============================================================================
