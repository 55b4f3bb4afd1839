---------------------------- MODULE LeidenMapping ----------------------------
(***************************************************************************)
(* From Leiden's communities to ids, in bench/include/gapbs/builder.h:     *)
(*   "last"  GenerateLeidenMapping sorts the vertices by their community   *)
(*           of the last pass;                                             *)
(*   "full"  GenerateLeidenFullMapping sorts them by degree and then by    *)
(*           every pass in turn, with stable sorts, and groups the order   *)
(*           found by degree (GenerateDBGMappingInterim).                  *)
(* The communities of each pass are arbitrary, as are the vertices' edges. *)
(* Loops over disjoint cells are one step; where the outcome depends on    *)
(* how a loop is divided, a thread's part is one.                          *)
(*                                                                         *)
(* num_nodes_ is the builder's own member: the number of vertices if it    *)
(* built the graph from an edge list, -1 if it read a serialized one.      *)
(***************************************************************************)
EXTENDS Integers, Sequences, FiniteSets, SequencesExt

CONSTANTS
  N,             \* num_nodes() and x.span()
  Inputs,        \* [kind, degree, deg_x, num_edges, mapping, num_nodes_]:
                 \* degree of g, deg_x of x, mapping a sequence of [NodeID -> Nat]
  NumThreads,
  NumBuckets,
  Garbage        \* degrees a read of out_degree(-1) may return

NodeID == 0 .. (N - 1)
ThreadIds == 0 .. (NumThreads - 1)
None == -1

VARIABLES
  input, phase,
  rows,           \* communityVectorTuplePerPass: the vertices in their order
  column,         \* the next one to sort by
  interim_ids, interim_ids_inv,
  todo,           \* threads that have not done their part
  local_buckets,  \* thread -> bucket -> positions of the interim order
  start_k,
  new_ids_interim, new_ids

dbg == <<interim_ids_inv, todo, local_buckets, start_k, new_ids_interim>>
vars == <<input, phase, rows, column, interim_ids, dbg, new_ids>>

NumPasses == Len(input.mapping) + 2

Nothing == [v \in NodeID |-> None]
NoBuckets == [t \in ThreadIds |-> [j \in 0 .. (NumBuckets - 1) |-> << >>]]

Init ==
  /\ input \in Inputs
  /\ phase = "sort"
  /\ rows = [i \in NodeID |-> i]
  /\ column = IF input.kind = "full" THEN 1 ELSE Len(input.mapping) + 1
  /\ interim_ids = Nothing /\ interim_ids_inv = Nothing
  /\ todo = {} /\ local_buckets = NoBuckets /\ start_k = << >>
  /\ new_ids_interim = Nothing /\ new_ids = Nothing

-----------------------------------------------------------------------------
(* Column 0 of a row is the vertex, column 1 its degree, the others the    *)
(* communities of the passes.                                              *)

Element(v, c) == IF c = 0 THEN v ELSE IF c = 1 THEN input.deg_x[v] ELSE input.mapping[c - 1][v]

\* Variant: the row comes before those equal to it that were in front.
SortsBeforeReversed(i, j, c) ==
  \/ Element(rows[i], c) < Element(rows[j], c)
  \/ Element(rows[i], c) = Element(rows[j], c) /\ i > j

\* The order of a stable sort.
SortsBefore(i, j, c) ==
  \/ Element(rows[i], c) < Element(rows[j], c)
  \/ Element(rows[i], c) = Element(rows[j], c) /\ i < j

Place(i, c) == Cardinality({j \in NodeID : SortsBefore(j, i, c)})

sort_by_vector_element ==
  /\ phase = "sort" /\ column < NumPasses
  /\ rows' = [k \in NodeID |-> rows[CHOOSE i \in NodeID : Place(i, column) = k]]
  /\ column' = column + 1
  /\ UNCHANGED <<input, phase, interim_ids, dbg, new_ids>>

Positions == [v \in NodeID |-> CHOOSE i \in NodeID : rows[i] = v]

AssignIds ==
  /\ phase = "sort" /\ column = NumPasses
  /\ IF input.kind = "last"
     THEN new_ids' = Positions /\ phase' = "done" /\ UNCHANGED interim_ids
     ELSE interim_ids' = Positions /\ phase' = "invert" /\ UNCHANGED new_ids
  /\ UNCHANGED <<input, rows, column, dbg>>

-----------------------------------------------------------------------------
(* GenerateDBGMappingInterim. *)

OfMember == {v \in NodeID : v < input.num_nodes_}

Invert ==
  /\ phase = "invert"
  /\ interim_ids_inv' = [k \in NodeID |->
       IF \E v \in OfMember : interim_ids[v] = k THEN CHOOSE v \in OfMember : interim_ids[v] = k ELSE None]
  /\ todo' = ThreadIds
  /\ phase' = "classify"
  /\ UNCHANGED <<input, rows, column, interim_ids, local_buckets, start_k, new_ids_interim, new_ids>>

Average == input.num_edges \div N

\* av / 2, av, av * 2, ...; the last is unbounded.
Threshold(j) == IF j = 0 THEN Average \div 2 ELSE Average * 2 ^ (j - 1)
Fits(count, j) == j = NumBuckets - 1 \/ count <= Threshold(j)
BucketOf(count) == CHOOSE j \in 0 .. (NumBuckets - 1) : Fits(count, j) /\ \A i \in 0 .. (j - 1) : ~Fits(count, i)

\* schedule(static): the first N % NumThreads threads take one more.
StaticPart(t) ==
  LET First(s) == ((N \div NumThreads) * s) + (IF s < N % NumThreads THEN s ELSE N % NumThreads)
  IN  [i \in 1 .. (First(t + 1) - First(t)) |-> First(t) + i - 1]

CountAt(k, unread) == IF interim_ids_inv[k] = None THEN unread ELSE input.degree[interim_ids_inv[k]]

Classify(t) ==
  /\ phase = "classify" /\ t \in todo
  /\ \E unread \in Garbage :
       local_buckets' = [local_buckets EXCEPT ![t] =
         [j \in 0 .. (NumBuckets - 1) |-> SelectSeq(StaticPart(t), LAMBDA k : BucketOf(CountAt(k, unread)) = j)]]
  /\ todo' = todo \ {t}
  /\ UNCHANGED <<input, phase, rows, column, interim_ids, interim_ids_inv, start_k, new_ids_interim, new_ids>>

\* The elements of the buckets in front of bucket j of thread t.
InFront(t, j) ==
  Cardinality(UNION {ToSet(local_buckets[s][i]) : s \in ThreadIds, i \in (j + 1) .. (NumBuckets - 1)}
                \union UNION {ToSet(local_buckets[s][j]) : s \in 0 .. (t - 1)})

LayOut ==
  /\ phase = "classify" /\ todo = {}
  /\ start_k' = [t \in ThreadIds |-> [j \in 0 .. (NumBuckets - 1) |-> InFront(t, j)]]
  /\ todo' = ThreadIds
  /\ phase' = "assign"
  /\ UNCHANGED <<input, rows, column, interim_ids, interim_ids_inv, local_buckets, new_ids_interim, new_ids>>

Assign(t) ==
  /\ phase = "assign" /\ t \in todo
  /\ new_ids_interim' = [k \in NodeID |->
       IF \E j \in 0 .. (NumBuckets - 1) : k \in ToSet(local_buckets[t][j])
       THEN LET j == CHOOSE j \in 0 .. (NumBuckets - 1) : k \in ToSet(local_buckets[t][j])
            IN  start_k[t][j] + (CHOOSE i \in DOMAIN local_buckets[t][j] : local_buckets[t][j][i] = k) - 1
       ELSE new_ids_interim[k]]
  /\ todo' = todo \ {t}
  /\ UNCHANGED <<input, phase, rows, column, interim_ids, interim_ids_inv, local_buckets, start_k, new_ids>>

Compose ==
  /\ phase = "assign" /\ todo = {}
  /\ new_ids' = [v \in NodeID |-> IF v \in OfMember THEN new_ids_interim[interim_ids[v]] ELSE new_ids[v]]
  /\ phase' = "done"
  /\ UNCHANGED <<input, rows, column, interim_ids, dbg>>

Returned == phase = "done" /\ UNCHANGED vars

Next ==
  \/ sort_by_vector_element \/ AssignIds \/ Invert \/ LayOut \/ Compose \/ Returned
  \/ \E t \in ThreadIds : Classify(t) \/ Assign(t)

Spec == Init /\ [][Next]_vars

-----------------------------------------------------------------------------

\* Of two vertices, the first pass from the last back to `from' that tells
\* them apart decides; 1 is the degree, 0 the id.
Before(u, v, from) ==
  \E c \in from .. (NumPasses - 1) \union {0} :
    /\ Element(u, c) < Element(v, c)
    /\ \A d \in from .. (NumPasses - 1) : (c = 0 \/ d > c) => Element(u, d) = Element(v, d)

Follows(u, v) == IF input.kind = "last" THEN Before(u, v, NumPasses - 1) ELSE Before(u, v, 1)

(***************************************************************************)
(* The ids follow the communities: those of the last pass, or, in the      *)
(* order the degree groups are taken from, those of the last pass and      *)
(* within each those of the pass before, down to the degrees: only because *)
(* every sort is stable.                                                   *)
(***************************************************************************)
CommunitiesInOrder ==
  LET ids == IF input.kind = "last" THEN new_ids ELSE interim_ids
  IN  phase \notin {"sort"} => \A u, v \in NodeID : ids[u] < ids[v] <=> Follows(u, v)

(***************************************************************************)
(* The full order is a permutation with the highest degrees in front, and  *)
(* inside a degree group the interim order is kept, however many threads   *)
(* there are: "This loop relies on a static scheduling" (builder.h 5388).  *)
(* It needs num_nodes_, so the graph may not come from a serialized file;  *)
(* from one, no vertex gets an id at all.                                  *)
(***************************************************************************)
FullOrder ==
  (phase = "done" /\ input.kind = "full") =>
    IF input.num_nodes_ = N
    THEN /\ {new_ids[v] : v \in NodeID} = NodeID
         /\ \A u, v \in NodeID :
              new_ids[u] < new_ids[v] <=>
                \/ BucketOf(input.degree[u]) > BucketOf(input.degree[v])
                \/ BucketOf(input.degree[u]) = BucketOf(input.degree[v]) /\ interim_ids[u] < interim_ids[v]
    ELSE new_ids = Nothing
=============================================================================
