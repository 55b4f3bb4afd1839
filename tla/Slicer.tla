------------------------------- MODULE Slicer -------------------------------
(***************************************************************************)
(* graphSlicer of bench/include/gapbs/builder.h: the sub-graph of the      *)
(* edges to (outDegree) or from the vertices in [startID, stopID), in the  *)
(* form of every CSR there: the index is taken from the offsets before the *)
(* rows are filled, and filling moves the offsets to the ends of the rows. *)
(* The other lists are copied whole if modifyBothDestlists, else missing,  *)
(* and a graph without out-lists cannot be made: CSRGraph reads its number *)
(* of edges off the out-index (phase "crashed").  The comments ask for     *)
(* such a slice in pull implementations, and MakeCagraPartitionedGraph     *)
(* with -z makes it.                                                       *)
(*                                                                         *)
(* Each iteration of the loops has a row of its own and is one step.       *)
(***************************************************************************)
EXTENDS Containers, Integers, Sequences

CONSTANTS
  N,            \* num_nodes()
  Graphs,       \* [directed, out, in], rows of neighbours
  BlockSize     \* of ParallelPrefixSum

NodeID == 0 .. (N - 1)

VARIABLES
  g, range, outDegree, modifyBothDestlists, phase,
  todo,         \* iterations not yet taken
  offsets,      \* of the lists being filled
  csr,          \* the slice: [offsets, neighs], offsets being the index
  inv_csr,      \* the other lists, None without
  result

vars == <<g, range, outDegree, modifyBothDestlists, phase, todo, offsets, csr, inv_csr, result>>

None == << >>

Init ==
  /\ g \in Graphs
  /\ range \in {r \in [startID : 0 .. N, stopID : 0 .. N] : r.startID <= r.stopID}
  /\ outDegree \in BOOLEAN
  /\ modifyBothDestlists \in IF g.directed THEN BOOLEAN ELSE {FALSE}
  /\ phase = "slice" /\ todo = {}
  /\ offsets = None /\ csr = None /\ inv_csr = None /\ result = None

Side == IF g.directed /\ ~ outDegree THEN g.in ELSE g.out
Others == IF outDegree THEN g.in ELSE g.out

Kept(row) == SelectSeq(row, LAMBDA m : range.startID <= m /\ m < range.stopID)

Empty(degrees) ==
  LET sums == ParallelPrefixSum(degrees, N, BlockSize)
  IN  [offsets |-> sums, neighs |-> [i \in 0 .. (sums[N] - 1) |-> 0]]

\* neighs[offsets[u]++] for every element of the row.
Filled(lists, u, row) ==
  [lists EXCEPT !.neighs = Written(lists.neighs, offsets[u], row)]

Allocate ==
  /\ phase = "slice"
  /\ csr' = Empty([n \in NodeID |-> Len(Kept(Side[n]))])
  /\ offsets' = csr'.offsets
  /\ todo' = NodeID /\ phase' = "rows"
  /\ UNCHANGED <<g, range, outDegree, modifyBothDestlists, inv_csr, result>>

FillRow(u) ==
  /\ phase = "rows" /\ u \in todo
  /\ csr' = Filled(csr, u, Kept(Side[u]))
  /\ offsets' = [offsets EXCEPT ![u] = @ + Len(Kept(Side[u]))]
  /\ todo' = todo \ {u}
  /\ UNCHANGED <<g, range, outDegree, modifyBothDestlists, phase, inv_csr, result>>

AllocatedInverse(degrees) == Empty(degrees)

AllocateInverse ==
  /\ phase = "rows" /\ todo = {} /\ modifyBothDestlists
  /\ inv_csr' = AllocatedInverse([n \in NodeID |-> Len(Others[n])])
  /\ offsets' = inv_csr'.offsets
  /\ todo' = NodeID /\ phase' = "inverse"
  /\ UNCHANGED <<g, range, outDegree, modifyBothDestlists, csr, result>>

FillInverseRow(u) ==
  /\ phase = "inverse" /\ u \in todo
  /\ inv_csr' = Filled(inv_csr, u, Others[u])
  /\ offsets' = [offsets EXCEPT ![u] = @ + Len(Others[u])]
  /\ todo' = todo \ {u}
  /\ UNCHANGED <<g, range, outDegree, modifyBothDestlists, phase, csr, result>>

CSRGraph(out, in) ==
  IF out = None THEN phase' = "crashed" /\ UNCHANGED result
  ELSE phase' = "done" /\ result' = [out |-> out, in |-> in, num_edges |-> out.offsets[N] - out.offsets[0]]

Return ==
  /\ \/ phase = "inverse" /\ todo = {}
     \/ phase = "rows" /\ todo = {} /\ ~ modifyBothDestlists
  /\ IF ~ g.directed THEN CSRGraph(csr, csr)
     ELSE IF outDegree THEN CSRGraph(csr, inv_csr) ELSE CSRGraph(inv_csr, csr)
  /\ UNCHANGED <<g, range, outDegree, modifyBothDestlists, todo, offsets, csr, inv_csr>>

Finished == phase \in {"done", "crashed"} /\ UNCHANGED vars

Next ==
  \/ Allocate \/ AllocateInverse \/ Return \/ Finished
  \/ \E u \in NodeID : FillRow(u) \/ FillInverseRow(u)

Spec == Init /\ [][Next]_vars

-----------------------------------------------------------------------------

RowsAre(lists, rows) == lists # None => \A u \in NodeID : Row(lists, u) = rows[u]

(***************************************************************************)
(* "create a partition of a graph in the range [startID, stopID)": the     *)
(* rows keep the neighbours of the range in their order and no others, the *)
(* other lists stay whole.                                                 *)
(***************************************************************************)
SliceIsInRange ==
  phase = "done" =>
    LET kept == [u \in NodeID |-> Kept(Side[u])]
    IN  IF ~ g.directed \/ outDegree
        THEN RowsAre(result.out, kept) /\ RowsAre(result.in, IF g.directed THEN Others ELSE kept)
        ELSE RowsAre(result.in, kept) /\ RowsAre(result.out, Others)
=============================================================================
