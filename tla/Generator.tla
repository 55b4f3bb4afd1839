----------------------------- MODULE Generator -----------------------------
(***************************************************************************)
(* The synthetic graphs of bench/include/gapbs/generator.h: the threads    *)
(* take blocks of the edge list, each seeds its own generator at the start *)
(* of a block and draws the edges of the block from it (MakeUniformEL,     *)
(* MakeRMatEL with PermuteIDs, InsertWeights).  UniDist draws again when   *)
(* the number would make the low values likelier.                          *)
(***************************************************************************)
EXTENDS Integers, Sequences, FiniteSets, FiniteSetsExt, Functions

CONSTANTS
  Threads,
  Kinds,         \* a subset of {"uniform", "rmat", "weights"}
  Scale,         \* num_nodes_ = 2^scale
  Sizes,         \* the values of num_edges_
  BlockSize,     \* block_size
  Bits,          \* the width of a number of the generator, and of uNodeID_
  Rng(_, _),     \* the k-th number a generator with a given seed draws
  MaxWeight      \* the largest weight, 255

MaxRng == 2 ^ Bits - 1
num_nodes == 2 ^ Scale
NodeID == 0 .. (num_nodes - 1)

VARIABLES
  kind, num_edges,
  el,            \* edge -> what was drawn for it
  blocks,        \* blocks no thread has taken
  th,            \* thread -> [block, e, seed, drawn]
  phase

vars == <<kind, num_edges, el, blocks, th, phase>>

Blocks(size) == 0 .. ((size + BlockSize - 1) \div BlockSize - 1)
None == -1
Fresh == [block |-> None, e |-> 0, seed |-> 0, drawn |-> 0]

Init ==
  /\ kind \in Kinds /\ num_edges \in Sizes
  /\ el = [e \in 0 .. (num_edges - 1) |-> << >>]
  /\ blocks = Blocks(num_edges) /\ th = [t \in Threads |-> Fresh]
  /\ phase = "fill"

-----------------------------------------------------------------------------
(* UniDist *)

max_value == IF kind = "weights" THEN MaxWeight - 1 ELSE num_nodes - 1
no_mod == MaxRng = max_value

\* 0 if the numbers fall evenly on the values.
Cutoff(mod) == LET remainder_sub_1 == MaxRng % mod IN
  IF remainder_sub_1 = mod - 1 THEN 0 ELSE MaxRng - remainder_sub_1

Accepted(x) == no_mod \/ Cutoff(max_value + 1) = 0 \/ x < Cutoff(max_value + 1)
Drawn(x) == IF no_mod THEN x ELSE x % (max_value + 1)

-----------------------------------------------------------------------------

\* The quadrant of the matrix a number stands for: A, B and C of 0.57, 0.19 and 0.19.
A == (57 * MaxRng) \div 100
B == (19 * MaxRng) \div 100
Quadrant(x) ==
  IF x < A + B THEN <<0, IF x > A THEN 1 ELSE 0>>
  ELSE <<1, IF x > A + B + B THEN 1 ELSE 0>>

\* The numbers an element of el is made of.
Needed == CASE kind = "uniform" -> 2 [] kind = "rmat" -> Scale [] kind = "weights" -> 1

\* Where the k-th number that counts is drawn, after the first n.
Place(seed, n, k) ==
  LET at[i \in 0 .. k] ==
        IF i = 0 THEN n
        ELSE CHOOSE j \in (at[i - 1] + 1) .. (at[i - 1] + MaxRng + 1) :
               /\ kind = "rmat" \/ Accepted(Rng(seed, j))
               /\ \A l \in (at[i - 1] + 1) .. (j - 1) : ~(kind = "rmat" \/ Accepted(Rng(seed, l)))
  IN  at[k]

\* An element, from its numbers: the bits of an R-MAT edge from the highest down.  (The
\* two ends of a uniform edge are drawn in an order the compiler chooses, here the first first.)
Element(x) ==
  CASE kind = "uniform" -> [k \in 1 .. 2 |-> Drawn(x[k])]
    [] kind = "rmat" -> [k \in 1 .. 2 |-> SumSet({2 ^ (Scale - d) * Quadrant(x[d])[k] : d \in 1 .. Scale})]
    [] kind = "weights" -> <<Drawn(x[1]) + 1>>

\* Variant: a generator is seeded when its thread first needs it.
SeededOnce(r, b) == IF r.block = None THEN b ELSE r.seed

\* kRandSeed + block / block_size
Seeded(r, b) == b

Drawings(r, b) == IF Seeded(r, b) = r.seed /\ r.block # None THEN r.drawn ELSE 0

TakeBlock(t) ==
  /\ phase = "fill"
  /\ th[t].block = None \/ th[t].e = Min({(th[t].block + 1) * BlockSize, num_edges})
  /\ \E b \in blocks :
       /\ th' = [th EXCEPT ![t] = [block |-> b, e |-> b * BlockSize, seed |-> Seeded(th[t], b),
                                   drawn |-> Drawings(th[t], b)]]
       /\ blocks' = blocks \ {b}
  /\ UNCHANGED <<kind, num_edges, el, phase>>

Draw(t) ==
  /\ th[t].block # None /\ th[t].e < Min({(th[t].block + 1) * BlockSize, num_edges})
  /\ LET r == th[t]
         x == [k \in 1 .. Needed |-> Rng(r.seed, Place(r.seed, r.drawn, k))]
     IN  /\ el' = [el EXCEPT ![r.e] = Element(x)]
         /\ th' = [th EXCEPT ![t].e = r.e + 1, ![t].drawn = Place(r.seed, r.drawn, Needed)]
  /\ UNCHANGED <<kind, num_edges, blocks, phase>>

AllDrawn == blocks = {} /\ \A e \in DOMAIN el : el[e] # << >>

\* MakeRMatEL permutes the ids, with a generator of the fixed seed.
Permuted(id) == (id * 3 + 1) % num_nodes

PermuteIDs ==
  /\ phase = "fill" /\ kind = "rmat" /\ AllDrawn
  /\ el' = [e \in DOMAIN el |-> <<Permuted(el[e][1]), Permuted(el[e][2])>>]
  /\ phase' = "done"
  /\ UNCHANGED <<kind, num_edges, blocks, th>>

Return ==
  /\ phase = "fill" /\ kind # "rmat" /\ AllDrawn
  /\ phase' = "done"
  /\ UNCHANGED <<kind, num_edges, el, blocks, th>>

Finished == phase = "done" /\ UNCHANGED vars

Next ==
  \/ \E t \in Threads : TakeBlock(t) \/ Draw(t)
  \/ PermuteIDs \/ Return \/ Finished

Spec == Init /\ [][Next]_vars

-----------------------------------------------------------------------------

\* The numbers of a block that count, in the order they are drawn.
Counting(b) ==
  SelectSeq([j \in 1 .. (4 * BlockSize * (Scale + 1) * 4) |-> Rng(b, j)],
            LAMBDA x : kind = "rmat" \/ Accepted(x))

Value(e) ==
  LET b == e \div BlockSize
      from == (e % BlockSize) * Needed
      v == Element([k \in 1 .. Needed |-> Counting(b)[from + k]])
  IN  IF kind = "rmat" THEN <<Permuted(v[1]), Permuted(v[2])>> ELSE v

(***************************************************************************)
(* "Blocking/reseeding is for parallelism with deterministic output        *)
(* edgelist": the edges and weights depend on their place in the list and  *)
(* not on which thread drew them, or after what, although an edge may take *)
(* any number of drawings.                                                 *)
(***************************************************************************)
DeterministicOutput == phase = "done" => \A e \in DOMAIN el : el[e] = Value(e)

(***************************************************************************)
(* Every id is a vertex, every weight lies between 1 and MaxWeight, and    *)
(* the numbers UniDist accepts fall evenly on them.                        *)
(***************************************************************************)
DrawnEvenly ==
  /\ phase = "done" => \A e \in DOMAIN el :
       \A k \in DOMAIN el[e] : el[e][k] \in IF kind = "weights" THEN 1 .. MaxWeight ELSE NodeID
  /\ \A x, y \in 0 .. max_value :
       Cardinality({r \in 0 .. MaxRng : Accepted(r) /\ Drawn(r) = x})
         = Cardinality({r \in 0 .. MaxRng : Accepted(r) /\ Drawn(r) = y})
=============================================================================
