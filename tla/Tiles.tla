------------------------------- MODULE Tiles -------------------------------
(***************************************************************************)
(* builder.h's summaries of a graph for a cache simulator: quantizeGraph,  *)
(* which replaces neighbours by the tiles they are in, and                 *)
(* makeOffsetMatrix, the Rereference Matrix of P-OPT: for every cache line *)
(* of vertices and every epoch (a range of neighbours), whether the line   *)
(* is used, and how far into the epoch for the last time, or else in how   *)
(* many epochs it is used next.  An entry is a byte: its top bit tells the *)
(* two cases apart, the others hold the distance or its limit.             *)
(*                                                                         *)
(* The matrix is made in three parallel loops over the lines.  No kernel   *)
(* calls these functions.                                                  *)
(***************************************************************************)
EXTENDS Containers, Integers, Sequences, FiniteSets, TLC

CONSTANTS
  Inputs,           \* records [rows, numVtxPerLine, numEpochs, numTiles]
  Bits              \* of the distance: 7

VARIABLES
  input,            \* rows[v]: g.out_neigh(v), or in_neigh if traverseCSR is false
  lastRef,          \* of a line in an epoch, -1 if there is none
  compressedOffsets,
  offsetMatrix,
  todo,             \* lines the current loop has not come to
  pc

vars == <<input, lastRef, compressedOffsets, offsetMatrix, todo, pc>>

num_nodes == Len(input.rows)
Neigh(v) == input.rows[v + 1]
DivUp(a, b) == (a + b - 1) \div b
numEpochs == input.numEpochs
numCacheLines == DivUp(num_nodes, input.numVtxPerLine)
epochSz == DivUp(num_nodes, numEpochs)
subEpochSz == DivUp(epochSz, 2 ^ Bits)
maxReref == (2 ^ Bits) - 1
orMask == 2 ^ Bits
Masked(b) == b % orMask             \* b & andMask
Marked(b) == b >= orMask            \* (b & orMask) != 0

Lines  == 0 .. (numCacheLines - 1)
Epochs == 0 .. (numEpochs - 1)

Init ==
  /\ input \in Inputs
  /\ lastRef = [c \in Lines |-> [e \in Epochs |-> -1]]
  /\ compressedOffsets = << >>
  /\ offsetMatrix = << >>
  /\ todo = Lines
  /\ pc = "collect"

\* The vertices of line c; the last line ends with the graph.
VerticesOf(c) ==
  (c * input.numVtxPerLine) .. ((IF c = numCacheLines - 1 THEN num_nodes
                                 ELSE (c + 1) * input.numVtxPerLine) - 1)

References(c, e) == {n \in UNION {{Neigh(v)[i] : i \in 1 .. Len(Neigh(v))} : v \in VerticesOf(c)} :
                       n \div epochSz = e}
Greatest(S) == CHOOSE n \in S : \A m \in S : m <= n

Collect(c) ==
  /\ pc = "collect" /\ c \in todo
  /\ lastRef' = [lastRef EXCEPT ![c] =
                   [e \in Epochs |-> IF References(c, e) = {} THEN -1 ELSE Greatest(References(c, e))]]
  /\ todo' = todo \ {c}
  /\ UNCHANGED <<input, compressedOffsets, offsetMatrix, pc>>

StartConverting ==
  /\ pc = "collect" /\ todo = {}
  /\ compressedOffsets' = [c \in Lines |-> [e \in Epochs |-> 0]]
  /\ todo' = Lines
  /\ pc' = "convert"
  /\ UNCHANGED <<input, lastRef, offsetMatrix>>

\* One epoch more to the next reference.
Further(next) == IF next = maxReref THEN maxReref ELSE next + 1

\* From the last epoch back; of the last one the place of the reference is not kept.
Convert(c) ==
  /\ pc = "convert" /\ c \in todo
  /\ LET entry[e \in Epochs] ==
           IF e = numEpochs - 1 THEN IF lastRef[c][e] # -1 THEN maxReref ELSE maxReref + orMask
           ELSE IF lastRef[c][e] # -1
                THEN Masked((lastRef[c][e] - (e * epochSz)) \div subEpochSz)
           ELSE IF Marked(entry[e + 1]) THEN Further(Masked(entry[e + 1])) + orMask
           ELSE 1 + orMask
     IN  compressedOffsets' = [compressedOffsets EXCEPT ![c] = [e \in Epochs |-> entry[e]]]
  /\ todo' = todo \ {c}
  /\ UNCHANGED <<input, lastRef, offsetMatrix, pc>>

Cells == 0 .. ((numEpochs * numCacheLines) - 1)

StartTransposing ==
  /\ pc = "convert" /\ todo = {}
  /\ offsetMatrix' = [i \in Cells |-> -1]
  /\ todo' = Lines
  /\ pc' = "transpose"
  /\ UNCHANGED <<input, lastRef, compressedOffsets>>

Transpose(c) ==
  /\ pc = "transpose" /\ c \in todo
  /\ offsetMatrix' = [i \in Cells |-> IF i % numCacheLines = c
                                      THEN compressedOffsets[c][i \div numCacheLines]
                                      ELSE offsetMatrix[i]]
  /\ todo' = todo \ {c}
  /\ pc' = IF todo = {c} THEN "done" ELSE pc
  /\ UNCHANGED <<input, lastRef, compressedOffsets>>

Finished == pc = "done" /\ UNCHANGED vars

Next == \/ StartConverting \/ StartTransposing \/ Finished
        \/ \E c \in todo : Collect(c) \/ Convert(c) \/ Transpose(c)

Spec == Init /\ [][Next]_vars

-----------------------------------------------------------------------------
(* quantizeGraph *)

tileSz ==
  IF input.numTiles > num_nodes THEN 1
  ELSE (num_nodes \div input.numTiles) + (IF num_nodes % input.numTiles # 0 THEN 1 ELSE 0)

\* The elements of uniqNghs in order.
quantizeGraph == [v \in 0 .. (num_nodes - 1) |->
                    Listed({Neigh(v)[i] \div tileSz : i \in 1 .. Len(Neigh(v))}, <)]

-----------------------------------------------------------------------------
(* Properties *)

\* What a reader of the matrix takes from an entry is true of the graph: a
\* line without the top bit is used in this epoch, last in the part the entry
\* names (the last epoch apart), one with it is used next after that many
\* epochs, or after at least the limit, or never.
RereferencesAreExact ==
  pc = "done" => \A c \in Lines, e \in Epochs :
    LET entry == offsetMatrix[(e * numCacheLines) + c]
        later == {f \in Epochs : f > e /\ References(c, f) # {}}
    IN  IF Marked(entry)
        THEN /\ entry < 2 * orMask
             /\ \A f \in e .. (e + Masked(entry) - 1) : f \in Epochs => References(c, f) = {}
             /\ Masked(entry) < maxReref => (e + Masked(entry)) \in later
        ELSE /\ References(c, e) # {}
             /\ e < numEpochs - 1 =>
                  LET from == (e * epochSz) + (entry * subEpochSz)
                  IN  Greatest(References(c, e)) \in from .. (from + subEpochSz - 1)

\* "assert(degrees[n] <= numTiles)": there are no more tiles than asked for,
\* and a row lists the tiles of its neighbours, each once.
TilesFit ==
  \A v \in 0 .. (num_nodes - 1) :
    LET row == quantizeGraph[v]
    IN  /\ Len(row) <= input.numTiles
        /\ \A i \in 1 .. Len(row) : row[i] < input.numTiles
        /\ \A i \in 1 .. (Len(row) - 1) : row[i] < row[i + 1]
        /\ \A n \in 0 .. (num_nodes - 1) :
             (\E i \in 1 .. Len(Neigh(v)) : Neigh(v)[i] \div tileSz = n \div tileSz)
               <=> (\E i \in 1 .. Len(row) : row[i] = n \div tileSz)
=============================================================================
