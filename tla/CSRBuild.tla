------------------------------ MODULE CSRBuild ------------------------------
(***************************************************************************)
(* MakeCSR, SquishCSR and the functions around them (MakeGraphFromEL,      *)
(* SquishGraph, MakeLocalGraphFromEL) of bench/include/gapbs/builder.h:    *)
(* threads put the edges of a list, which is in any order and may repeat   *)
(* itself, into the rows of their vertices, and the rows are then sorted   *)
(* and freed of duplicates and self loops.                                 *)
(*                                                                         *)
(* The degrees are counted by fetch-and-adds whose order does not matter:  *)
(* one step.  A thread that fills claims a cell of the row (a              *)
(* fetch-and-add on offsets) and then stores into it: two steps for either *)
(* end of the edge.                                                        *)
(***************************************************************************)
EXTENDS GraphView, Containers, Integers, Sequences, FiniteSets

CONSTANTS
  Inputs,         \* edge lists: sequences of <<u, v, w>>, vertices below N (GraphView)
  Kinds,          \* "directed", "symmetrized" and "local" (MakeLocalGraphFromEL)
  KeepSelf,       \* values of cli_.keep_self()
  BlockSize,      \* of ParallelPrefixSum
  Threads

ASSUME CSRBuildAssumption ==
  /\ Inputs \subseteq Seq(NodeID \X NodeID \X Int) /\ IsFiniteSet(Threads)
  /\ BlockSize \in Nat \ {0}
  /\ Kinds \subseteq {"directed", "symmetrized", "local"} /\ KeepSelf \subseteq BOOLEAN

VARIABLES
  el, kind, keep_self,     \* the input
  transpose,               \* the argument of the MakeCSR call
  degrees, offsets, neighs,\* its local variables
  todo,                    \* positions of el no thread has taken
  pc, e, slot,             \* per thread: location, edge, the cell it claimed
  built,                   \* [FALSE |-> index and neighs, TRUE |-> the inverse]
  phase

vars == <<el, kind, keep_self, transpose, degrees, offsets, neighs, todo, pc, e, slot, built, phase>>

Blank == <<-1, 0>>
NoEdge == <<0, 0, 0>>
NoRows == [offsets |-> [n \in 0 .. N |-> 0], neighs |-> << >>]

Init ==
  /\ el \in Inputs /\ kind \in Kinds /\ keep_self \in KeepSelf
  /\ transpose = FALSE
  /\ degrees = [n \in NodeID |-> 0] /\ offsets = NoRows.offsets /\ neighs = << >>
  /\ todo = {}
  /\ pc = [t \in Threads |-> "loop"] /\ e = [t \in Threads |-> NoEdge]
  /\ slot = [t \in Threads |-> 0]
  /\ built = [inverse \in BOOLEAN |-> NoRows]
  /\ phase = "count"

-----------------------------------------------------------------------------
(* Which ends of an edge get a cell: CountDegrees and MakeCSR ask alike. *)

AtSource(x) == kind = "symmetrized" \/ ~ transpose
AtTarget(x) == kind = "symmetrized" \/ transpose

Counted(v) ==
  Cardinality({k \in 1 .. Len(el) : AtSource(el[k]) /\ el[k][1] = v})
    + Cardinality({k \in 1 .. Len(el) : AtTarget(el[k]) /\ el[k][2] = v})

CountDegrees ==
  /\ phase = "count"
  /\ degrees' = [v \in NodeID |-> Counted(v)]
  /\ offsets' = ParallelPrefixSum(degrees', N, BlockSize)
  /\ neighs' = [c \in 0 .. (offsets'[N] - 1) |-> Blank]
  /\ todo' = 1 .. Len(el)
  /\ phase' = "fill"
  /\ UNCHANGED <<el, kind, keep_self, transpose, pc, e, slot, built>>

-----------------------------------------------------------------------------
(* The parallel loop over the list. *)

Goto(t, location) == pc' = [pc EXCEPT ![t] = location]

TakeEdge(t, k) ==
  /\ phase = "fill" /\ pc[t] = "loop" /\ k \in todo
  /\ todo' = todo \ {k}
  /\ e' = [e EXCEPT ![t] = el[k]]
  /\ Goto(t, IF AtSource(el[k]) THEN "claimU" ELSE "claimV")
  /\ UNCHANGED <<el, kind, keep_self, transpose, degrees, offsets, neighs, slot, built, phase>>

\* Variant: the offset is read and written back by two threads at once.
ClaimTwice(t, v) ==
  /\ slot' = [slot EXCEPT ![t] = offsets[v]]
  /\ offsets' = IF \E o \in Threads \ {t} : pc[o] \in {"storeU", "storeV"} /\ slot[o] = offsets[v]
                THEN [offsets EXCEPT ![v] = @ + 1] ELSE offsets

\* fetch_and_add(offsets[v], 1)
Claim(t, v) ==
  /\ slot' = [slot EXCEPT ![t] = offsets[v]]
  /\ offsets' = [offsets EXCEPT ![v] = @ + 1]

ClaimU(t) ==
  /\ pc[t] = "claimU"
  /\ Claim(t, e[t][1])
  /\ Goto(t, "storeU")
  /\ UNCHANGED <<el, kind, keep_self, transpose, degrees, neighs, todo, e, built, phase>>

GetSource(x) == <<x[1], x[3]>>

StoreU(t) ==
  /\ pc[t] = "storeU"
  /\ neighs' = [neighs EXCEPT ![slot[t]] = <<e[t][2], e[t][3]>>]
  /\ slot' = [slot EXCEPT ![t] = 0]
  /\ IF AtTarget(e[t])
     THEN Goto(t, "claimV") /\ UNCHANGED e
     ELSE Goto(t, "loop") /\ e' = [e EXCEPT ![t] = NoEdge]
  /\ UNCHANGED <<el, kind, keep_self, transpose, degrees, offsets, todo, built, phase>>

ClaimV(t) ==
  /\ pc[t] = "claimV"
  /\ Claim(t, e[t][2])
  /\ Goto(t, "storeV")
  /\ UNCHANGED <<el, kind, keep_self, transpose, degrees, neighs, todo, e, built, phase>>

StoreV(t) ==
  /\ pc[t] = "storeV"
  /\ neighs' = [neighs EXCEPT ![slot[t]] = GetSource(e[t])]
  /\ slot' = [slot EXCEPT ![t] = 0]
  /\ e' = [e EXCEPT ![t] = NoEdge]
  /\ Goto(t, "loop")
  /\ UNCHANGED <<el, kind, keep_self, transpose, degrees, offsets, todo, built, phase>>

\* index was computed before the offsets were advanced.  A directed graph gets
\* its inverse by a second call.
EndFill ==
  /\ phase = "fill" /\ todo = {} /\ \A t \in Threads : pc[t] = "loop"
  /\ built' = [built EXCEPT ![transpose] =
                 [offsets |-> PrefixSum(degrees, N), neighs |-> neighs]]
  /\ IF kind = "directed" /\ ~ transpose
     THEN transpose' = TRUE /\ phase' = "count"
     ELSE UNCHANGED transpose /\ phase' = "squish"
  /\ UNCHANGED <<el, kind, keep_self, degrees, offsets, neighs, todo, pc, e, slot>>

-----------------------------------------------------------------------------
(* SquishCSR: every row is sorted; of equal neighbours the first, with the   *)
(* least weight, is kept.                                                    *)

\* Variant: the comparison of two neighbours does not look at their weights.
UniqueAnyWeight(row) ==
  {d \in {row[k] : k \in 1 .. Len(row)} :
     \A k \in 1 .. Len(row) : row[k][1] = d[1] => row[k][2] <= d[2]}

Unique(row) ==
  {d \in {row[k] : k \in 1 .. Len(row)} :
     \A k \in 1 .. Len(row) : row[k][1] = d[1] => d[2] <= row[k][2]}

\* std::remove(n_start, new_end, n), unless self loops are kept.
Kept(csr, v) == {d \in Unique(Row(csr, v)) : d[1] # v \/ keep_self}

SquishedCSR(csr) ==
  LET sq_offsets == ParallelPrefixSum([v \in NodeID |-> Cardinality(Kept(csr, v))], N, BlockSize)
      row(v) == Listed(Kept(csr, v), Less)
      owner(c) == CHOOSE v \in NodeID : sq_offsets[v] <= c /\ c < sq_offsets[v + 1]
  IN  [offsets |-> sq_offsets,
       neighs |-> [c \in 0 .. (sq_offsets[N] - 1) |-> row(owner(c))[c - sq_offsets[owner(c)] + 1]]]

Squish ==
  /\ phase = "squish"
  /\ built' = [inverse \in BOOLEAN |->
                 IF inverse /\ kind # "directed" THEN NoRows ELSE SquishedCSR(built[inverse])]
  /\ phase' = "done"
  /\ UNCHANGED <<el, kind, keep_self, transpose, degrees, offsets, neighs, todo, pc, e, slot>>

Next ==
  \/ CountDegrees \/ EndFill \/ Squish
  \/ \E t \in Threads :
       \/ \E k \in todo : TakeEdge(t, k)
       \/ ClaimU(t) \/ StoreU(t) \/ ClaimV(t) \/ StoreV(t)

Spec == Init /\ [][Next]_vars

-----------------------------------------------------------------------------
(* Properties *)

TypeOK ==
  /\ offsets \in [0 .. N -> Nat] /\ degrees \in [NodeID -> Nat]
  /\ todo \subseteq 1 .. Len(el)
  /\ pc \in [Threads -> {"loop", "claimU", "storeU", "claimV", "storeV"}]
  /\ slot \in [Threads -> DOMAIN neighs \union {0}]
  /\ transpose \in BOOLEAN /\ phase \in {"count", "fill", "squish", "done"}

Holds(t, v) == \/ pc[t] = "storeU" /\ e[t][1] = v
               \/ pc[t] = "storeV" /\ e[t][2] = v

\* A cell claimed belongs to the row of its vertex - what was counted in one
\* loop is what is filled in another - and to no other thread, and it is empty.
CellsAreExclusive ==
  phase = "fill" =>
    \A t \in Threads, v \in NodeID : Holds(t, v) =>
      /\ slot[t] \in PrefixSum(degrees, N)[v] .. (PrefixSum(degrees, N)[v + 1] - 1)
      /\ neighs[slot[t]] = Blank
      /\ \A o \in Threads \ {t}, u \in NodeID : Holds(o, u) => slot[o] # slot[t]

\* When the loop ends every cell has been written: the counts were not too
\* large either.
NoCellLeft ==
  phase = "squish" =>
    \A inverse \in BOOLEAN : \A c \in DOMAIN built[inverse].neighs :
      built[inverse].neighs[c] # Blank

\* Counting and filling agree, in two loops and under any order of the threads:
\* every cell is claimed by one thread, for its row, and none is left.
CellsClaimedOnce == TypeOK /\ CellsAreExclusive /\ NoCellLeft

\* The weights the list gives an edge.
Weights(u, v) ==
  {el[k][3] : k \in {l \in 1 .. Len(el) : el[l][1] = u /\ el[l][2] = v}}
    \union {el[k][3] : k \in {l \in 1 .. Len(el) : /\ kind = "symmetrized"
                                                   /\ el[l][1] = v /\ el[l][2] = u}}

IsEdge(u, v) == Weights(u, v) # {} /\ (u # v \/ keep_self)
Least(u, v)  == CHOOSE w \in Weights(u, v) : \A x \in Weights(u, v) : w <= x

(***************************************************************************)
(* "Removes self-loops and redundant edges", "neighbor IDs will be         *)
(* sorted": whatever the order of the list and of the threads, the graph   *)
(* has the edges of the list, each once and with its least weight, and the *)
(* incoming lists are the inverse of the outgoing ones.                    *)
(***************************************************************************)
BuiltGraph ==
  phase = "done" =>
    \A n \in NodeID :
      /\ Row(built[FALSE], n) = Listed({<<v, Least(n, v)>> : v \in {x \in NodeID : IsEdge(n, x)}}, Less)
      /\ kind = "directed" =>
           Row(built[TRUE], n) = Listed({<<u, Least(u, n)>> : u \in {x \in NodeID : IsEdge(x, n)}}, Less)
=============================================================================
