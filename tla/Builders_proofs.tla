-------------------------- MODULE Builders_proofs --------------------------
(***************************************************************************)
(* Proofs about the components MCBuilders composes.  Of CSRBuild, whose    *)
(* specification it extends: every cell a thread claims is its own,        *)
(* belongs to the row it fills and is filled when the loop ends, and the   *)
(* graph made of the list is the one the list describes.  Of Reordering    *)
(* and Relabelled, within MCSpec: a relabelled graph is the graph there    *)
(* was under other names.                                                  *)
(***************************************************************************)
EXTENDS MCBuilders, CommonFacts

Edge == NodeID \X NodeID \X Int

\* The offsets MakeCSR started from; row v is Index[v] .. Index[v + 1] - 1.
Index == PrefixSum(degrees, N)

\* What edge x puts into the row of v, in the first call of MakeCSR or in the second.
Gives(inverse, x, v, d) ==
  \/ (kind = "symmetrized" \/ ~ inverse) /\ x[1] = v /\ d = <<x[2], x[3]>>
  \/ (kind = "symmetrized" \/ inverse) /\ x[2] = v /\ d = <<x[1], x[3]>>

Given(inverse, v, d) == \E k \in 1 .. Len(el) : Gives(inverse, el[k], v, d)

-----------------------------------------------------------------------------
(* The invariant *)

Typed ==
  /\ el \in Inputs /\ kind \in Kinds /\ keep_self \in KeepSelf
  /\ transpose \in BOOLEAN /\ (transpose => kind = "directed")
  /\ degrees \in [NodeID -> Nat] /\ offsets \in [0 .. N -> Nat]
  /\ todo \subseteq 1 .. Len(el)
  /\ pc \in [Threads -> {"loop", "claimU", "storeU", "claimV", "storeV"}]
  /\ e \in [Threads -> Edge] /\ slot \in [Threads -> Nat]
  /\ phase \in {"count", "fill", "squish", "done"}

\* No thread is in the loop before it starts or after it ends.
Idle == phase # "fill" => \A t \in Threads : pc[t] = "loop" /\ slot[t] = 0

\* The ends of edges whose cell in the row of v is still to be claimed: of edges
\* nobody took, and of the edges the threads are at.
SourcesLeft(v)  == {k \in todo : AtSource(el[k]) /\ el[k][1] = v}
TargetsLeft(v)  == {k \in todo : AtTarget(el[k]) /\ el[k][2] = v}
SourcesTaken(v) == {t \in Threads : pc[t] = "claimU" /\ e[t][1] = v}
TargetsTaken(v) == {t \in Threads : /\ pc[t] \in {"claimU", "storeU", "claimV"}
                                    /\ AtTarget(e[t]) /\ e[t][2] = v}

\* The thread has yet to put d into the row of v.
Owes(t, v, d) ==
  \/ pc[t] \in {"claimU", "storeU"} /\ e[t][1] = v /\ d = <<e[t][2], e[t][3]>>
  \/ pc[t] # "loop" /\ AtTarget(e[t]) /\ e[t][2] = v /\ d = <<e[t][1], e[t][3]>>

Counts ==
  /\ degrees = [v \in NodeID |-> Counted(v)]
  /\ \A v \in NodeID :
       /\ Index[v] <= offsets[v]
       /\ offsets[v] + Cardinality(SourcesLeft(v)) + Cardinality(TargetsLeft(v))
            + Cardinality(SourcesTaken(v)) + Cardinality(TargetsTaken(v)) = Index[v + 1]

Locations ==
  \A t \in Threads :
    /\ pc[t] \in {"claimU", "storeU"} => AtSource(e[t])
    /\ pc[t] \in {"claimV", "storeV"} => AtTarget(e[t])
    /\ pc[t] \notin {"storeU", "storeV"} => slot[t] = 0
    /\ pc[t] # "loop" => \E k \in 1 .. Len(el) : e[t] = el[k]

Cells ==
  /\ DOMAIN neighs = 0 .. (Index[N] - 1)
  /\ \A t \in Threads, v \in NodeID : Holds(t, v) =>
       /\ slot[t] \in Index[v] .. (offsets[v] - 1)
       /\ neighs[slot[t]] = Blank
       /\ \A o \in Threads \ {t}, u \in NodeID : Holds(o, u) => slot[o] # slot[t]

\* Of the cells of row v those not claimed are empty; the others belong to a
\* thread or hold what the list puts there.
Filled ==
  \A v \in NodeID :
    /\ \A c \in offsets[v] .. (Index[v + 1] - 1) : neighs[c] = Blank
    /\ \A c \in Index[v] .. (offsets[v] - 1) :
         \/ Given(transpose, v, neighs[c])
         \/ \E t \in Threads : Holds(t, v) /\ slot[t] = c

\* Nothing the list puts into a row is lost on the way.
Arriving ==
  \A v \in NodeID, d \in NodeID \X Int : Given(transpose, v, d) =>
    \/ \E c \in Index[v] .. (offsets[v] - 1) : neighs[c] = d
    \/ \E k \in todo : Gives(transpose, el[k], v, d)
    \/ \E t \in Threads : Owes(t, v, d)

FillInv == phase = "fill" => Counts /\ Locations /\ Cells /\ Filled /\ Arriving

\* The rows are those of the list, not yet sorted and with its duplicates.
Complete(arrays, inverse) ==
  /\ arrays.offsets \in [0 .. N -> Nat] /\ arrays.offsets[0] = 0
  /\ \A u, v \in 0 .. N : u <= v => arrays.offsets[u] <= arrays.offsets[v]
  /\ DOMAIN arrays.neighs = 0 .. (arrays.offsets[N] - 1)
  /\ \A v \in NodeID : \A c \in arrays.offsets[v] .. (arrays.offsets[v + 1] - 1) :
       Given(inverse, v, arrays.neighs[c])
  /\ \A v \in NodeID, d \in NodeID \X Int : Given(inverse, v, d) =>
       \E c \in arrays.offsets[v] .. (arrays.offsets[v + 1] - 1) : arrays.neighs[c] = d

BuiltInv ==
  /\ built = [inverse \in BOOLEAN |-> built[inverse]]
  /\ phase = "squish" \/ (transpose /\ phase # "done") => Complete(built[FALSE], FALSE)
  /\ phase = "squish" /\ kind = "directed" => Complete(built[TRUE], TRUE)
  /\ phase # "done" /\ kind # "directed" => built[TRUE] = NoRows

Inv == Typed /\ Idle /\ FillInv /\ BuiltInv /\ BuiltGraph

-----------------------------------------------------------------------------
(* Edges, rows and sizes *)

LEMMA EdgeParts ==
  ASSUME NEW x \in Edge
  PROVE  x[1] \in NodeID /\ x[2] \in NodeID /\ x[3] \in Int
  BY DEF Edge

LEMMA ListFacts ==
  ASSUME el \in Inputs
  PROVE  Len(el) \in Nat /\ \A k \in 1 .. Len(el) : el[k] \in Edge
<1>1. el \in Seq(Edge)
  BY CSRBuildAssumption DEF Edge
<1> QED BY <1>1

LEMMA IndexFacts ==
  ASSUME degrees \in [NodeID -> Nat]
  PROVE  /\ Index \in [0 .. N -> Nat] /\ Index[0] = 0
         /\ \A u, v \in 0 .. N : u <= v => Index[u] <= Index[v]
<1>1. N \in Nat /\ \A i \in 0 .. (N - 1) : degrees[i] \in Nat
  BY NAssumption DEF NodeID
<1> QED BY <1>1, PrefixSumFacts DEF Index

LEMMA NodeFacts == ASSUME NEW v \in NodeID
                   PROVE  v \in 0 .. N /\ v + 1 \in 0 .. N /\ v \in Nat /\ v + 1 <= N
  BY NAssumption DEF NodeID

\* A cell is in one row.
LEMMA OneRow ==
  ASSUME NEW f \in [0 .. N -> Nat], \A u, v \in 0 .. N : u <= v => f[u] <= f[v],
         NEW u \in NodeID, NEW v \in NodeID,
         NEW c \in f[u] .. (f[u + 1] - 1), c \in f[v] .. (f[v + 1] - 1)
  PROVE  u = v
<1>1. /\ u \in 0 .. N /\ u + 1 \in 0 .. N /\ v \in 0 .. N /\ v + 1 \in 0 .. N
      /\ u \in Nat /\ v \in Nat
  BY NodeFacts
<1>2. ~ (u < v)
  <2>1. u + 1 <= v => f[u + 1] <= f[v]
    BY <1>1
  <2>2. f[u + 1] \in Nat /\ f[v] \in Nat
    BY <1>1
  <2> QED BY <1>1, <2>1, <2>2
<1>3. ~ (v < u)
  <2>1. v + 1 <= u => f[v + 1] <= f[u]
    BY <1>1
  <2>2. f[v + 1] \in Nat /\ f[u] \in Nat
    BY <1>1
  <2> QED BY <1>1, <2>1, <2>2
<1> QED BY <1>1, <1>2, <1>3

\* And every cell is in one.
LEMMA SomeRow ==
  ASSUME NEW f \in [0 .. N -> Nat], f[0] = 0, NEW c \in 0 .. (f[N] - 1)
  PROVE  \E v \in NodeID : c \in f[v] .. (f[v + 1] - 1)
<1> DEFINE S == {m \in 0 .. N : c < f[m]}
<1>1. N \in S /\ S \in SUBSET Nat
  BY NAssumption
<1>2. PICK m \in S : \A n \in S : m <= n
  <2> HIDE DEF S
  <2> QED BY <1>1, LeastNumber
<1>3. m \in 0 .. N /\ c < f[m] /\ m # 0
  BY <1>2
<1>4. m - 1 \in NodeID /\ m - 1 \in 0 .. N /\ m - 1 + 1 = m
  BY <1>3, NAssumption DEF NodeID
<1>5. m - 1 \notin S
  BY <1>2, <1>3
<1>6. f[m - 1] <= c
  BY <1>4, <1>5
<1>7. c \in f[m - 1] .. (f[m - 1 + 1] - 1)
  BY <1>3, <1>4, <1>6
<1> QED BY <1>4, <1>7

LEMMA SizeStep ==
  ASSUME NEW S, IsFiniteSet(S), NEW x
  PROVE  /\ Cardinality(S) \in Nat
         /\ x \notin S => Cardinality(S \union {x}) = Cardinality(S) + 1
         /\ x \in S => Cardinality(S \ {x}) = Cardinality(S) - 1
  BY FS_CardinalityType, FS_AddElement, FS_RemoveElement

LEMMA SizesFinite ==
  ASSUME Typed, NEW v
  PROVE  /\ IsFiniteSet(SourcesLeft(v)) /\ IsFiniteSet(TargetsLeft(v))
         /\ IsFiniteSet(SourcesTaken(v)) /\ IsFiniteSet(TargetsTaken(v))
<1>1. IsFiniteSet(todo)
  <2>1. IsFiniteSet(1 .. Len(el))
    BY ListFacts, FS_Interval DEF Typed
  <2> QED BY <2>1, FS_Subset DEF Typed
<1>2. SourcesLeft(v) \subseteq todo /\ TargetsLeft(v) \subseteq todo
  BY DEF SourcesLeft, TargetsLeft
<1>3. SourcesTaken(v) \subseteq Threads /\ TargetsTaken(v) \subseteq Threads
  BY DEF SourcesTaken, TargetsTaken
<1> QED BY <1>1, <1>2, <1>3, FS_Subset, CSRBuildAssumption

-----------------------------------------------------------------------------
(* The parallel loop *)

\* The threads that hold a cell hold one of a row.
LEMMA HeldCells ==
  ASSUME Typed, Cells, \A v \in NodeID : offsets[v] <= Index[v + 1],
         NEW t \in Threads, NEW v \in NodeID, Holds(t, v)
  PROVE  slot[t] \in Index[v] .. (Index[v + 1] - 1)
<1>1. slot[t] \in Index[v] .. (offsets[v] - 1)
  BY DEF Cells
<1>2. Index[v] \in Nat /\ Index[v + 1] \in Nat /\ offsets[v] \in Nat
  BY IndexFacts, NodeFacts DEF Typed
<1> QED BY <1>1, <1>2

\* No row overflows: a thread about to claim a cell is counted.
LEMMA OffsetsInRow ==
  ASSUME Typed, Counts, NEW v \in NodeID
  PROVE  /\ Index[v] \in Nat /\ Index[v + 1] \in Nat /\ offsets[v] \in Nat
         /\ offsets[v] <= Index[v + 1]
         /\ SourcesTaken(v) \union TargetsTaken(v) # {} => offsets[v] < Index[v + 1]
<1>1. Index[v] \in Nat /\ Index[v + 1] \in Nat /\ offsets[v] \in Nat
  BY IndexFacts, NodeFacts DEF Typed
<1>2. /\ Cardinality(SourcesLeft(v)) \in Nat /\ Cardinality(TargetsLeft(v)) \in Nat
      /\ Cardinality(SourcesTaken(v)) \in Nat /\ Cardinality(TargetsTaken(v)) \in Nat
      /\ SourcesTaken(v) # {} => Cardinality(SourcesTaken(v)) # 0
      /\ TargetsTaken(v) # {} => Cardinality(TargetsTaken(v)) # 0
  BY SizesFinite, FS_CardinalityType, FS_EmptySet
<1>3. offsets[v] + Cardinality(SourcesLeft(v)) + Cardinality(TargetsLeft(v))
        + Cardinality(SourcesTaken(v)) + Cardinality(TargetsTaken(v)) = Index[v + 1]
  BY DEF Counts
<1> QED BY <1>1, <1>2, <1>3

\* A claim takes an empty cell of the row that nobody holds.
LEMMA ClaimKeeps ==
  ASSUME Typed, Counts, Cells, Filled, Arriving,
         NEW t \in Threads, NEW v \in NodeID, Claim(t, v), offsets[v] < Index[v + 1],
         UNCHANGED <<el, kind, keep_self, transpose, degrees, neighs, todo, e>>,
         \A u \in NodeID : ~ Holds(t, u) /\ (Holds(t, u)' <=> u = v),
         \A o \in Threads \ {t} : pc'[o] = pc[o],
         \A u, d : Owes(t, u, d) => Owes(t, u, d)'
  PROVE  Cells' /\ Filled' /\ Arriving'
<1>1. Index' = Index /\ (\A c : neighs'[c] = neighs[c]) /\ Index \in [0 .. N -> Nat]
      /\ \A x, y \in 0 .. N : x <= y => Index[x] <= Index[y]
  BY IndexFacts DEF Index, Typed
<1>2. \A u \in NodeID : /\ Index[u] \in Nat /\ Index[u + 1] \in Nat /\ offsets[u] \in Nat
                        /\ Index[u] <= offsets[u] /\ offsets[u] <= Index[u + 1]
  BY OffsetsInRow DEF Counts
<1>3. /\ slot'[t] = offsets[v] /\ \A o \in Threads \ {t} : slot'[o] = slot[o]
      /\ offsets'[v] = offsets[v] + 1 /\ \A u \in NodeID \ {v} : offsets'[u] = offsets[u]
  BY NodeFacts DEF Claim, Typed
<1>4. \A o \in Threads \ {t}, u \in NodeID : Holds(o, u)' <=> Holds(o, u)
  BY DEF Holds
<1>5. offsets[v] \in Index[v] .. (Index[v + 1] - 1) /\ neighs[offsets[v]] = Blank
  BY <1>2 DEF Filled
<1>6. ASSUME NEW o \in Threads \ {t}, NEW u \in NodeID, Holds(o, u)  PROVE slot[o] # offsets[v]
  <2>1. slot[o] \in Index[u] .. (Index[u + 1] - 1)
    BY <1>2, <1>6, HeldCells
  <2>2. slot[o] \in Index[u] .. (offsets[u] - 1)
    BY <1>6 DEF Cells
  <2>3. slot[o] = offsets[v] => u = v
    BY <1>1, <1>5, <2>1, OneRow
  <2> QED BY <1>2, <2>2, <2>3
<1>7. Cells'
  <2>1. DOMAIN neighs' = 0 .. (Index'[N] - 1)
    BY <1>1 DEF Cells
  <2>2. ASSUME NEW o \in Threads, NEW u \in NodeID, Holds(o, u)'
        PROVE  /\ slot'[o] \in Index'[u] .. (offsets'[u] - 1)
               /\ neighs'[slot'[o]] = Blank
               /\ \A p \in Threads \ {o}, w \in NodeID : Holds(p, w)' => slot'[p] # slot'[o]
    <3>1. CASE o = t
      <4>1. u = v
        BY <2>2, <3>1
      <4>2. slot'[o] \in Index'[u] .. (offsets'[u] - 1) /\ neighs'[slot'[o]] = Blank
        BY <1>1, <1>2, <1>3, <1>5, <3>1, <4>1
      <4>3. \A p \in Threads \ {o}, w \in NodeID : Holds(p, w)' => slot'[p] # slot'[o]
        BY <1>3, <1>4, <1>6, <3>1
      <4> QED BY <4>2, <4>3
    <3>2. CASE o # t
      <4>1. Holds(o, u) /\ slot'[o] = slot[o]
        BY <1>3, <1>4, <2>2, <3>2
      <4>2. slot[o] \in Index[u] .. (offsets[u] - 1) /\ neighs[slot[o]] = Blank
        BY <4>1 DEF Cells
      <4>3. slot'[o] \in Index'[u] .. (offsets'[u] - 1) /\ neighs'[slot'[o]] = Blank
        <5>1. offsets'[u] = offsets[u] \/ offsets'[u] = offsets[u] + 1
          BY <1>3
        <5> QED BY <1>1, <1>2, <4>1, <4>2, <5>1
      <4>4. ASSUME NEW p \in Threads \ {o}, NEW w \in NodeID, Holds(p, w)'  PROVE slot'[p] # slot'[o]
        <5>1. CASE p = t
          BY <1>3, <1>6, <3>2, <4>1, <5>1
        <5>2. CASE p # t
          <6>1. Holds(p, w) /\ slot'[p] = slot[p]
            BY <1>3, <1>4, <4>4, <5>2
          <6> QED BY <4>1, <6>1 DEF Cells
        <5> QED BY <5>1, <5>2
      <4> QED BY <4>3, <4>4
    <3> QED BY <3>1, <3>2
  <2> QED BY <2>1, <2>2 DEF Cells
<1>8. Filled'
  <2>1. ASSUME NEW u \in NodeID, NEW c \in offsets'[u] .. (Index'[u + 1] - 1)  PROVE neighs'[c] = Blank
    <3>1. c \in offsets[u] .. (Index[u + 1] - 1)
      BY <1>1, <1>2, <1>3
    <3> QED BY <1>1, <3>1 DEF Filled
  <2>2. ASSUME NEW u \in NodeID, NEW c \in Index'[u] .. (offsets'[u] - 1)
        PROVE  \/ Given(transpose, u, neighs[c])
               \/ \E o \in Threads : Holds(o, u)' /\ slot'[o] = c
    <3>1. CASE u = v /\ c = offsets[v]
      BY <1>3, <3>1
    <3>2. CASE ~ (u = v /\ c = offsets[v])
      <4>1. c \in Index[u] .. (offsets[u] - 1)
        BY <1>1, <1>2, <1>3, <3>2
      <4>2. CASE Given(transpose, u, neighs[c])
        BY <4>2
      <4>3. ASSUME NEW o \in Threads, Holds(o, u), slot[o] = c
            PROVE  Holds(o, u)' /\ slot'[o] = c
        BY <1>3, <1>4, <4>3
      <4> QED BY <4>1, <4>2, <4>3 DEF Filled
    <3> QED BY <3>1, <3>2
  <2>3. \A u, d : Given(transpose, u, d)' <=> Given(transpose, u, d)
    BY DEF Given, Gives
  <2> QED BY <1>1, <2>1, <2>2, <2>3 DEF Filled
<1>9. Arriving'
  <2>1. ASSUME NEW u \in NodeID, NEW d \in NodeID \X Int, Given(transpose, u, d)'
        PROVE  \/ \E c \in Index'[u] .. (offsets'[u] - 1) : neighs'[c] = d
               \/ \E k \in todo' : Gives(transpose, el[k], u, d)'
               \/ \E o \in Threads : Owes(o, u, d)'
    <3>1. Given(transpose, u, d)
      BY <2>1 DEF Given, Gives
    <3>2. \A k \in todo : Gives(transpose, el[k], u, d) => Gives(transpose, el[k], u, d)'
      BY DEF Gives
    <3>3. \A o \in Threads : Owes(o, u, d) => Owes(o, u, d)'
      BY DEF Owes, AtTarget
    <3>4. \A c \in Index[u] .. (offsets[u] - 1) : c \in Index'[u] .. (offsets'[u] - 1)
      BY <1>1, <1>2, <1>3
    <3> QED BY <1>1, <3>1, <3>2, <3>3, <3>4 DEF Arriving
  <2> QED BY <2>1 DEF Arriving
<1> QED BY <1>7, <1>8, <1>9

\* A store fills the cell the thread holds with what the list puts in its row.
LEMMA StoreKeeps ==
  ASSUME Typed, Counts, Cells, Filled, Arriving,
         NEW t \in Threads, NEW v \in NodeID, NEW d \in NodeID \X Int,
         Holds(t, v), Given(transpose, v, d),
         neighs' = [neighs EXCEPT ![slot[t]] = d],
         UNCHANGED <<el, kind, keep_self, transpose, degrees, offsets, todo>>,
         \A u \in NodeID : (Holds(t, u) <=> u = v) /\ ~ Holds(t, u)',
         \A o \in Threads \ {t} : pc'[o] = pc[o] /\ slot'[o] = slot[o] /\ e'[o] = e[o],
         \A u \in NodeID : \A b : Owes(t, u, b) => Owes(t, u, b)' \/ (u = v /\ b = d)
  PROVE  Cells' /\ Filled' /\ Arriving'
<1>1. Index' = Index /\ Index \in [0 .. N -> Nat]
      /\ \A x, y \in 0 .. N : x <= y => Index[x] <= Index[y]
  BY IndexFacts DEF Index, Typed
<1>2. \A u \in NodeID : /\ Index[u] \in Nat /\ Index[u + 1] \in Nat /\ offsets[u] \in Nat
                        /\ Index[u] <= offsets[u] /\ offsets[u] <= Index[u + 1]
  BY OffsetsInRow DEF Counts
<1>3. \A o \in Threads \ {t}, u \in NodeID : Holds(o, u)' <=> Holds(o, u)
  BY DEF Holds
<1>4. /\ slot[t] \in Index[v] .. (offsets[v] - 1) /\ slot[t] \in Index[v] .. (Index[v + 1] - 1)
      /\ neighs[slot[t]] = Blank
  BY <1>2, HeldCells DEF Cells
<1>5. \A u \in NodeID : \A c \in Index[u] .. (Index[u + 1] - 1) : c \in DOMAIN neighs
  <2>1. ASSUME NEW u \in NodeID, NEW c \in Index[u] .. (Index[u + 1] - 1)
        PROVE  c \in 0 .. (Index[N] - 1)
    <3>1. Index[u + 1] <= Index[N] /\ Index[N] \in Nat
      BY <1>1, NodeFacts, NAssumption
    <3> QED BY <1>2, <3>1
  <2> QED BY <2>1 DEF Cells
<1>6. DOMAIN neighs' = DOMAIN neighs /\ neighs'[slot[t]] = d
      /\ \A c : c # slot[t] => neighs'[c] = neighs[c]
  <2>1. slot[t] \in DOMAIN neighs
    BY <1>4, <1>5
  <2>2. DOMAIN neighs' = DOMAIN neighs /\ neighs'[slot[t]] = d
        /\ \A c \in DOMAIN neighs : c # slot[t] => neighs'[c] = neighs[c]
    BY <2>1
  <2>3. ASSUME NEW c, c # slot[t]  PROVE neighs'[c] = neighs[c]
    BY <2>3
  <2> QED BY <2>2, <2>3
<1>7. Cells'
  <2>1. DOMAIN neighs' = 0 .. (Index'[N] - 1)
    BY <1>1, <1>6 DEF Cells
  <2>2. ASSUME NEW o \in Threads, NEW u \in NodeID, Holds(o, u)'
        PROVE  /\ slot'[o] \in Index'[u] .. (offsets'[u] - 1)
               /\ neighs'[slot'[o]] = Blank
               /\ \A p \in Threads \ {o}, w \in NodeID : Holds(p, w)' => slot'[p] # slot'[o]
    <3>1. o # t /\ Holds(o, u) /\ slot'[o] = slot[o]
      BY <1>3, <2>2
    <3>2. slot[o] \in Index[u] .. (offsets[u] - 1) /\ neighs[slot[o]] = Blank /\ slot[o] # slot[t]
      BY <3>1 DEF Cells
    <3>3. ASSUME NEW p \in Threads \ {o}, NEW w \in NodeID, Holds(p, w)'  PROVE slot'[p] # slot'[o]
      <4>1. p # t /\ Holds(p, w) /\ slot'[p] = slot[p]
        BY <1>3, <3>3
      <4> QED BY <3>1, <4>1 DEF Cells
    <3> QED BY <1>1, <1>6, <3>1, <3>2, <3>3
  <2> QED BY <2>1, <2>2 DEF Cells
<1>8. Filled'
  <2>1. ASSUME NEW u \in NodeID, NEW c \in offsets[u] .. (Index[u + 1] - 1)  PROVE neighs'[c] = Blank
    <3>1. c \in Index[u] .. (Index[u + 1] - 1)
      BY <1>2
    <3>2. c = slot[t] => u = v
      BY <1>1, <1>4, <3>1, OneRow
    <3>3. c # slot[t]
      BY <1>2, <1>4, <3>2
    <3> QED BY <1>6, <3>3 DEF Filled
  <2>2. ASSUME NEW u \in NodeID, NEW c \in Index[u] .. (offsets[u] - 1)
        PROVE  \/ Given(transpose, u, neighs'[c])
               \/ \E o \in Threads : Holds(o, u)' /\ slot'[o] = c
    <3>1. c \in Index[u] .. (Index[u + 1] - 1)
      BY <1>2
    <3>2. CASE c = slot[t]
      <4>1. u = v
        BY <1>1, <1>4, <3>1, <3>2, OneRow
      <4> QED BY <1>6, <3>2, <4>1
    <3>3. CASE c # slot[t]
      <4>1. neighs'[c] = neighs[c]
        BY <1>6, <3>3
      <4>2. CASE Given(transpose, u, neighs[c])
        BY <4>1, <4>2
      <4>3. ASSUME NEW o \in Threads, Holds(o, u), slot[o] = c
            PROVE  Holds(o, u)' /\ slot'[o] = c
        BY <1>3, <3>3, <4>3
      <4> QED BY <4>2, <4>3 DEF Filled
    <3> QED BY <3>2, <3>3
  <2>3. \A u, b : Given(transpose, u, b)' <=> Given(transpose, u, b)
    BY DEF Given, Gives
  <2> QED BY <1>1, <2>1, <2>2, <2>3 DEF Filled
<1>9. Arriving'
  <2>1. ASSUME NEW u \in NodeID, NEW b \in NodeID \X Int, Given(transpose, u, b)'
        PROVE  \/ \E c \in Index'[u] .. (offsets'[u] - 1) : neighs'[c] = b
               \/ \E k \in todo' : Gives(transpose, el[k], u, b)'
               \/ \E o \in Threads : Owes(o, u, b)'
    <3>1. Given(transpose, u, b)
      BY <2>1 DEF Given, Gives
    <3>2. \A k \in todo : Gives(transpose, el[k], u, b) => Gives(transpose, el[k], u, b)'
      BY DEF Gives
    <3>3. \A o \in Threads \ {t} : Owes(o, u, b) => Owes(o, u, b)'
      BY DEF Owes, AtTarget
    <3>4. b # Blank
      BY DEF Blank, NodeID
    <3>5. \A c \in Index[u] .. (offsets[u] - 1) : neighs[c] = b => neighs'[c] = b
      BY <1>4, <1>6, <3>4
    <3>6. CASE Owes(t, u, b)
      <4>1. CASE u = v /\ b = d
        BY <1>1, <1>4, <1>6, <4>1
      <4>2. CASE Owes(t, u, b)'
        BY <4>2
      <4> QED BY <3>6, <4>1, <4>2
    <3> QED BY <1>1, <3>1, <3>2, <3>3, <3>5, <3>6 DEF Arriving
  <2> QED BY <2>1 DEF Arriving
<1> QED BY <1>7, <1>8, <1>9

-----------------------------------------------------------------------------
(* The steps *)

\* Phases other than the parallel loop: nothing to keep of it.
LEMMA InitInv == Init => Inv
<1> SUFFICES ASSUME Init  PROVE Inv
  OBVIOUS
<1>1. Typed
  <2>1. NoEdge \in Edge
    BY NAssumption DEF NoEdge, Edge, NodeID
  <2>2. offsets \in [0 .. N -> Nat]
    BY DEF Init, NoRows
  <2> QED BY <2>1, <2>2, CSRBuildAssumption DEF Init, Typed
<1> QED BY <1>1 DEF Init, Inv, Idle, FillInv, BuiltInv, BuiltGraph

LEMMA CountedNat ==
  ASSUME el \in Inputs, NEW v
  PROVE  /\ Cardinality({k \in 1 .. Len(el) : AtSource(el[k]) /\ el[k][1] = v}) \in Nat
         /\ Cardinality({k \in 1 .. Len(el) : AtTarget(el[k]) /\ el[k][2] = v}) \in Nat
         /\ Counted(v) \in Nat
<1>1. IsFiniteSet(1 .. Len(el))
  BY ListFacts, FS_Interval
<1>2. /\ IsFiniteSet({k \in 1 .. Len(el) : AtSource(el[k]) /\ el[k][1] = v})
      /\ IsFiniteSet({k \in 1 .. Len(el) : AtTarget(el[k]) /\ el[k][2] = v})
  BY <1>1, FS_Subset
<1> QED BY <1>2, FS_CardinalityType DEF Counted

\* The parallel loop starts with every end of an edge counted and no cell filled.
LEMMA CountDegreesInv == Inv /\ CountDegrees => Inv'
<1> SUFFICES ASSUME Inv, CountDegrees  PROVE Inv'
  OBVIOUS
<1> USE DEF Inv
<1>1. degrees' = [v \in NodeID |-> Counted(v)] /\ degrees' \in [NodeID -> Nat]
  BY CountedNat DEF CountDegrees, Typed
<1>2. offsets' = Index' /\ N \in Nat
  <2>1. \A i \in 0 .. (N - 1) : degrees'[i] \in Int
    BY <1>1 DEF NodeID
  <2>2. N \in Nat /\ BlockSize \in Nat \ {0}
    BY NAssumption, CSRBuildAssumption
  <2>3. ParallelPrefixSum(degrees', N, BlockSize) = PrefixSum(degrees', N)
    BY <2>1, <2>2, ParallelPrefixSumExact
  <2> QED BY <2>2, <2>3 DEF CountDegrees, Index
<1>3. /\ Index' \in [0 .. N -> Nat] /\ Index'[0] = 0
      /\ \A u, v \in 0 .. N : u <= v => Index'[u] <= Index'[v]
      /\ \A i \in 0 .. (N - 1) : Index'[i + 1] = Index'[i] + degrees'[i]
  <2>1. \A i \in 0 .. (N - 1) : degrees'[i] \in Nat
    BY <1>1 DEF NodeID
  <2> QED BY <1>2, <2>1, PrefixSumFacts DEF Index
<1>4. Typed'
  BY <1>1, <1>2, <1>3 DEF CountDegrees, Typed
<1>5. \A t \in Threads : pc'[t] = "loop" /\ slot'[t] = 0
  BY DEF CountDegrees, Idle
<1>6. \A t, v : t \in Threads => ~ Holds(t, v)'
  BY <1>5 DEF Holds
<1>7. Counts'
  <2>1. ASSUME NEW v \in NodeID
        PROVE  /\ Index'[v] <= offsets'[v]
               /\ offsets'[v] + Cardinality(SourcesLeft(v)') + Cardinality(TargetsLeft(v)')
                    + Cardinality(SourcesTaken(v)') + Cardinality(TargetsTaken(v)') = Index'[v + 1]
    <3>1. SourcesTaken(v)' = {} /\ TargetsTaken(v)' = {}
      BY <1>5 DEF SourcesTaken, TargetsTaken
    <3>2. /\ SourcesLeft(v)' = {k \in 1 .. Len(el) : AtSource(el[k]) /\ el[k][1] = v}
          /\ TargetsLeft(v)' = {k \in 1 .. Len(el) : AtTarget(el[k]) /\ el[k][2] = v}
      BY DEF SourcesLeft, TargetsLeft, CountDegrees, AtSource, AtTarget
    <3>3. Counted(v) = Cardinality(SourcesLeft(v)') + Cardinality(TargetsLeft(v)')
      BY <3>2 DEF Counted
    <3>4. v \in 0 .. (N - 1) /\ Index'[v] \in Nat /\ degrees'[v] \in Nat
      BY <1>1, <1>3, NodeFacts DEF NodeID
    <3>5. Cardinality(SourcesTaken(v)') = 0 /\ Cardinality(TargetsTaken(v)') = 0
      BY <3>1, FS_EmptySet
    <3>6. Cardinality(SourcesLeft(v)') \in Nat /\ Cardinality(TargetsLeft(v)') \in Nat
      BY <3>2, CountedNat DEF Typed
    <3>7. Index'[v + 1] = Index'[v] + Counted(v)
      BY <1>1, <1>3, <3>4
    <3> QED BY <1>2, <3>3, <3>4, <3>5, <3>6, <3>7
  <2>2. \A v : Counted(v)' = Counted(v)
    BY DEF Counted, CountDegrees, AtSource, AtTarget
  <2> QED BY <1>1, <2>1, <2>2 DEF Counts
<1>8. Locations'
  BY <1>5 DEF Locations
<1>9. neighs' = [c \in 0 .. (Index'[N] - 1) |-> Blank]
  BY <1>2 DEF CountDegrees
<1>10. Cells'
  <2>1. DOMAIN neighs' = 0 .. (Index'[N] - 1)
    BY <1>9
  <2> QED BY <1>6, <2>1 DEF Cells
<1>11. Filled'
  <2>1. ASSUME NEW v \in NodeID, NEW c \in offsets'[v] .. (Index'[v + 1] - 1)  PROVE neighs'[c] = Blank
    <3>1. Index'[v] \in Nat /\ Index'[v + 1] <= Index'[N] /\ Index'[N] \in Nat /\ Index'[v + 1] \in Nat
      BY <1>3, NodeFacts, NAssumption
    <3>2. c \in 0 .. (Index'[N] - 1)
      BY <1>2, <3>1
    <3> QED BY <1>9, <3>2
  <2>2. \A v \in NodeID : Index'[v] .. (offsets'[v] - 1) = {}
    BY <1>2, <1>3, NodeFacts
  <2> QED BY <2>1, <2>2 DEF Filled
<1>12. Arriving'
  BY DEF CountDegrees, Arriving, Given
<1>13. Idle' /\ FillInv'
  BY <1>7, <1>8, <1>10, <1>11, <1>12 DEF Idle, FillInv, CountDegrees
<1>14. BuiltInv' /\ BuiltGraph'
  <2>1. /\ phase = "count" /\ phase' = "fill"
        /\ UNCHANGED <<el, kind, keep_self, transpose, built>>
    BY DEF CountDegrees
  <2>2. Complete(built[FALSE], FALSE)' <=> Complete(built[FALSE], FALSE)
    BY <2>1 DEF Complete, Given, Gives
  <2> QED BY <2>1, <2>2 DEF BuiltInv, BuiltGraph
<1> QED BY <1>4, <1>13, <1>14

\* What the threads do leaves the rest of the invariant alone.
LEMMA LoopFrame ==
  ASSUME Inv, phase = "fill",
         UNCHANGED <<el, kind, keep_self, transpose, degrees, built, phase>>
  PROVE  BuiltInv' /\ BuiltGraph' /\ Idle' /\ Index' = Index
<1>1. Complete(built[FALSE], FALSE)' <=> Complete(built[FALSE], FALSE)
  BY DEF Complete, Given, Gives
<1> QED BY <1>1 DEF Inv, BuiltInv, BuiltGraph, Idle, Index

\* An edge taken from the list is owed to its rows by the thread.
LEMMA TakeEdgeInv ==
  ASSUME Inv, NEW t \in Threads, NEW k \in todo, TakeEdge(t, k)
  PROVE  Inv'
<1> USE DEF Inv
<1>1. /\ phase = "fill" /\ pc[t] = "loop" /\ k \in 1 .. Len(el) /\ todo' = todo \ {k}
      /\ UNCHANGED <<el, kind, keep_self, transpose, degrees, offsets, neighs, slot, built, phase>>
  BY DEF TakeEdge, Typed
<1>2. el[k] \in Edge
  BY <1>1, ListFacts DEF Typed
<1>3. /\ e'[t] = el[k] /\ \A o \in Threads \ {t} : e'[o] = e[o] /\ pc'[o] = pc[o]
      /\ pc'[t] = IF AtSource(el[k]) THEN "claimU" ELSE "claimV"
  BY DEF TakeEdge, Goto, Typed
<1>4. Typed'
  BY <1>1, <1>2 DEF TakeEdge, Goto, Typed
<1>5. BuiltInv' /\ BuiltGraph' /\ Idle' /\ Index' = Index
  BY <1>1, LoopFrame
<1>6. Counts /\ Locations /\ Cells /\ Filled /\ Arriving
  BY <1>1 DEF FillInv
<1>7. \A x : (AtSource(x)' <=> AtSource(x)) /\ (AtTarget(x)' <=> AtTarget(x)) /\ (AtSource(x) \/ AtTarget(x))
  BY <1>1 DEF AtSource, AtTarget
<1>8. Counts'
  <2>1. \A v : Counted(v)' = Counted(v)
    BY <1>1, <1>7 DEF Counted
  <2>2. ASSUME NEW v \in NodeID
        PROVE  Cardinality(SourcesLeft(v)') + Cardinality(SourcesTaken(v)')
                 = Cardinality(SourcesLeft(v)) + Cardinality(SourcesTaken(v))
    <3>1. t \notin SourcesTaken(v) /\ IsFiniteSet(SourcesLeft(v)) /\ IsFiniteSet(SourcesTaken(v))
      BY <1>1, SizesFinite DEF SourcesTaken
    <3>2. CASE AtSource(el[k]) /\ el[k][1] = v
      <4>1. k \in SourcesLeft(v) /\ SourcesLeft(v)' = SourcesLeft(v) \ {k}
        BY <1>1, <1>7, <3>2 DEF SourcesLeft
      <4>2. SourcesTaken(v)' = SourcesTaken(v) \union {t}
        BY <1>1, <1>3, <3>2 DEF SourcesTaken
      <4>3. /\ Cardinality(SourcesLeft(v)') = Cardinality(SourcesLeft(v)) - 1
            /\ Cardinality(SourcesTaken(v)') = Cardinality(SourcesTaken(v)) + 1
            /\ Cardinality(SourcesLeft(v)) \in Nat /\ Cardinality(SourcesTaken(v)) \in Nat
        BY <3>1, <4>1, <4>2, SizeStep
      <4> QED BY <4>3
    <3>3. CASE ~ (AtSource(el[k]) /\ el[k][1] = v)
      <4>1. SourcesLeft(v)' = SourcesLeft(v)
        BY <1>1, <1>7, <3>3 DEF SourcesLeft
      <4>2. SourcesTaken(v)' = SourcesTaken(v)
        BY <1>1, <1>3, <3>3 DEF SourcesTaken
      <4> QED BY <4>1, <4>2
    <3> QED BY <3>2, <3>3
  <2>3. ASSUME NEW v \in NodeID
        PROVE  Cardinality(TargetsLeft(v)') + Cardinality(TargetsTaken(v)')
                 = Cardinality(TargetsLeft(v)) + Cardinality(TargetsTaken(v))
    <3>1. t \notin TargetsTaken(v) /\ IsFiniteSet(TargetsLeft(v)) /\ IsFiniteSet(TargetsTaken(v))
      BY <1>1, SizesFinite DEF TargetsTaken
    <3>2. CASE AtTarget(el[k]) /\ el[k][2] = v
      <4>1. k \in TargetsLeft(v) /\ TargetsLeft(v)' = TargetsLeft(v) \ {k}
        BY <1>1, <1>7, <3>2 DEF TargetsLeft
      <4>2. TargetsTaken(v)' = TargetsTaken(v) \union {t}
        BY <1>1, <1>3, <1>7, <3>2 DEF TargetsTaken
      <4>3. /\ Cardinality(TargetsLeft(v)') = Cardinality(TargetsLeft(v)) - 1
            /\ Cardinality(TargetsTaken(v)') = Cardinality(TargetsTaken(v)) + 1
            /\ Cardinality(TargetsLeft(v)) \in Nat /\ Cardinality(TargetsTaken(v)) \in Nat
        BY <3>1, <4>1, <4>2, SizeStep
      <4> QED BY <4>3
    <3>3. CASE ~ (AtTarget(el[k]) /\ el[k][2] = v)
      <4>1. TargetsLeft(v)' = TargetsLeft(v)
        BY <1>1, <1>7, <3>3 DEF TargetsLeft
      <4>2. TargetsTaken(v)' = TargetsTaken(v)
        BY <1>1, <1>3, <1>7, <3>3 DEF TargetsTaken
      <4> QED BY <4>1, <4>2
    <3> QED BY <3>2, <3>3
  <2>4. ASSUME NEW v \in NodeID
        PROVE  offsets[v] + Cardinality(SourcesLeft(v)') + Cardinality(TargetsLeft(v)')
                 + Cardinality(SourcesTaken(v)') + Cardinality(TargetsTaken(v)') = Index[v + 1]
    <3>1. /\ Cardinality(SourcesLeft(v)) \in Nat /\ Cardinality(TargetsLeft(v)) \in Nat
          /\ Cardinality(SourcesTaken(v)) \in Nat /\ Cardinality(TargetsTaken(v)) \in Nat
      BY SizesFinite, FS_CardinalityType
    <3>2. /\ IsFiniteSet(SourcesLeft(v)') /\ IsFiniteSet(TargetsLeft(v)')
          /\ IsFiniteSet(SourcesTaken(v)') /\ IsFiniteSet(TargetsTaken(v)')
      <4>1. /\ SourcesLeft(v)' \subseteq SourcesLeft(v) /\ TargetsLeft(v)' \subseteq TargetsLeft(v)
            /\ SourcesTaken(v)' \subseteq Threads /\ TargetsTaken(v)' \subseteq Threads
        BY <1>1, <1>7 DEF SourcesLeft, TargetsLeft, SourcesTaken, TargetsTaken
      <4> QED BY <4>1, SizesFinite, FS_Subset, CSRBuildAssumption
    <3>3. /\ Cardinality(SourcesLeft(v)') \in Nat /\ Cardinality(TargetsLeft(v)') \in Nat
          /\ Cardinality(SourcesTaken(v)') \in Nat /\ Cardinality(TargetsTaken(v)') \in Nat
      BY <3>2, FS_CardinalityType
    <3>4. offsets[v] \in Nat /\ Index[v + 1] \in Nat
      BY <1>6, OffsetsInRow
    <3>5. offsets[v] + Cardinality(SourcesLeft(v)) + Cardinality(TargetsLeft(v))
            + Cardinality(SourcesTaken(v)) + Cardinality(TargetsTaken(v)) = Index[v + 1]
      BY <1>6 DEF Counts
    <3>6. /\ Cardinality(SourcesLeft(v)') + Cardinality(SourcesTaken(v)')
               = Cardinality(SourcesLeft(v)) + Cardinality(SourcesTaken(v))
          /\ Cardinality(TargetsLeft(v)') + Cardinality(TargetsTaken(v)')
               = Cardinality(TargetsLeft(v)) + Cardinality(TargetsTaken(v))
      BY <2>2, <2>3
    <3> QED BY <3>1, <3>3, <3>4, <3>5, <3>6
  <2> QED BY <1>1, <1>5, <1>6, <2>1, <2>4 DEF Counts
<1>9. Locations'
  BY <1>1, <1>3, <1>6, <1>7 DEF Locations
<1>10. \A o \in Threads, v \in NodeID : Holds(o, v)' <=> Holds(o, v)
  BY <1>1, <1>3 DEF Holds
<1>11. Cells'
  BY <1>1, <1>5, <1>6, <1>10 DEF Cells
<1>12. \A v, d : Given(transpose, v, d)' <=> Given(transpose, v, d)
  BY <1>1 DEF Given, Gives
<1>13. Filled'
  BY <1>1, <1>5, <1>6, <1>10, <1>12 DEF Filled
<1>14. Arriving'
  <2>1. ASSUME NEW v \in NodeID, NEW d \in NodeID \X Int, Given(transpose, v, d)'
        PROVE  \/ \E c \in Index[v] .. (offsets[v] - 1) : neighs[c] = d
               \/ \E l \in todo' : Gives(transpose, el[l], v, d)'
               \/ \E o \in Threads : Owes(o, v, d)'
    <3>1. \A l : Gives(transpose, el[l], v, d)' <=> Gives(transpose, el[l], v, d)
      BY <1>1 DEF Gives
    <3>2. \A o \in Threads \ {t} : Owes(o, v, d) => Owes(o, v, d)'
      BY <1>3, <1>7 DEF Owes
    <3>3. ~ Owes(t, v, d)
      BY <1>1 DEF Owes
    <3>4. Gives(transpose, el[k], v, d) => Owes(t, v, d)'
      BY <1>3, <1>7 DEF Gives, Owes, AtSource, AtTarget
    <3>5. \/ \E c \in Index[v] .. (offsets[v] - 1) : neighs[c] = d
          \/ \E l \in todo : Gives(transpose, el[l], v, d)
          \/ \E o \in Threads : Owes(o, v, d)
      BY <1>6, <1>12, <2>1 DEF Arriving
    <3> QED BY <1>1, <3>1, <3>2, <3>3, <3>4, <3>5
  <2> QED BY <1>1, <1>5, <2>1 DEF Arriving
<1>15. FillInv'
  BY <1>8, <1>9, <1>11, <1>13, <1>14 DEF FillInv
<1> QED BY <1>4, <1>5, <1>15

\* The fetch-and-adds take a cell of the row of either end.
LEMMA ClaimUInv ==
  ASSUME Inv, NEW t \in Threads, ClaimU(t)
  PROVE  Inv'
<1> DEFINE v == e[t][1]
<1> USE DEF Inv
<1>1. /\ phase = "fill" /\ pc[t] = "claimU" /\ e[t] \in Edge /\ v \in NodeID /\ Claim(t, v)
      /\ UNCHANGED <<el, kind, keep_self, transpose, degrees, neighs, todo, e, built, phase>>
  <2>1. pc[t] = "claimU"
    BY DEF ClaimU
  <2>2. phase = "fill"
    BY <2>1 DEF Idle
  <2>3. e[t] \in Edge
    BY DEF Typed
  <2> QED BY <2>1, <2>2, <2>3, EdgeParts DEF ClaimU
<1>2. pc'[t] = "storeU" /\ \A o \in Threads \ {t} : pc'[o] = pc[o]
  BY DEF ClaimU, Goto, Typed
<1>3. Counts /\ Locations /\ Cells /\ Filled /\ Arriving
  BY <1>1 DEF FillInv
<1> HIDE DEF v
<1>4. BuiltInv' /\ BuiltGraph' /\ Idle' /\ Index' = Index
  BY <1>1, LoopFrame
<1>5. \A x : (AtSource(x)' <=> AtSource(x)) /\ (AtTarget(x)' <=> AtTarget(x))
  BY <1>1 DEF AtSource, AtTarget
<1>6. t \in SourcesTaken(v) /\ offsets[v] < Index[v + 1]
  <2>1. t \in SourcesTaken(v)
    BY <1>1, <1>3 DEF SourcesTaken, Locations, v
  <2> QED BY <1>1, <1>3, <2>1, OffsetsInRow
<1>7. \A u \in NodeID : ~ Holds(t, u) /\ (Holds(t, u)' <=> u = v)
  BY <1>1, <1>2 DEF Holds, v
<1>8. \A u, d : Owes(t, u, d) => Owes(t, u, d)'
  BY <1>1, <1>2, <1>5 DEF Owes
<1>9. Cells' /\ Filled' /\ Arriving'
  BY <1>1, <1>2, <1>3, <1>6, <1>7, <1>8, ClaimKeeps
<1>10. /\ slot'[t] = offsets[v] /\ \A o \in Threads \ {t} : slot'[o] = slot[o]
       /\ offsets'[v] = offsets[v] + 1 /\ \A u \in NodeID \ {v} : offsets'[u] = offsets[u]
  BY <1>1, NodeFacts DEF Claim, Typed
<1>11. Typed'
  <2>1. offsets[v] \in Nat /\ offsets[v] + 1 \in Nat
    BY <1>1, <1>3, OffsetsInRow
  <2>2. pc' = [pc EXCEPT ![t] = "storeU"]
    BY DEF ClaimU, Goto
  <2>3. slot' \in [Threads -> Nat] /\ offsets' \in [0 .. N -> Nat]
    BY <1>1, <2>1 DEF Claim, Typed
  <2> QED BY <1>1, <2>2, <2>3 DEF Typed
<1>12. Counts'
  <2>1. \A u : Counted(u)' = Counted(u)
    BY <1>1, <1>5 DEF Counted
  <2>2. ASSUME NEW u \in NodeID
        PROVE  /\ SourcesLeft(u)' = SourcesLeft(u) /\ TargetsLeft(u)' = TargetsLeft(u)
               /\ TargetsTaken(u)' = TargetsTaken(u)
               /\ SourcesTaken(u)' = IF u = v THEN SourcesTaken(u) \ {t} ELSE SourcesTaken(u)
    <3>1. SourcesLeft(u)' = SourcesLeft(u) /\ TargetsLeft(u)' = TargetsLeft(u)
      BY <1>1, <1>5 DEF SourcesLeft, TargetsLeft
    <3>2. TargetsTaken(u)' = TargetsTaken(u)
      BY <1>1, <1>2, <1>5 DEF TargetsTaken
    <3>3. SourcesTaken(u)' = IF u = v THEN SourcesTaken(u) \ {t} ELSE SourcesTaken(u)
      BY <1>1, <1>2, <1>5 DEF SourcesTaken, v
    <3> QED BY <3>1, <3>2, <3>3
  <2>3. ASSUME NEW u \in NodeID
        PROVE  /\ Index[u] <= offsets'[u]
               /\ offsets'[u] + Cardinality(SourcesLeft(u)') + Cardinality(TargetsLeft(u)')
                    + Cardinality(SourcesTaken(u)') + Cardinality(TargetsTaken(u)') = Index[u + 1]
    <3>1. /\ Cardinality(SourcesLeft(u)) \in Nat /\ Cardinality(TargetsLeft(u)) \in Nat
          /\ Cardinality(SourcesTaken(u)) \in Nat /\ Cardinality(TargetsTaken(u)) \in Nat
      BY SizesFinite, FS_CardinalityType
    <3>2. offsets[u] \in Nat /\ Index[u] \in Nat /\ Index[u + 1] \in Nat
      BY <1>3, OffsetsInRow
    <3>3. /\ Index[u] <= offsets[u]
          /\ offsets[u] + Cardinality(SourcesLeft(u)) + Cardinality(TargetsLeft(u))
               + Cardinality(SourcesTaken(u)) + Cardinality(TargetsTaken(u)) = Index[u + 1]
      BY <1>3 DEF Counts
    <3>4. CASE u = v
      <4>1. Cardinality(SourcesTaken(u)') = Cardinality(SourcesTaken(u)) - 1
        BY <1>6, <2>2, <3>4, SizesFinite, SizeStep
      <4>2. offsets'[u] = offsets[u] + 1
        BY <1>10, <3>4
      <4> QED BY <2>2, <3>1, <3>2, <3>3, <4>1, <4>2
    <3>5. CASE u # v
      <4>1. SourcesTaken(u)' = SourcesTaken(u) /\ offsets'[u] = offsets[u]
        BY <1>10, <2>2, <3>5
      <4> QED BY <2>2, <3>3, <4>1
    <3> QED BY <3>4, <3>5
  <2> QED BY <1>1, <1>3, <1>4, <2>1, <2>3 DEF Counts
<1>13. Locations'
  <2>1. ASSUME NEW o \in Threads
        PROVE  /\ pc'[o] \in {"claimU", "storeU"} => AtSource(e[o])
               /\ pc'[o] \in {"claimV", "storeV"} => AtTarget(e[o])
               /\ pc'[o] \notin {"storeU", "storeV"} => slot'[o] = 0
               /\ pc'[o] # "loop" => \E k \in 1 .. Len(el) : e[o] = el[k]
    <3>1. CASE o = t
      BY <1>1, <1>2, <1>3, <3>1 DEF Locations
    <3>2. CASE o # t
      BY <1>2, <1>3, <1>10, <3>2 DEF Locations
    <3> QED BY <3>1, <3>2
  <2> QED BY <1>1, <1>5, <2>1 DEF Locations
<1>14. FillInv'
  BY <1>9, <1>12, <1>13 DEF FillInv
<1> QED BY <1>4, <1>11, <1>14

LEMMA ClaimVInv ==
  ASSUME Inv, NEW t \in Threads, ClaimV(t)
  PROVE  Inv'
<1> DEFINE v == e[t][2]
<1> USE DEF Inv
<1>1. /\ phase = "fill" /\ pc[t] = "claimV" /\ e[t] \in Edge /\ v \in NodeID /\ Claim(t, v)
      /\ UNCHANGED <<el, kind, keep_self, transpose, degrees, neighs, todo, e, built, phase>>
  <2>1. pc[t] = "claimV"
    BY DEF ClaimV
  <2>2. phase = "fill"
    BY <2>1 DEF Idle
  <2>3. e[t] \in Edge
    BY DEF Typed
  <2> QED BY <2>1, <2>2, <2>3, EdgeParts DEF ClaimV
<1>2. pc'[t] = "storeV" /\ \A o \in Threads \ {t} : pc'[o] = pc[o]
  BY DEF ClaimV, Goto, Typed
<1>3. Counts /\ Locations /\ Cells /\ Filled /\ Arriving
  BY <1>1 DEF FillInv
<1> HIDE DEF v
<1>4. BuiltInv' /\ BuiltGraph' /\ Idle' /\ Index' = Index
  BY <1>1, LoopFrame
<1>5. \A x : (AtSource(x)' <=> AtSource(x)) /\ (AtTarget(x)' <=> AtTarget(x))
  BY <1>1 DEF AtSource, AtTarget
<1>6. t \in TargetsTaken(v) /\ offsets[v] < Index[v + 1]
  <2>1. t \in TargetsTaken(v)
    BY <1>1, <1>3 DEF TargetsTaken, Locations, v
  <2> QED BY <1>1, <1>3, <2>1, OffsetsInRow
<1>7. \A u \in NodeID : ~ Holds(t, u) /\ (Holds(t, u)' <=> u = v)
  BY <1>1, <1>2 DEF Holds, v
<1>8. \A u, d : Owes(t, u, d) => Owes(t, u, d)'
  BY <1>1, <1>2, <1>5 DEF Owes
<1>9. Cells' /\ Filled' /\ Arriving'
  BY <1>1, <1>2, <1>3, <1>6, <1>7, <1>8, ClaimKeeps
<1>10. /\ slot'[t] = offsets[v] /\ \A o \in Threads \ {t} : slot'[o] = slot[o]
       /\ offsets'[v] = offsets[v] + 1 /\ \A u \in NodeID \ {v} : offsets'[u] = offsets[u]
  BY <1>1, NodeFacts DEF Claim, Typed
<1>11. Typed'
  <2>1. offsets[v] \in Nat /\ offsets[v] + 1 \in Nat
    BY <1>1, <1>3, OffsetsInRow
  <2>2. pc' = [pc EXCEPT ![t] = "storeV"]
    BY DEF ClaimV, Goto
  <2>3. slot' \in [Threads -> Nat] /\ offsets' \in [0 .. N -> Nat]
    BY <1>1, <2>1 DEF Claim, Typed
  <2> QED BY <1>1, <2>2, <2>3 DEF Typed
<1>12. Counts'
  <2>1. \A u : Counted(u)' = Counted(u)
    BY <1>1, <1>5 DEF Counted
  <2>2. ASSUME NEW u \in NodeID
        PROVE  /\ SourcesLeft(u)' = SourcesLeft(u) /\ TargetsLeft(u)' = TargetsLeft(u)
               /\ SourcesTaken(u)' = SourcesTaken(u)
               /\ TargetsTaken(u)' = IF u = v THEN TargetsTaken(u) \ {t} ELSE TargetsTaken(u)
    <3>1. SourcesLeft(u)' = SourcesLeft(u) /\ TargetsLeft(u)' = TargetsLeft(u)
      BY <1>1, <1>5 DEF SourcesLeft, TargetsLeft
    <3>2. SourcesTaken(u)' = SourcesTaken(u)
      BY <1>1, <1>2, <1>5 DEF SourcesTaken
    <3>3. TargetsTaken(u)' = IF u = v THEN TargetsTaken(u) \ {t} ELSE TargetsTaken(u)
      BY <1>1, <1>2, <1>5 DEF TargetsTaken, v
    <3> QED BY <3>1, <3>2, <3>3
  <2>3. ASSUME NEW u \in NodeID
        PROVE  /\ Index[u] <= offsets'[u]
               /\ offsets'[u] + Cardinality(SourcesLeft(u)') + Cardinality(TargetsLeft(u)')
                    + Cardinality(SourcesTaken(u)') + Cardinality(TargetsTaken(u)') = Index[u + 1]
    <3>1. /\ Cardinality(SourcesLeft(u)) \in Nat /\ Cardinality(TargetsLeft(u)) \in Nat
          /\ Cardinality(SourcesTaken(u)) \in Nat /\ Cardinality(TargetsTaken(u)) \in Nat
      BY SizesFinite, FS_CardinalityType
    <3>2. offsets[u] \in Nat /\ Index[u] \in Nat /\ Index[u + 1] \in Nat
      BY <1>3, OffsetsInRow
    <3>3. /\ Index[u] <= offsets[u]
          /\ offsets[u] + Cardinality(SourcesLeft(u)) + Cardinality(TargetsLeft(u))
               + Cardinality(SourcesTaken(u)) + Cardinality(TargetsTaken(u)) = Index[u + 1]
      BY <1>3 DEF Counts
    <3>4. CASE u = v
      <4>1. Cardinality(TargetsTaken(u)') = Cardinality(TargetsTaken(u)) - 1
        BY <1>6, <2>2, <3>4, SizesFinite, SizeStep
      <4>2. offsets'[u] = offsets[u] + 1
        BY <1>10, <3>4
      <4> QED BY <2>2, <3>1, <3>2, <3>3, <4>1, <4>2
    <3>5. CASE u # v
      <4>1. TargetsTaken(u)' = TargetsTaken(u) /\ offsets'[u] = offsets[u]
        BY <1>10, <2>2, <3>5
      <4> QED BY <2>2, <3>3, <4>1
    <3> QED BY <3>4, <3>5
  <2> QED BY <1>1, <1>3, <1>4, <2>1, <2>3 DEF Counts
<1>13. Locations'
  <2>1. ASSUME NEW o \in Threads
        PROVE  /\ pc'[o] \in {"claimU", "storeU"} => AtSource(e[o])
               /\ pc'[o] \in {"claimV", "storeV"} => AtTarget(e[o])
               /\ pc'[o] \notin {"storeU", "storeV"} => slot'[o] = 0
               /\ pc'[o] # "loop" => \E k \in 1 .. Len(el) : e[o] = el[k]
    <3>1. CASE o = t
      BY <1>1, <1>2, <1>3, <3>1 DEF Locations
    <3>2. CASE o # t
      BY <1>2, <1>3, <1>10, <3>2 DEF Locations
    <3> QED BY <3>1, <3>2
  <2> QED BY <1>1, <1>5, <2>1 DEF Locations
<1>14. FillInv'
  BY <1>9, <1>12, <1>13 DEF FillInv
<1> QED BY <1>4, <1>11, <1>14

\* The stores put the other end there.
LEMMA StoreUInv ==
  ASSUME Inv, NEW t \in Threads, StoreU(t)
  PROVE  Inv'
<1> DEFINE v == e[t][1]
           d == <<e[t][2], e[t][3]>>
<1> USE DEF Inv
<1>1. /\ phase = "fill" /\ pc[t] = "storeU" /\ e[t] \in Edge /\ v \in NodeID /\ d \in NodeID \X Int
      /\ neighs' = [neighs EXCEPT ![slot[t]] = d]
      /\ UNCHANGED <<el, kind, keep_self, transpose, degrees, offsets, todo, built, phase>>
  <2>1. pc[t] = "storeU"
    BY DEF StoreU
  <2>2. phase = "fill"
    BY <2>1 DEF Idle
  <2>3. e[t] \in Edge
    BY DEF Typed
  <2>4. v \in NodeID /\ d \in NodeID \X Int
    BY <2>3, EdgeParts
  <2> QED BY <2>1, <2>2, <2>3, <2>4 DEF StoreU, GetSource
<1>2. slot'[t] = 0 /\ \A o \in Threads \ {t} : pc'[o] = pc[o] /\ slot'[o] = slot[o] /\ e'[o] = e[o]
  BY DEF StoreU, Goto, Typed
<1>3. \/ AtTarget(e[t]) /\ pc'[t] = "claimV" /\ e'[t] = e[t]
      \/ ~ AtTarget(e[t]) /\ pc'[t] = "loop"
  BY DEF StoreU, Goto, Typed
<1>4. Counts /\ Locations /\ Cells /\ Filled /\ Arriving
  BY <1>1 DEF FillInv
<1>5. BuiltInv' /\ BuiltGraph' /\ Idle' /\ Index' = Index
  BY <1>1, LoopFrame
<1>6. \A x : (AtSource(x)' <=> AtSource(x)) /\ (AtTarget(x)' <=> AtTarget(x))
  BY <1>1 DEF AtSource, AtTarget
<1>7. Given(transpose, v, d)
  <2>1. PICK k \in 1 .. Len(el) : e[t] = el[k]
    BY <1>1, <1>4 DEF Locations
  <2>2. Gives(transpose, el[k], v, d)
    BY <1>1, <1>4, <2>1 DEF Gives, Locations, AtSource, AtTarget
  <2> QED BY <2>2 DEF Given
<1>8. \A u \in NodeID : (Holds(t, u) <=> u = v) /\ ~ Holds(t, u)'
  BY <1>1, <1>3 DEF Holds
<1>9. \A u \in NodeID : \A b : Owes(t, u, b) => Owes(t, u, b)' \/ (u = v /\ b = d)
  BY <1>1, <1>3, <1>4, <1>6 DEF Owes, Locations
<1>10. Cells' /\ Filled' /\ Arriving'
  <2> HIDE DEF v, d
  <2> QED BY <1>1, <1>2, <1>4, <1>7, <1>8, <1>9, StoreKeeps
<1>11. Typed'
  <2>1. NoEdge \in Edge
    BY NAssumption DEF NoEdge, Edge, NodeID
  <2>2. pc' \in [Threads -> {"loop", "claimU", "storeU", "claimV", "storeV"}]
    BY DEF StoreU, Goto, Typed
  <2>3. slot' \in [Threads -> Nat] /\ e' \in [Threads -> Edge]
    BY <2>1 DEF StoreU, Typed
  <2> QED BY <1>1, <2>2, <2>3 DEF Typed
<1>12. Counts'
  <2>1. \A u : Counted(u)' = Counted(u)
    BY <1>1, <1>6 DEF Counted
  <2>2. ASSUME NEW u \in NodeID
        PROVE  /\ SourcesLeft(u)' = SourcesLeft(u) /\ TargetsLeft(u)' = TargetsLeft(u)
               /\ SourcesTaken(u)' = SourcesTaken(u) /\ TargetsTaken(u)' = TargetsTaken(u)
    <3>1. SourcesLeft(u)' = SourcesLeft(u) /\ TargetsLeft(u)' = TargetsLeft(u)
      BY <1>1, <1>6 DEF SourcesLeft, TargetsLeft
    <3>2. SourcesTaken(u)' = SourcesTaken(u)
      BY <1>1, <1>2, <1>3 DEF SourcesTaken
    <3>3. TargetsTaken(u)' = TargetsTaken(u)
      BY <1>1, <1>2, <1>3, <1>6 DEF TargetsTaken
    <3> QED BY <3>1, <3>2, <3>3
  <2> QED BY <1>1, <1>4, <1>5, <2>1, <2>2 DEF Counts
<1>13. Locations'
  <2>1. ASSUME NEW o \in Threads
        PROVE  /\ pc'[o] \in {"claimU", "storeU"} => AtSource(e'[o])
               /\ pc'[o] \in {"claimV", "storeV"} => AtTarget(e'[o])
               /\ pc'[o] \notin {"storeU", "storeV"} => slot'[o] = 0
               /\ pc'[o] # "loop" => \E k \in 1 .. Len(el) : e'[o] = el[k]
    <3>1. CASE o = t
      BY <1>1, <1>2, <1>3, <1>4, <3>1 DEF Locations
    <3>2. CASE o # t
      BY <1>2, <1>4, <3>2 DEF Locations
    <3> QED BY <3>1, <3>2
  <2> QED BY <1>1, <1>6, <2>1 DEF Locations
<1>14. FillInv'
  BY <1>10, <1>12, <1>13 DEF FillInv
<1> QED BY <1>5, <1>11, <1>14

LEMMA StoreVInv ==
  ASSUME Inv, NEW t \in Threads, StoreV(t)
  PROVE  Inv'
<1> DEFINE v == e[t][2]
           d == <<e[t][1], e[t][3]>>
<1> USE DEF Inv
<1>1. /\ phase = "fill" /\ pc[t] = "storeV" /\ e[t] \in Edge /\ v \in NodeID /\ d \in NodeID \X Int
      /\ neighs' = [neighs EXCEPT ![slot[t]] = d]
      /\ UNCHANGED <<el, kind, keep_self, transpose, degrees, offsets, todo, built, phase>>
  <2>1. pc[t] = "storeV"
    BY DEF StoreV
  <2>2. phase = "fill"
    BY <2>1 DEF Idle
  <2>3. e[t] \in Edge
    BY DEF Typed
  <2>4. v \in NodeID /\ d \in NodeID \X Int
    BY <2>3, EdgeParts
  <2> QED BY <2>1, <2>2, <2>3, <2>4 DEF StoreV, GetSource
<1>2. slot'[t] = 0 /\ \A o \in Threads \ {t} : pc'[o] = pc[o] /\ slot'[o] = slot[o] /\ e'[o] = e[o]
  BY DEF StoreV, Goto, Typed
<1>3. pc'[t] = "loop"
  BY DEF StoreV, Goto, Typed
<1>4. Counts /\ Locations /\ Cells /\ Filled /\ Arriving
  BY <1>1 DEF FillInv
<1>5. BuiltInv' /\ BuiltGraph' /\ Idle' /\ Index' = Index
  BY <1>1, LoopFrame
<1>6. \A x : (AtSource(x)' <=> AtSource(x)) /\ (AtTarget(x)' <=> AtTarget(x))
  BY <1>1 DEF AtSource, AtTarget
<1>7. Given(transpose, v, d)
  <2>1. PICK k \in 1 .. Len(el) : e[t] = el[k]
    BY <1>1, <1>4 DEF Locations
  <2>2. Gives(transpose, el[k], v, d)
    BY <1>1, <1>4, <2>1 DEF Gives, Locations, AtSource, AtTarget
  <2> QED BY <2>2 DEF Given
<1>8. \A u \in NodeID : (Holds(t, u) <=> u = v) /\ ~ Holds(t, u)'
  BY <1>1, <1>3 DEF Holds
<1>9. \A u \in NodeID : \A b : Owes(t, u, b) => Owes(t, u, b)' \/ (u = v /\ b = d)
  BY <1>1, <1>3, <1>4, <1>6 DEF Owes, Locations
<1>10. Cells' /\ Filled' /\ Arriving'
  <2> HIDE DEF v, d
  <2> QED BY <1>1, <1>2, <1>4, <1>7, <1>8, <1>9, StoreKeeps
<1>11. Typed'
  <2>1. NoEdge \in Edge
    BY NAssumption DEF NoEdge, Edge, NodeID
  <2>2. pc' \in [Threads -> {"loop", "claimU", "storeU", "claimV", "storeV"}]
    BY DEF StoreV, Goto, Typed
  <2>3. slot' \in [Threads -> Nat] /\ e' \in [Threads -> Edge]
    BY <2>1 DEF StoreV, Typed
  <2> QED BY <1>1, <2>2, <2>3 DEF Typed
<1>12. Counts'
  <2>1. \A u : Counted(u)' = Counted(u)
    BY <1>1, <1>6 DEF Counted
  <2>2. ASSUME NEW u \in NodeID
        PROVE  /\ SourcesLeft(u)' = SourcesLeft(u) /\ TargetsLeft(u)' = TargetsLeft(u)
               /\ SourcesTaken(u)' = SourcesTaken(u) /\ TargetsTaken(u)' = TargetsTaken(u)
    <3>1. SourcesLeft(u)' = SourcesLeft(u) /\ TargetsLeft(u)' = TargetsLeft(u)
      BY <1>1, <1>6 DEF SourcesLeft, TargetsLeft
    <3>2. SourcesTaken(u)' = SourcesTaken(u)
      BY <1>1, <1>2, <1>3 DEF SourcesTaken
    <3>3. TargetsTaken(u)' = TargetsTaken(u)
      BY <1>1, <1>2, <1>3, <1>6 DEF TargetsTaken
    <3> QED BY <3>1, <3>2, <3>3
  <2> QED BY <1>1, <1>4, <1>5, <2>1, <2>2 DEF Counts
<1>13. Locations'
  <2>1. ASSUME NEW o \in Threads
        PROVE  /\ pc'[o] \in {"claimU", "storeU"} => AtSource(e'[o])
               /\ pc'[o] \in {"claimV", "storeV"} => AtTarget(e'[o])
               /\ pc'[o] \notin {"storeU", "storeV"} => slot'[o] = 0
               /\ pc'[o] # "loop" => \E k \in 1 .. Len(el) : e'[o] = el[k]
    <3>1. CASE o = t
      BY <1>1, <1>2, <1>3, <1>4, <3>1 DEF Locations
    <3>2. CASE o # t
      BY <1>2, <1>4, <3>2 DEF Locations
    <3> QED BY <3>1, <3>2
  <2> QED BY <1>1, <1>6, <2>1 DEF Locations
<1>14. FillInv'
  BY <1>10, <1>12, <1>13 DEF FillInv
<1> QED BY <1>5, <1>11, <1>14

\* What a graph has to hold depends on the list and its kind only.
LEMMA CompleteStays ==
  ASSUME UNCHANGED <<el, kind>>, NEW arrays, NEW inverse, Complete(arrays, inverse)
  PROVE  /\ built'[FALSE] = arrays /\ inverse = FALSE => Complete(built[FALSE], FALSE)'
         /\ built'[TRUE] = arrays /\ inverse = TRUE => Complete(built[TRUE], TRUE)'
<1>1. ASSUME built'[FALSE] = arrays, inverse = FALSE  PROVE Complete(built[FALSE], FALSE)'
  BY <1>1 DEF Complete, Given, Gives
<1>2. ASSUME built'[TRUE] = arrays, inverse = TRUE  PROVE Complete(built[TRUE], TRUE)'
  BY <1>2 DEF Complete, Given, Gives
<1> QED BY <1>1, <1>2

\* When the loop ends every row is full.
LEMMA EndFillInv == Inv /\ EndFill => Inv'
<1> SUFFICES ASSUME Inv, EndFill  PROVE Inv'
  OBVIOUS
<1> DEFINE arrays == [offsets |-> Index, neighs |-> neighs]
<1> USE DEF Inv
<1>1. /\ phase = "fill" /\ todo = {} /\ \A t \in Threads : pc[t] = "loop"
      /\ built' = [built EXCEPT ![transpose] = arrays]
      /\ UNCHANGED <<el, kind, keep_self, degrees, offsets, neighs, todo, pc, e, slot>>
      /\ \/ kind = "directed" /\ ~ transpose /\ transpose' = TRUE /\ phase' = "count"
         \/ ~ (kind = "directed" /\ ~ transpose) /\ transpose' = transpose /\ phase' = "squish"
  BY DEF EndFill, Index
<1>2. Counts /\ Locations /\ Cells /\ Filled /\ Arriving
  BY <1>1 DEF FillInv
<1>3. \A v \in NodeID : offsets[v] = Index[v + 1]
  <2>1. ASSUME NEW v \in NodeID  PROVE offsets[v] = Index[v + 1]
    <3>1. /\ SourcesLeft(v) = {} /\ TargetsLeft(v) = {}
          /\ SourcesTaken(v) = {} /\ TargetsTaken(v) = {}
      BY <1>1 DEF SourcesLeft, TargetsLeft, SourcesTaken, TargetsTaken
    <3>2. offsets[v] \in Nat /\ Index[v + 1] \in Nat
      BY <1>2, OffsetsInRow
    <3>3. /\ Cardinality(SourcesLeft(v)) = 0 /\ Cardinality(TargetsLeft(v)) = 0
          /\ Cardinality(SourcesTaken(v)) = 0 /\ Cardinality(TargetsTaken(v)) = 0
      BY <3>1, FS_EmptySet
    <3>4. offsets[v] + Cardinality(SourcesLeft(v)) + Cardinality(TargetsLeft(v))
            + Cardinality(SourcesTaken(v)) + Cardinality(TargetsTaken(v)) = Index[v + 1]
      BY <1>2 DEF Counts
    <3> QED BY <3>2, <3>3, <3>4
  <2> QED BY <2>1
<1>4. /\ Index \in [0 .. N -> Nat] /\ Index[0] = 0
      /\ \A u, v \in 0 .. N : u <= v => Index[u] <= Index[v]
  BY IndexFacts DEF Typed
<1>5. \A t, v : t \in Threads => ~ Holds(t, v) /\ \A d : ~ Owes(t, v, d)
  BY <1>1 DEF Holds, Owes
<1>6. Complete(arrays, transpose)
  <2>1. \A v \in NodeID : \A c \in Index[v] .. (Index[v + 1] - 1) : Given(transpose, v, neighs[c])
    BY <1>2, <1>3, <1>5 DEF Filled
  <2>2. \A v \in NodeID, d \in NodeID \X Int : Given(transpose, v, d) =>
          \E c \in Index[v] .. (Index[v + 1] - 1) : neighs[c] = d
    BY <1>1, <1>2, <1>3, <1>5 DEF Arriving
  <2> QED BY <1>2, <1>4, <2>1, <2>2 DEF Complete, Cells
<1>7. Typed'
  <2>1. transpose' \in BOOLEAN /\ (transpose' => kind = "directed") /\ phase' \in {"count", "squish"}
    <3>1. CASE kind = "directed" /\ ~ transpose /\ transpose' = TRUE /\ phase' = "count"
      BY <3>1
    <3>2. CASE ~ (kind = "directed" /\ ~ transpose) /\ transpose' = transpose /\ phase' = "squish"
      <4>1. transpose \in BOOLEAN /\ (transpose => kind = "directed")
        BY DEF Typed
      <4> QED BY <3>2, <4>1, Zenon
    <3> QED BY <1>1, <3>1, <3>2
  <2> QED BY <1>1, <2>1 DEF Typed
<1>8. Idle'
  BY <1>1, <1>2 DEF Idle, Locations
<1>9. FillInv' /\ BuiltGraph'
  BY <1>1 DEF FillInv, BuiltGraph
<1>10. BuiltInv'
  <2>1. built'[transpose] = arrays /\ \A inverse \in BOOLEAN \ {transpose} : built'[inverse] = built[inverse]
    BY <1>1 DEF BuiltInv, Typed
  <2>2. built' = [inverse \in BOOLEAN |-> built'[inverse]]
    BY <1>1 DEF BuiltInv
  <2> HIDE DEF arrays
  <2>3. CASE kind = "directed" /\ ~ transpose /\ transpose' = TRUE /\ phase' = "count"
    <3>1. built'[FALSE] = arrays /\ Complete(arrays, FALSE)
      BY <1>6, <2>1, <2>3 DEF Typed
    <3>2. Complete(built[FALSE], FALSE)'
      BY <1>1, <3>1, CompleteStays
    <3> QED BY <1>1, <2>2, <2>3, <3>2 DEF BuiltInv
  <2>4. CASE ~ (kind = "directed" /\ ~ transpose) /\ transpose' = transpose /\ phase' = "squish"
    <3>1. CASE transpose
      <4>1. kind = "directed" /\ built'[TRUE] = arrays /\ Complete(arrays, TRUE) /\ built'[FALSE] = built[FALSE]
        BY <1>6, <2>1, <3>1 DEF Typed
      <4>2. Complete(built[FALSE], FALSE)
        BY <1>1, <3>1 DEF BuiltInv
      <4>3. Complete(built[FALSE], FALSE)' /\ Complete(built[TRUE], TRUE)'
        BY <1>1, <4>1, <4>2, CompleteStays
      <4> QED BY <1>1, <2>2, <4>1, <4>3 DEF BuiltInv
    <3>2. CASE ~ transpose
      <4>1. /\ kind # "directed" /\ built'[FALSE] = arrays /\ Complete(arrays, FALSE)
            /\ built'[TRUE] = built[TRUE] /\ built[TRUE] = NoRows
        BY <1>1, <1>6, <2>1, <2>4, <3>2 DEF Typed, BuiltInv
      <4>2. Complete(built[FALSE], FALSE)'
        BY <1>1, <4>1, CompleteStays
      <4> QED BY <1>1, <2>2, <4>1, <4>2 DEF BuiltInv, NoRows
    <3> QED BY <3>1, <3>2
  <2> QED BY <1>1, <2>3, <2>4
<1> QED BY <1>7, <1>8, <1>9, <1>10

-----------------------------------------------------------------------------
(* SquishCSR *)

\* The weights of the list have a least one.
LEMMA WeightsBounded ==
  ASSUME el \in Inputs
  PROVE  \E b \in Int : \A k \in 1 .. Len(el) : b <= el[k][3]
<1> DEFINE S == {m \in 0 .. Len(el) : \E b \in Int : \A k \in 1 .. m : b <= el[k][3]}
<1>1. Len(el) \in Nat /\ \A k \in 1 .. Len(el) : el[k][3] \in Int
  BY ListFacts, EdgeParts
<1>2. 0 \in S
  BY <1>1
<1>3. ASSUME NEW m \in 0 .. (Len(el) - 1), m \in S  PROVE m + 1 \in S
  <2>1. PICK b \in Int : \A k \in 1 .. m : b <= el[k][3]
    BY <1>3
  <2>2. m + 1 \in 1 .. Len(el) /\ el[m + 1][3] \in Int /\ m + 1 \in 0 .. Len(el)
    BY <1>1
  <2> DEFINE a == IF b <= el[m + 1][3] THEN b ELSE el[m + 1][3]
  <2>3. a \in Int /\ a <= b /\ a <= el[m + 1][3]
    BY <2>2
  <2> HIDE DEF a
  <2>4. ASSUME NEW k \in 1 .. (m + 1)  PROVE a <= el[k][3]
    <3>1. CASE k = m + 1
      BY <2>3, <3>1
    <3>2. CASE k # m + 1
      <4>1. k \in 1 .. m /\ k \in 1 .. Len(el)
        BY <1>1, <3>2
      <4> QED BY <1>1, <2>1, <2>3, <4>1
    <3> QED BY <3>1, <3>2
  <2> QED BY <2>2, <2>3, <2>4
<1>4. Len(el) \in 0 .. Len(el)
  BY <1>1
<1>5. Len(el) \in S
  <2> HIDE DEF S
  <2> QED BY <1>1, <1>2, <1>3, <1>4, AllUpTo
<1> QED BY <1>5

LEMMA LeastInteger ==
  ASSUME NEW S \in SUBSET Int, S # {}, NEW b \in Int, \A x \in S : b <= x
  PROVE  \E m \in S : \A x \in S : m <= x
<1> DEFINE T == {x - b : x \in S}
<1>1. T \in SUBSET Nat /\ T # {}
  <2>1. \A x \in S : x - b \in Nat
    OBVIOUS
  <2> QED BY <2>1
<1>2. PICK d \in T : \A x \in T : d <= x
  <2> HIDE DEF T
  <2> QED BY <1>1, LeastNumber
<1>3. PICK m \in S : d = m - b
  BY <1>2
<1>4. ASSUME NEW x \in S  PROVE m <= x
  <2>1. d <= x - b
    BY <1>2
  <2> QED BY <1>3, <2>1
<1> QED BY <1>4

\* The weights the row of v gets for x.
InRow(inverse, v, x) == {w \in Int : Given(inverse, v, <<x, w>>)}
Lightest(S) == CHOOSE w \in S : \A x \in S : w <= x

LEMMA LightestIs ==
  ASSUME el \in Inputs, NEW inverse, NEW v, NEW x, InRow(inverse, v, x) # {}
  PROVE  /\ Lightest(InRow(inverse, v, x)) \in InRow(inverse, v, x)
         /\ \A w \in InRow(inverse, v, x) : Lightest(InRow(inverse, v, x)) <= w
<1>1. PICK b \in Int : \A k \in 1 .. Len(el) : b <= el[k][3]
  BY WeightsBounded
<1>2. InRow(inverse, v, x) \in SUBSET Int /\ \A w \in InRow(inverse, v, x) : b <= w
  BY <1>1, ListFacts, EdgeParts DEF InRow, Given, Gives
<1>3. \E m \in InRow(inverse, v, x) : \A w \in InRow(inverse, v, x) : m <= w
  BY <1>1, <1>2, LeastInteger
<1> QED BY <1>3 DEF Lightest

\* The row of a complete graph holds what the list puts there, and nothing else.
LEMMA RowFacts ==
  ASSUME el \in Inputs, NEW arrays, NEW inverse, Complete(arrays, inverse), NEW v \in NodeID
  PROVE  /\ Len(Row(arrays, v)) \in Nat
         /\ \A k \in 1 .. Len(Row(arrays, v)) : /\ Row(arrays, v)[k] \in NodeID \X Int
                                             /\ Given(inverse, v, Row(arrays, v)[k])
         /\ \A d \in NodeID \X Int : Given(inverse, v, d) =>
              \E k \in 1 .. Len(Row(arrays, v)) : Row(arrays, v)[k] = d
<1> DEFINE first == arrays.offsets[v]
           n == arrays.offsets[v + 1] - arrays.offsets[v]
<1>1. first \in Nat /\ n \in Nat /\ arrays.offsets[v + 1] = first + n
  <2>1. arrays.offsets \in [0 .. N -> Nat] /\ \A x, y \in 0 .. N : x <= y => arrays.offsets[x] <= arrays.offsets[y]
    BY DEF Complete
  <2> DEFINE f == arrays.offsets
  <2> HIDE DEF f
  <2>3. v \in 0 .. N /\ v + 1 \in 0 .. N /\ v <= v + 1
    BY NodeFacts
  <2>4. f[v] \in Nat /\ f[v + 1] \in Nat /\ f[v] <= f[v + 1]
    BY <2>1, <2>3 DEF f
  <2>2. arrays.offsets[v] \in Nat /\ arrays.offsets[v + 1] \in Nat /\ arrays.offsets[v] <= arrays.offsets[v + 1]
    BY <2>4 DEF f
  <2> QED BY <2>2
<1> HIDE DEF first, n
<1>2. Row(arrays, v) = [i \in 1 .. n |-> arrays.neighs[first + i - 1]]
  BY DEF Row, first, n
<1>3. Len(Row(arrays, v)) = n /\ \A i \in 1 .. n : Row(arrays, v)[i] = arrays.neighs[first + i - 1]
  BY <1>1, <1>2
<1>4. \A c \in first .. (first + n - 1) : Given(inverse, v, arrays.neighs[c])
  BY <1>1 DEF Complete, first
<1>5. \A d \in NodeID \X Int : Given(inverse, v, d) => \E c \in first .. (first + n - 1) : arrays.neighs[c] = d
  BY <1>1 DEF Complete, first
<1>6. \A d : Given(inverse, v, d) => d \in NodeID \X Int
  BY ListFacts, EdgeParts DEF Given, Gives
<1>7. ASSUME NEW k \in 1 .. n  PROVE Row(arrays, v)[k] \in NodeID \X Int /\ Given(inverse, v, Row(arrays, v)[k])
  <2>1. first + k - 1 \in first .. (first + n - 1)
    BY <1>1
  <2> QED BY <1>3, <1>4, <1>6, <2>1
<1>8. ASSUME NEW d \in NodeID \X Int, Given(inverse, v, d)  PROVE \E k \in 1 .. n : Row(arrays, v)[k] = d
  <2>1. PICK c \in first .. (first + n - 1) : arrays.neighs[c] = d
    BY <1>5, <1>8
  <2>2. c - first + 1 \in 1 .. n /\ first + (c - first + 1) - 1 = c
    BY <1>1
  <2> QED BY <1>3, <2>1, <2>2
<1> QED BY <1>1, <1>3, <1>7, <1>8

\* Duplicates and self loops gone, every neighbour stays once with its least weight.
KeptRow(inverse, v) ==
  {<<x, Lightest(InRow(inverse, v, x))>> :
     x \in {y \in NodeID : InRow(inverse, v, y) # {} /\ (y # v \/ keep_self)}}

LEMMA KeptIs ==
  ASSUME el \in Inputs, NEW arrays, NEW inverse, Complete(arrays, inverse), NEW v \in NodeID
  PROVE  Kept(arrays, v) = KeptRow(inverse, v)
<1> DEFINE row == Row(arrays, v)
           W(x) == InRow(inverse, v, x)
           least(x) == Lightest(W(x))
           S == {<<x, least(x)>> : x \in {y \in NodeID : W(y) # {} /\ (y # v \/ keep_self)}}
<1>a. \A x \in NodeID : W(x) \in SUBSET Int
  BY DEF InRow
<1>b. \A x \in NodeID, w \in Int : Given(inverse, v, <<x, w>>) <=> w \in W(x)
  BY DEF InRow
<1>c. \A x \in NodeID : W(x) # {} => least(x) \in W(x) /\ \A w \in W(x) : least(x) <= w
  BY LightestIs
<1> HIDE DEF W, least
<1>1. /\ Len(row) \in Nat
      /\ \A k \in 1 .. Len(row) : row[k] \in NodeID \X Int /\ Given(inverse, v, row[k])
      /\ \A d \in NodeID \X Int : Given(inverse, v, d) => \E k \in 1 .. Len(row) : row[k] = d
  BY RowFacts
<1>2. Kept(arrays, v) = {d \in {row[k] : k \in 1 .. Len(row)} :
                        /\ \A k \in 1 .. Len(row) : row[k][1] = d[1] => d[2] <= row[k][2]
                        /\ d[1] # v \/ keep_self}
  BY DEF Kept, Unique
<1> HIDE DEF row
<1>3. ASSUME NEW k \in 1 .. Len(row)
      PROVE  row[k][1] \in NodeID /\ row[k][2] \in W(row[k][1]) /\ row[k] = <<row[k][1], row[k][2]>>
  <2>1. row[k] \in NodeID \X Int /\ Given(inverse, v, row[k])
    BY <1>1
  <2>2. row[k][1] \in NodeID /\ row[k][2] \in Int /\ row[k] = <<row[k][1], row[k][2]>>
    BY <2>1
  <2>3. Given(inverse, v, <<row[k][1], row[k][2]>>)
    BY <2>1, <2>2
  <2> QED BY <1>b, <2>2, <2>3
<1>4. ASSUME NEW x \in NodeID, NEW w \in W(x)
      PROVE  \E k \in 1 .. Len(row) : row[k] = <<x, w>>
  <2>1. w \in Int /\ <<x, w>> \in NodeID \X Int
    BY <1>a
  <2> QED BY <1>1, <1>b, <2>1
<1>5. ASSUME NEW d \in Kept(arrays, v)  PROVE d \in S
  <2>1. PICK k \in 1 .. Len(row) : d = row[k]
    BY <1>2
  <2> DEFINE x == d[1]
             w == d[2]
  <2>2. x \in NodeID /\ w \in W(x) /\ d = <<x, w>>
    BY <1>3, <2>1
  <2>3. (x # v \/ keep_self) /\ \A l \in 1 .. Len(row) : row[l][1] = x => w <= row[l][2]
    BY <1>2
  <2> HIDE DEF x, w
  <2>4. W(x) # {} /\ least(x) \in W(x) /\ least(x) <= w
    BY <1>c, <2>2
  <2>5. PICK l \in 1 .. Len(row) : row[l] = <<x, least(x)>>
    BY <1>4, <2>2, <2>4
  <2>6. w <= least(x)
    BY <2>3, <2>5
  <2>7. w \in Int /\ least(x) \in Int
    BY <1>a, <2>2, <2>4
  <2>8. w = least(x)
    BY <2>4, <2>6, <2>7
  <2> QED BY <2>2, <2>3, <2>4, <2>8
<1>6. ASSUME NEW x \in NodeID, W(x) # {}, x # v \/ keep_self
      PROVE  <<x, least(x)>> \in Kept(arrays, v)
  <2>1. least(x) \in W(x) /\ \A w \in W(x) : least(x) <= w
    BY <1>c, <1>6
  <2>2. PICK l \in 1 .. Len(row) : row[l] = <<x, least(x)>>
    BY <1>4, <2>1
  <2>3. ASSUME NEW k \in 1 .. Len(row), row[k][1] = x  PROVE least(x) <= row[k][2]
    BY <1>3, <2>1, <2>3
  <2> QED BY <1>2, <1>6, <2>2, <2>3
<1> HIDE DEF S
<1>7. \A d \in S : d \in Kept(arrays, v)
  BY <1>6 DEF S
<1>8. Kept(arrays, v) = S
  BY <1>5, <1>7
<1> QED BY <1>8 DEF S, W, least, KeptRow

\* The parallel loop over the rows writes each of them to its own cells.
LEMMA SquishedRow ==
  ASSUME el \in Inputs, NEW arrays, NEW inverse, Complete(arrays, inverse), NEW v \in NodeID
  PROVE  Row(SquishedCSR(arrays), v) = Listed(Kept(arrays, v), Less)
<1> DEFINE a == [u \in NodeID |-> Cardinality(Kept(arrays, u))]
           f == ParallelPrefixSum(a, N, BlockSize)
           row(u) == Listed(Kept(arrays, u), Less)
           owner(c) == CHOOSE u \in NodeID : f[u] <= c /\ c < f[u + 1]
           sq == SquishedCSR(arrays)
<1>1. ASSUME NEW u \in NodeID  PROVE Cardinality(Kept(arrays, u)) \in Nat
  <2>1. Len(Row(arrays, u)) \in Nat
    BY RowFacts
  <2>2. PICK list, n : list = Row(arrays, u) /\ n = Len(list)
    OBVIOUS
  <2>3. IsFiniteSet({list[k] : k \in 1 .. n})
    BY <2>1, <2>2, FinitelyMany
  <2>4. Kept(arrays, u) \subseteq {list[k] : k \in 1 .. n}
    BY <2>2 DEF Kept, Unique
  <2> QED BY <2>3, <2>4, FS_Subset, FS_CardinalityType
<1>2. /\ N \in Nat /\ BlockSize \in Nat \ {0}
      /\ \A i \in 0 .. (N - 1) : a[i] \in Nat
      /\ \A i \in 0 .. (N - 1) : a[i] \in Int
  BY <1>1, NAssumption, CSRBuildAssumption DEF NodeID
<1>3. a[v] = Cardinality(Kept(arrays, v)) /\ a[v] \in Nat /\ v \in 0 .. (N - 1)
  BY <1>1 DEF NodeID
<1>4. f = PrefixSum(a, N)
  <2> HIDE DEF a
  <2> QED BY <1>2, ParallelPrefixSumExact
<1>5. sq.offsets = f /\ sq.neighs = [c \in 0 .. (f[N] - 1) |-> row(owner(c))[c - f[owner(c)] + 1]]
  <2>1. sq = [offsets |-> f, neighs |-> [c \in 0 .. (f[N] - 1) |-> row(owner(c))[c - f[owner(c)] + 1]]]
    BY Zenon DEF SquishedCSR
  <2> HIDE DEF sq, f, owner, row
  <2> QED BY <2>1
<1>6. row(v) = [k \in 1 .. a[v] |-> row(v)[k]]
  <2> DEFINE kept == Kept(arrays, v)
             at(k) == CHOOSE x \in kept : Cardinality({d \in kept : Less(d, x)}) = k - 1
  <2>1. row(v) = [k \in 1 .. Cardinality(kept) |-> at(k)]
    BY Zenon DEF Listed
  <2> HIDE DEF at, row, kept
  <2>2. row(v) = [k \in 1 .. Cardinality(kept) |-> row(v)[k]]
    BY <2>1
  <2> QED BY <1>3, <2>2 DEF kept
<1> HIDE DEF a, row, f
<1>7. /\ f \in [0 .. N -> Nat] /\ \A x, y \in 0 .. N : x <= y => f[x] <= f[y]
      /\ f[v + 1] = f[v] + a[v]
  BY <1>2, <1>3, <1>4, PrefixSumFacts
<1>8. v \in 0 .. N /\ v + 1 \in 0 .. N /\ v + 1 <= N /\ N \in 0 .. N
  BY NodeFacts, NAssumption
<1>9. f[v] \in Nat /\ f[v + 1] \in Nat /\ f[N] \in Nat /\ f[v + 1] <= f[N]
  BY <1>7, <1>8
<1>10. ASSUME NEW c \in f[v] .. (f[v + 1] - 1)  PROVE owner(c) = v
  <2>1. owner(c) \in NodeID /\ f[owner(c)] <= c /\ c < f[owner(c) + 1]
    <3>1. f[v] <= c /\ c < f[v + 1]
      BY <1>9
    <3> QED BY <3>1
  <2> HIDE DEF owner
  <2>2. f[owner(c)] \in Nat /\ f[owner(c) + 1] \in Nat
    BY <1>7, <2>1, NodeFacts
  <2>3. c \in f[owner(c)] .. (f[owner(c) + 1] - 1)
    BY <1>9, <2>1, <2>2
  <2> QED BY <1>7, <2>1, <2>3, OneRow
<1>11. ASSUME NEW i \in 1 .. a[v]  PROVE sq.neighs[f[v] + i - 1] = row(v)[i]
  <2> DEFINE c == f[v] + i - 1
  <2>1. c \in f[v] .. (f[v + 1] - 1) /\ c \in 0 .. (f[N] - 1) /\ c - f[v] + 1 = i
    <3>1. PICK x \in Nat, y \in Nat, z \in Nat, k \in Nat :
            x = f[v] /\ y = f[v + 1] /\ z = f[N] /\ k = a[v] /\ y <= z /\ y = x + k
      BY <1>3, <1>7, <1>9
    <3>2. x + i - 1 \in x .. (y - 1) /\ x + i - 1 \in 0 .. (z - 1) /\ x + i - 1 - x + 1 = i
      BY <3>1
    <3> QED BY <3>1, <3>2
  <2>2. owner(c) = v
    BY <1>10, <2>1
  <2> HIDE DEF c, owner, sq
  <2>3. sq.neighs[c] = row(owner(c))[c - f[owner(c)] + 1]
    BY <1>5, <2>1
  <2>4. sq.neighs[c] = row(v)[i]
    BY <2>1, <2>2, <2>3
  <2> QED BY <2>4 DEF c
<1> HIDE DEF sq, owner
<1>12. sq.offsets[v + 1] - sq.offsets[v] = a[v] /\ sq.offsets[v] = f[v]
  BY <1>3, <1>5, <1>7, <1>9
<1>13. Row(sq, v) = [i \in 1 .. a[v] |-> sq.neighs[f[v] + i - 1]]
  BY <1>12 DEF Row
<1>14. Row(sq, v) = row(v)
  BY <1>6, <1>11, <1>13
<1> QED BY <1>14 DEF sq, row

\* The rows by source are those of the edges, and the rows by target of their inverse.
LEMMA SquishedOut ==
  ASSUME el \in Inputs, NEW arrays, Complete(arrays, FALSE), NEW n \in NodeID
  PROVE  Row(SquishedCSR(arrays), n) = Listed({<<v, Least(n, v)>> : v \in {x \in NodeID : IsEdge(n, x)}}, Less)
<1> DEFINE S == {<<v, Least(n, v)>> : v \in {x \in NodeID : IsEdge(n, x)}}
           Line(A) == Listed(A, Less)
<1>1. ASSUME NEW x \in NodeID  PROVE InRow(FALSE, n, x) = Weights(n, x)
  <2>1. ASSUME NEW w
        PROVE  w \in InRow(FALSE, n, x) <=> w \in Int /\
                 \E k \in 1 .. Len(el) : \/ el[k][1] = n /\ el[k][2] = x /\ el[k][3] = w
                                         \/ kind = "symmetrized" /\ el[k][2] = n /\ el[k][1] = x /\ el[k][3] = w
    BY DEF InRow, Given, Gives
  <2>2. ASSUME NEW w
        PROVE  w \in Weights(n, x) <=>
                 \E k \in 1 .. Len(el) : \/ el[k][1] = n /\ el[k][2] = x /\ el[k][3] = w
                                         \/ kind = "symmetrized" /\ el[k][2] = n /\ el[k][1] = x /\ el[k][3] = w
    BY DEF Weights
  <2>3. \A k \in 1 .. Len(el) : el[k][3] \in Int
    BY ListFacts, EdgeParts
  <2> QED BY <2>1, <2>2, <2>3
<1>2. ASSUME NEW x \in NodeID  PROVE Least(n, x) = Lightest(InRow(FALSE, n, x))
  <2>1. Least(n, x) = Lightest(Weights(n, x))
    BY DEF Least, Lightest
  <2> QED BY <1>1, <2>1
<1>3. \A x \in NodeID : IsEdge(n, x) <=> InRow(FALSE, n, x) # {} /\ (x # n \/ keep_self)
  BY <1>1 DEF IsEdge
<1>4. S = KeptRow(FALSE, n)
  BY <1>2, <1>3 DEF KeptRow
<1>5. Kept(arrays, n) = KeptRow(FALSE, n)
  BY KeptIs
<1>6. Row(SquishedCSR(arrays), n) = Line(Kept(arrays, n))
  BY SquishedRow
<1> HIDE DEF Line, S
<1>7. Row(SquishedCSR(arrays), n) = Line(S)
  BY <1>4, <1>5, <1>6
<1> QED BY <1>7 DEF Line, S

LEMMA SquishedIn ==
  ASSUME el \in Inputs, kind = "directed", NEW arrays, Complete(arrays, TRUE), NEW n \in NodeID
  PROVE  Row(SquishedCSR(arrays), n) = Listed({<<u, Least(u, n)>> : u \in {x \in NodeID : IsEdge(x, n)}}, Less)
<1> DEFINE S == {<<u, Least(u, n)>> : u \in {x \in NodeID : IsEdge(x, n)}}
           Line(A) == Listed(A, Less)
<1>1. ASSUME NEW x \in NodeID  PROVE InRow(TRUE, n, x) = Weights(x, n)
  <2>1. ASSUME NEW w
        PROVE  w \in InRow(TRUE, n, x) <=> w \in Int /\
                 \E k \in 1 .. Len(el) : el[k][2] = n /\ el[k][1] = x /\ el[k][3] = w
    BY DEF InRow, Given, Gives
  <2>2. ASSUME NEW w
        PROVE  w \in Weights(x, n) <=>
                 \E k \in 1 .. Len(el) : el[k][2] = n /\ el[k][1] = x /\ el[k][3] = w
    BY DEF Weights
  <2>3. \A k \in 1 .. Len(el) : el[k][3] \in Int
    BY ListFacts, EdgeParts
  <2> QED BY <2>1, <2>2, <2>3
<1>2. ASSUME NEW x \in NodeID  PROVE Least(x, n) = Lightest(InRow(TRUE, n, x))
  <2>1. Least(x, n) = Lightest(Weights(x, n))
    BY DEF Least, Lightest
  <2> QED BY <1>1, <2>1
<1>3. \A x \in NodeID : IsEdge(x, n) <=> InRow(TRUE, n, x) # {} /\ (x # n \/ keep_self)
  BY <1>1 DEF IsEdge
<1>4. S = KeptRow(TRUE, n)
  BY <1>2, <1>3 DEF KeptRow
<1>5. Kept(arrays, n) = KeptRow(TRUE, n)
  BY KeptIs
<1>6. Row(SquishedCSR(arrays), n) = Line(Kept(arrays, n))
  BY SquishedRow
<1> HIDE DEF Line, S
<1>7. Row(SquishedCSR(arrays), n) = Line(S)
  BY <1>4, <1>5, <1>6
<1> QED BY <1>7 DEF Line, S

\* What the list describes does not change.
LEMMA EdgesStay ==
  ASSUME UNCHANGED <<el, kind, keep_self>>
  PROVE  \A u, v : Least(u, v)' = Least(u, v) /\ (IsEdge(u, v)' <=> IsEdge(u, v))
<1>1. \A u, v : Weights(u, v)' = Weights(u, v)
  BY DEF Weights
<1>2. \A u, v : Least(u, v) = Lightest(Weights(u, v)) /\ Least(u, v)' = Lightest(Weights(u, v)')
  BY DEF Least, Lightest
<1>3. \A u, v : Least(u, v)' = Least(u, v)
  BY <1>1, <1>2
<1> QED BY <1>1, <1>3 DEF IsEdge

LEMMA SquishInv == Inv /\ Squish => Inv'
<1> SUFFICES ASSUME Inv, Squish  PROVE Inv'
  OBVIOUS
<1> DEFINE Line(T) == Listed(T, Less)
           Out(n) == {<<v, Least(n, v)>> : v \in {x \in NodeID : IsEdge(n, x)}}
           In(n) == {<<u, Least(u, n)>> : u \in {x \in NodeID : IsEdge(x, n)}}
<1> USE DEF Inv
<1>1. /\ phase = "squish" /\ phase' = "done"
      /\ built' = [inverse \in BOOLEAN |->
                     IF inverse /\ kind # "directed" THEN NoRows ELSE SquishedCSR(built[inverse])]
      /\ UNCHANGED <<el, kind, keep_self, transpose, degrees, offsets, neighs, todo, pc, e, slot>>
  BY DEF Squish
<1>2. Typed' /\ Idle' /\ FillInv' /\ BuiltInv'
  BY <1>1 DEF Typed, Idle, FillInv, BuiltInv
<1>3. \A u, v : Least(u, v)' = Least(u, v) /\ (IsEdge(u, v)' <=> IsEdge(u, v))
  BY <1>1, EdgesStay
<1>4. ASSUME NEW n \in NodeID
      PROVE  /\ Row(built'[FALSE], n) = Line(Out(n))
             /\ kind = "directed" => Row(built'[TRUE], n) = Line(In(n))
  <2>1. Complete(built[FALSE], FALSE) /\ built'[FALSE] = SquishedCSR(built[FALSE])
    BY <1>1 DEF BuiltInv
  <2>2. Row(built'[FALSE], n) = Line(Out(n))
    BY <2>1, SquishedOut DEF Typed
  <2>3. ASSUME kind = "directed"  PROVE Row(built'[TRUE], n) = Line(In(n))
    <3>1. Complete(built[TRUE], TRUE) /\ built'[TRUE] = SquishedCSR(built[TRUE])
      BY <1>1, <2>3 DEF BuiltInv
    <3> QED BY <2>3, <3>1, SquishedIn DEF Typed
  <2> QED BY <2>2, <2>3
<1>5. \A n \in NodeID : Out(n)' = Out(n) /\ In(n)' = In(n)
  BY <1>3
<1>6. ASSUME NEW n \in NodeID
      PROVE  /\ Row(built[FALSE], n)' = Line(Out(n)')
             /\ kind' = "directed" => Row(built[TRUE], n)' = Line(In(n)')
  <2> HIDE DEF Line, Out, In
  <2> QED BY <1>1, <1>4, <1>5
<1>7. BuiltGraph'
  BY <1>6 DEF BuiltGraph
<1> QED BY <1>2, <1>7

-----------------------------------------------------------------------------
(* Theorems *)

LEMMA StutterInv == Inv /\ UNCHANGED vars => Inv'
<1> SUFFICES ASSUME Inv, UNCHANGED vars  PROVE Inv'
  OBVIOUS
<1> DEFINE Line(T) == Listed(T, Less)
           Out(n) == {<<v, Least(n, v)>> : v \in {x \in NodeID : IsEdge(n, x)}}
           In(n) == {<<u, Least(u, n)>> : u \in {x \in NodeID : IsEdge(x, n)}}
<1> USE DEF Inv, vars
<1>1. Typed' /\ Idle'
  BY DEF Typed, Idle
<1>2. Index' = Index
  BY DEF Index
<1>3. \A t, v : Holds(t, v)' <=> Holds(t, v)
  BY DEF Holds
<1>4. \A inverse, v, d : Given(inverse, v, d)' <=> Given(inverse, v, d)
  BY DEF Given, Gives
<1>5. /\ \A v : Counted(v)' = Counted(v)
      /\ \A v : SourcesLeft(v)' = SourcesLeft(v) /\ TargetsLeft(v)' = TargetsLeft(v)
      /\ \A v : SourcesTaken(v)' = SourcesTaken(v) /\ TargetsTaken(v)' = TargetsTaken(v)
  BY DEF Counted, SourcesLeft, TargetsLeft, SourcesTaken, TargetsTaken, AtSource, AtTarget
<1>6. ASSUME phase = "fill"  PROVE Counts' /\ Locations' /\ Cells' /\ Filled' /\ Arriving'
  <2>1. Counts /\ Locations /\ Cells /\ Filled /\ Arriving
    BY <1>6 DEF FillInv
  <2>2. Counts'
    BY <1>2, <1>5, <2>1 DEF Counts
  <2>3. Locations'
    BY <2>1 DEF Locations, AtSource, AtTarget
  <2>4. Cells'
    BY <1>2, <1>3, <2>1 DEF Cells
  <2>5. Filled'
    BY <1>2, <1>3, <1>4, <2>1 DEF Filled
  <2>6. Arriving'
    BY <1>2, <1>4, <2>1 DEF Arriving, Gives, Owes, AtTarget
  <2> QED BY <2>2, <2>3, <2>4, <2>5, <2>6
<1>7. FillInv'
  BY <1>6 DEF FillInv
<1>8. BuiltInv'
  <2>1. Complete(built[FALSE], FALSE) => Complete(built[FALSE], FALSE)'
    BY CompleteStays
  <2>2. Complete(built[TRUE], TRUE) => Complete(built[TRUE], TRUE)'
    BY CompleteStays
  <2> QED BY <2>1, <2>2 DEF BuiltInv, NoRows
<1>9. \A n \in NodeID : Out(n)' = Out(n) /\ In(n)' = In(n)
  BY EdgesStay
<1>10. ASSUME phase = "done", NEW n \in NodeID
      PROVE  /\ Row(built[FALSE], n)' = Line(Out(n)')
             /\ kind' = "directed" => Row(built[TRUE], n)' = Line(In(n)')
  <2>1. /\ Row(built[FALSE], n) = Line(Out(n))
        /\ kind = "directed" => Row(built[TRUE], n) = Line(In(n))
    BY <1>10 DEF BuiltGraph
  <2> HIDE DEF Line, Out, In
  <2> QED BY <1>9, <2>1
<1>11. BuiltGraph'
  BY <1>10 DEF BuiltGraph
<1> QED BY <1>1, <1>7, <1>8, <1>11

LEMMA NextInv == Inv /\ [Next]_vars => Inv'
<1> SUFFICES ASSUME Inv, [Next]_vars  PROVE Inv'
  OBVIOUS
<1>1. CASE CountDegrees
  BY <1>1, CountDegreesInv
<1>2. CASE EndFill
  BY <1>2, EndFillInv
<1>3. CASE Squish
  BY <1>3, SquishInv
<1>4. ASSUME NEW t \in Threads, NEW k \in todo, TakeEdge(t, k)  PROVE Inv'
  BY <1>4, TakeEdgeInv
<1>5. ASSUME NEW t \in Threads, ClaimU(t)  PROVE Inv'
  BY <1>5, ClaimUInv
<1>6. ASSUME NEW t \in Threads, StoreU(t)  PROVE Inv'
  BY <1>6, StoreUInv
<1>7. ASSUME NEW t \in Threads, ClaimV(t)  PROVE Inv'
  BY <1>7, ClaimVInv
<1>8. ASSUME NEW t \in Threads, StoreV(t)  PROVE Inv'
  BY <1>8, StoreVInv
<1>9. CASE UNCHANGED vars
  BY <1>9, StutterInv
<1> QED BY <1>1, <1>2, <1>3, <1>4, <1>5, <1>6, <1>7, <1>8, <1>9 DEF Next

\* Every cell of a complete graph is in a row and so holds what the list puts there.
LEMMA CompleteIsFilled ==
  ASSUME el \in Inputs, NEW arrays, NEW inverse, Complete(arrays, inverse),
         NEW c \in DOMAIN arrays.neighs
  PROVE  arrays.neighs[c] # Blank
<1> DEFINE f == arrays.offsets
<1>1. f \in [0 .. N -> Nat] /\ f[0] = 0 /\ c \in 0 .. (f[N] - 1)
  BY DEF Complete
<1> HIDE DEF f
<1>2. PICK v \in NodeID : c \in f[v] .. (f[v + 1] - 1)
  BY <1>1, SomeRow
<1>3. Given(inverse, v, arrays.neighs[c])
  BY <1>2 DEF Complete, f
<1>4. arrays.neighs[c][1] \in NodeID
  BY <1>3, ListFacts, EdgeParts DEF Given, Gives
<1> QED BY <1>4 DEF Blank, NodeID

LEMMA InvCells == Inv => CellsClaimedOnce
<1> SUFFICES ASSUME Inv  PROVE CellsClaimedOnce
  OBVIOUS
<1> USE DEF Inv
<1>1. ASSUME phase = "fill", NEW t \in Threads, NEW v \in NodeID, Holds(t, v)
      PROVE  slot[t] \in Index[v] .. (Index[v + 1] - 1) /\ slot[t] \in DOMAIN neighs
  <2>1. Counts /\ Cells
    BY <1>1 DEF FillInv
  <2>2. slot[t] \in Index[v] .. (Index[v + 1] - 1)
    BY <1>1, <2>1, HeldCells, OffsetsInRow
  <2>3. Index[v] \in Nat /\ Index[v + 1] \in Nat /\ Index[N] \in Nat /\ Index[v + 1] <= Index[N]
    <3>1. /\ Index \in [0 .. N -> Nat]
          /\ \A x, y \in 0 .. N : x <= y => Index[x] <= Index[y]
      BY IndexFacts DEF Typed
    <3>2. v \in 0 .. N /\ v + 1 \in 0 .. N /\ N \in 0 .. N /\ v + 1 <= N
      BY NodeFacts, NAssumption
    <3> QED BY <3>1, <3>2
  <2>4. slot[t] \in 0 .. (Index[N] - 1)
    BY <2>2, <2>3
  <2> QED BY <2>1, <2>2, <2>4 DEF Cells
<1>2. TypeOK
  <2>1. ASSUME NEW t \in Threads  PROVE slot[t] \in DOMAIN neighs \union {0}
    <3>1. CASE phase # "fill"
      BY <3>1 DEF Idle
    <3>2. CASE phase = "fill" /\ pc[t] \notin {"storeU", "storeV"}
      BY <3>2 DEF FillInv, Locations
    <3>3. CASE phase = "fill" /\ pc[t] \in {"storeU", "storeV"}
      <4>1. e[t][1] \in NodeID /\ e[t][2] \in NodeID
        BY EdgeParts DEF Typed
      <4>2. Holds(t, e[t][1]) \/ Holds(t, e[t][2])
        BY <3>3 DEF Holds
      <4> QED BY <1>1, <3>3, <4>1, <4>2
    <3> QED BY <3>1, <3>2, <3>3
  <2>2. slot \in [Threads -> DOMAIN neighs \union {0}]
    BY <2>1 DEF Typed
  <2> QED BY <2>2 DEF TypeOK, Typed
<1>3. CellsAreExclusive
  <2> SUFFICES ASSUME phase = "fill"  PROVE CellsAreExclusive
    BY DEF CellsAreExclusive
  <2>1. Cells
    BY DEF FillInv
  <2> QED BY <1>1, <2>1 DEF CellsAreExclusive, Cells, Index
<1>4. NoCellLeft
  <2> SUFFICES ASSUME phase = "squish", NEW inverse \in BOOLEAN, NEW c \in DOMAIN built[inverse].neighs
               PROVE  built[inverse].neighs[c] # Blank
    BY DEF NoCellLeft
  <2>1. CASE inverse = FALSE
    <3>1. Complete(built[FALSE], FALSE)
      BY DEF BuiltInv
    <3> QED BY <2>1, <3>1, CompleteIsFilled DEF Typed
  <2>2. CASE inverse = TRUE /\ kind = "directed"
    <3>1. Complete(built[TRUE], TRUE)
      BY <2>2 DEF BuiltInv
    <3> QED BY <2>2, <3>1, CompleteIsFilled DEF Typed
  <2>3. CASE inverse = TRUE /\ kind # "directed"
    <3>1. built[TRUE] = NoRows
      BY <2>3 DEF BuiltInv
    <3>2. NoRows.neighs = << >>
      BY DEF NoRows
    <3>3. \A x : x \notin DOMAIN << >>
      OBVIOUS
    <3>4. c \in DOMAIN << >>
      BY <2>3, <3>1, <3>2
    <3> QED BY <3>3, <3>4
  <2> QED BY <2>1, <2>2, <2>3
<1> QED BY <1>2, <1>3, <1>4 DEF CellsClaimedOnce

\* The invariant holds of every behaviour.
THEOREM Invariance == Spec => []Inv
<1> QED BY InitInv, NextInv, PTL DEF Spec

\* Whatever the threads do, a cell of MakeCSR is claimed once, by a thread that has
\* an edge of its row, and no cell is left empty: what CountDegrees counted is what
\* the parallel loop fills.
THEOREM ClaimedOnce == Spec => []CellsClaimedOnce
<1> QED BY Invariance, InvCells, PTL

\* MakeCSR and SquishCSR build the graph of the list: its edges, each once and with
\* its least weight, sorted, and their inverse - for every list, number of threads,
\* size of the blocks of ParallelPrefixSum and interleaving.
THEOREM GraphOfTheList == Spec => []BuiltGraph
<1>1. Inv => BuiltGraph
  BY DEF Inv
<1> QED BY <1>1, Invariance, PTL

-----------------------------------------------------------------------------
(* Reordering (Reorder in MCBuilders): what its operators are.             *)

Vertices == 0 .. (M - 1)

\* Each instance has its own copy of the operators of Containers; they are the same.
LEMMA ReorderCardinality == ASSUME NEW S  PROVE Reorder!Cardinality(S) = Cardinality(S)
  BY DEF Reorder!Cardinality, Cardinality

LEMMA ReorderSorted == ASSUME NEW row  PROVE Reorder!Sorted(row) = Sorted(row)
  BY DEF Reorder!Sorted, Reorder!Arranged, Reorder!Listed, Reorder!Less, Reorder!Cardinality,
         Sorted, Arranged, Listed, Less, Cardinality

LEMMA ReorderPrefixSum ==
  ASSUME NEW a, NEW n, NEW size
  PROVE  Reorder!ParallelPrefixSum(a, n, size) = ParallelPrefixSum(a, n, size)
  BY DEF Reorder!ParallelPrefixSum, Reorder!Bulk, Reorder!SumOf, ParallelPrefixSum, Bulk, SumOf

LEMMA ReorderRow == ASSUME NEW a, NEW n  PROVE Reorder!Row(a, n) = Row(a, n)
  BY DEF Reorder!Row, Row

LEMMA ReorderWritten ==
  ASSUME NEW a, NEW first, NEW row  PROVE Reorder!Written(a, first, row) = Written(a, first, row)
  BY DEF Reorder!Written, Written

LEMMA ReorderCount ==
  ASSUME NEW row, NEW d  PROVE Reorder!Count(row, d) = Cardinality({i \in 1 .. Len(row) : row[i] = d})
  BY DEF Reorder!Count, Reorder!Cardinality, Cardinality

\* The assumptions on the inputs of Reordering.
LEMMA ReorderConstants ==
  /\ M \in Nat \ {0} /\ BlockSize \in Nat \ {0} /\ Reorderings \subseteq Nat
  /\ IdLimit \in Nat /\ M < IdLimit /\ SizeValues \in Nat \ {0} /\ SizeValues % (2 * IdLimit) = 0
  /\ Reorder!NodeID = Vertices /\ Reorder!None = -1
  /\ ReorderingGraphs \subseteq [directed : BOOLEAN, out : Reorder!Lists, in : Reorder!Lists]
  /\ Reorder!Lists = [Vertices -> Seq(Vertices \X Int)]
  /\ \A gr \in ReorderingGraphs : /\ Reorder!InOrder(gr.out) /\ Reorder!InOrder(gr.in)
                                  /\ ~ gr.directed => gr.in = gr.out
  BY OfReorder DEF Reorder!ReorderingAssumption, Reorder!NodeID, Reorder!None, Reorder!Lists, Vertices

LEMMA VerticesFinite == IsFiniteSet(Vertices) /\ Cardinality(Vertices) = M
<1>1. PICK m \in Nat : m = M /\ m > 0
  BY ReorderConstants
<1>2. IsFiniteSet(0 .. (m - 1)) /\ Cardinality(0 .. (m - 1)) = m
  BY <1>1, FS_Interval
<1> QED BY <1>1, <1>2 DEF Vertices

-----------------------------------------------------------------------------
(* The ids Reordering gives one after the other.                          *)

\* The largest id so far, as a size_t and as a NodeID_: also when it is -1.
LEMMA LargestId ==
  ASSUME NEW k \in 0 .. (M - 1)
  PROVE  /\ Reorder!AsNodeID((k - 1) % SizeValues) = k - 1
         /\ (((k - 1) % SizeValues) + 1) % SizeValues = k % SizeValues
         /\ (k - 1) % SizeValues \in 0 .. (SizeValues - 1)
<1>1. PICK limit \in Nat, size \in Nat :
        /\ limit = 2 * IdLimit /\ size = SizeValues /\ limit > 2 * k /\ limit > 1
        /\ size > 0 /\ size % limit = 0
  BY ReorderConstants
<1>2. PICK m \in Int : size = limit * m
  <2>1. PICK m \in Int : m = size \div limit
    BY <1>1
  <2>2. size = limit * m + (size % limit)
    BY <1>1, <2>1
  <2> QED BY <1>1, <2>2
<1>3. m >= 1 /\ limit <= size
  <2>1. ASSUME m <= 0  PROVE FALSE
    <3>1. limit * m <= 0
      BY <1>1, <2>1
    <3> QED BY <1>1, <1>2, <3>1
  <2>2. m >= 1
    BY <2>1
  <2>3. limit * m >= limit * 1
    BY <1>1, <2>2
  <2> QED BY <1>1, <1>2, <2>2, <2>3
<1>4. CASE k = 0
  <2>1. (-1) % size = size - 1
    <3>1. size * (-1) + (size - 1) = -1 /\ size - 1 \in 0 .. (size - 1) /\ size \in Nat \ {0}
      BY <1>1
    <3>2. (size * (-1) + (size - 1)) % size = size - 1
      BY <3>1, Remainder
    <3> QED BY <3>1, <3>2
  <2>2. (size - 1) % limit = limit - 1
    <3>1. limit * (m - 1) = limit * m - limit
      BY <1>1
    <3>2. size - 1 = limit * (m - 1) + (limit - 1)
      BY <1>1, <1>2, <3>1
    <3>3. limit - 1 \in 0 .. (limit - 1) /\ m - 1 \in Int /\ limit \in Nat \ {0}
      BY <1>1
    <3>4. (limit * (m - 1) + (limit - 1)) % limit = limit - 1
      BY <3>3, Remainder
    <3> QED BY <3>2, <3>4
  <2>3. (size - 1 + 1) % size = 0 /\ 0 % size = 0
    <3>1. size \in Nat \ {0} /\ 0 \in 0 .. (size - 1) /\ size - 1 + 1 = size
      BY <1>1
    <3> QED BY <3>1, SmallQuotient
  <2>4. limit - 1 - limit = -1 /\ ~ (limit - 1 < IdLimit) /\ IdLimit \in Nat /\ 2 * IdLimit = limit
    BY <1>1, ReorderConstants
  <2>5. Reorder!AsNodeID(size - 1) = -1
    BY <2>2, <2>4 DEF Reorder!AsNodeID
  <2>6. k - 1 = -1 /\ size - 1 \in 0 .. (size - 1)
    BY <1>1, <1>4
  <2> QED BY <1>1, <1>4, <2>1, <2>3, <2>5, <2>6
<1>5. CASE k > 0
  <2>1. k - 1 \in 0 .. (size - 1) /\ k \in 0 .. (size - 1) /\ k - 1 \in 0 .. (limit - 1)
          /\ size \in Nat \ {0} /\ limit \in Nat \ {0} /\ k - 1 < IdLimit
    BY <1>1, <1>3, <1>5, ReorderConstants
  <2>2. (k - 1) % size = k - 1 /\ k % size = k /\ (k - 1) % limit = k - 1
    BY <2>1, SmallQuotient
  <2>3. Reorder!AsNodeID(k - 1) = k - 1
    BY <1>1, <2>1, <2>2 DEF Reorder!AsNodeID
  <2>4. k - 1 + 1 = k
    OBVIOUS
  <2> QED BY <1>1, <2>1, <2>2, <2>3, <2>4
<1> QED BY <1>4, <1>5

-----------------------------------------------------------------------------
(* Reordering: the invariant                                               *)

Sides == {"in", "out"}
Neighbourhoods == [Vertices -> Seq(Vertices \X Int)]

GraphInv ==
  /\ original \in ReorderingGraphs
  /\ g \in [directed : BOOLEAN, out : Neighbourhoods, in : Neighbourhoods]
  /\ \A side \in Sides : \A n \in Vertices : InIdOrder(g[side][n])
  /\ ~ g.directed => g.in = g.out

\* org_ids names each vertex once, and the neighbours of a vertex under its name are
\* its neighbours of the start under theirs.
NamesInv ==
  /\ org_ids \in [Vertices -> Vertices]
  /\ \A u, v \in Vertices : org_ids[u] = org_ids[v] => u = v
  /\ \A side \in Sides : \A u, v \in Vertices :
       Often(original[side][u], v) = Often(g[side][org_ids[u]], org_ids[v])

IdsTyped ==
  /\ new_ids \in [Vertices -> Vertices \union {-1}] /\ max_id \in 0 .. (SizeValues - 1)
  /\ o_todo \subseteq Vertices /\ rows \in Sides /\ o_phase \in {"map", "fill", "rows"}

\* The vertices that have an id, and how many they are.
Named == {n \in Vertices : new_ids[n] # -1}
NumNamed == Cardinality(Named)

FillingInv ==
  o_phase = "fill" =>
    /\ \A n \in Vertices : n \in o_todo \/ n \in Named
    /\ Numbers(Named, new_ids, NumNamed)
    /\ max_id = (NumNamed - 1) % SizeValues

NewNamesInv ==
  o_phase = "rows" =>
    /\ new_ids \in [Vertices -> Vertices]
    /\ \A u, v \in Vertices : new_ids[u] = new_ids[v] => u = v

\* The lists of one side, those of the vertices in left not yet written.
LaidOut(side, left) ==
  /\ o_built[side].offsets = PrefixSum(Reorder!NewDegrees(side), M)
  /\ DOMAIN o_built[side].neighs = 0 .. (o_built[side].offsets[M] - 1)
  /\ \A u \in Vertices : u \notin left => Row(o_built[side], new_ids[u]) = Reorder!NewRow(side, u)

BuiltTyped ==
  /\ o_built = [in |-> o_built.in, out |-> o_built.out]
  /\ \A side \in Sides : o_built[side] = [offsets |-> o_built[side].offsets, neighs |-> o_built[side].neighs]

RowsInv ==
  o_phase = "rows" =>
    /\ LaidOut(rows, o_todo)
    /\ rows = "in" => g.directed
    /\ rows = "out" /\ g.directed => LaidOut("in", {})

ReorderInv ==
  /\ GraphInv /\ NamesInv /\ IdsTyped /\ FillingInv /\ NewNamesInv /\ BuiltTyped /\ RowsInv

\* MakeGraph begins with the graph as built, under its own names.
LEMMA ReorderInit == Reorder!Init => ReorderInv
<1> SUFFICES ASSUME Reorder!Init  PROVE ReorderInv
  OBVIOUS
<1> USE DEF Reorder!Init
<1>1. GraphInv
  BY ReorderConstants DEF GraphInv, Neighbourhoods, Sides, Reorder!InOrder, InIdOrder
<1>2. NamesInv
  <2>1. org_ids = [n \in Vertices |-> n] /\ g = original
    BY ReorderConstants
  <2>2. \A u \in Vertices : org_ids[u] = u
    BY <2>1
  <2>3. \A side \in Sides : \A u, v \in Vertices :
          Often(original[side][u], v) = Often(g[side][org_ids[u]], org_ids[v])
    BY <2>1, <2>2
  <2> QED BY <2>1, <2>2, <2>3 DEF NamesInv
<1>3. IdsTyped
  BY ReorderConstants DEF IdsTyped, Sides
<1>4. BuiltTyped
  <2>1. PICK none : none = Reorder!Empty
    OBVIOUS
  <2>2. o_built.in = none /\ o_built.out = none /\ o_built = [in |-> none, out |-> none]
    BY <2>1
  <2>3. none = [offsets |-> none.offsets, neighs |-> none.neighs]
    BY <2>1 DEF Reorder!Empty
  <2> QED BY <2>2, <2>3 DEF BuiltTyped, Sides
<1> QED BY <1>1, <1>2, <1>3, <1>4 DEF ReorderInv, FillingInv, NewNamesInv, RowsInv

\* GenerateMapping: the vertices that get an id get the first ones.
LEMMA ReorderGenerate == ReorderInv /\ Reorder!Generate => ReorderInv'
<1> SUFFICES ASSUME ReorderInv, Reorder!Generate  PROVE ReorderInv'
  OBVIOUS
<1>1. PICK m \in Reorder!Mappings :
        new_ids' = [n \in Vertices |-> IF n \in DOMAIN m THEN m[n] ELSE -1]
  BY ReorderConstants DEF Reorder!Generate
<1>2. /\ max_id' = Reorder!AsSize(Reorder!MaxElement(new_ids')) /\ o_todo' = Vertices /\ o_phase' = "fill"
      /\ UNCHANGED <<original, g, org_ids, rows, o_built>>
  BY ReorderConstants DEF Reorder!Generate
<1>3. PICK S \in SUBSET Vertices : m \in Bijection(S, 0 .. (Cardinality(S) - 1))
  BY ReorderCardinality, ReorderConstants DEF Reorder!Mappings, Reorder!Bijection, Reorder!Injection,
     Reorder!Surjection, Reorder!IsInjective, Bijection, Injection, Surjection, IsInjective
<1>4. IsFiniteSet(S) /\ IsFiniteSet(Vertices) /\ Cardinality(S) <= Cardinality(Vertices) /\ Cardinality(Vertices) = M
  <2>1. IsFiniteSet(Vertices) /\ Cardinality(Vertices) = M
    BY VerticesFinite
  <2> QED BY <2>1, FS_Subset
<1>5. PICK k \in 0 .. M : k = Cardinality(S)
  BY <1>4, FS_CardinalityType, ReorderConstants
<1>6. m \in [S -> 0 .. (k - 1)] /\ Numbers(S, m, k)
  <2>1. m \in [S -> 0 .. (k - 1)] /\ (\A a, b \in S : m[a] = m[b] => a = b)
    BY <1>3, <1>5, Fun_BijectionProperties
  <2>2. PICK T : T = 0 .. (k - 1)
    OBVIOUS
  <2>3. m \in Bijection(S, T)
    BY <1>3, <1>5, <2>2
  <2>4. \A t \in T : \E s \in S : m[s] = t
    BY <2>3, Fun_BijectionProperties, Fun_SurjectionProperties
  <2> QED BY <2>1, <2>2, <2>4 DEF Numbers
<1>7. /\ \A n \in S : new_ids'[n] = m[n] /\ new_ids'[n] \in 0 .. (k - 1)
      /\ \A n \in Vertices : n \notin S => new_ids'[n] = -1
  BY <1>1, <1>6
<1>8. Named' = S
  BY <1>7 DEF Named
<1>9. Numbers(S, new_ids', k)
  BY <1>6, <1>7 DEF Numbers
<1>10. new_ids' \in [Vertices -> Vertices \union {-1}]
  <2>1. ASSUME NEW n \in Vertices  PROVE new_ids'[n] \in Vertices \union {-1}
    <3>1. \A i \in 0 .. (k - 1) : i \in Vertices
      BY <1>5, ReorderConstants DEF Vertices
    <3> QED BY <1>7, <3>1
  <2> QED BY <1>1, <2>1
<1>11. Reorder!MaxElement(new_ids') = k - 1
  <2>1. k - 1 \in {new_ids'[n] : n \in Vertices}
    <3>1. CASE k = 0
      <4>1. S = {}
        BY <1>4, <1>5, <3>1, FS_EmptySet
      <4>2. 0 \in Vertices
        BY ReorderConstants DEF Vertices
      <4> QED BY <1>7, <3>1, <4>1, <4>2
    <3>2. CASE k # 0
      <4>1. k - 1 \in 0 .. (k - 1)
        BY <3>2
      <4> QED BY <1>9, <4>1 DEF Numbers
    <3> QED BY <3>1, <3>2
  <2>2. \A n \in Vertices : new_ids'[n] <= k - 1 /\ new_ids'[n] \in Int
    BY <1>5, <1>7
  <2>3. \A x \in {new_ids'[n] : n \in Vertices} :
          (\A n \in Vertices : new_ids'[n] <= x) => x = k - 1
    BY <2>1, <2>2
  <2> QED BY <2>1, <2>2, <2>3, ReorderConstants DEF Reorder!MaxElement
<1>12. max_id' = (k - 1) % SizeValues /\ max_id' \in 0 .. (SizeValues - 1)
  BY <1>2, <1>5, <1>11, ReorderConstants DEF Reorder!AsSize
<1>13. FillingInv'
  BY <1>2, <1>5, <1>8, <1>9, <1>12 DEF FillingInv, NumNamed
<1>14. IdsTyped'
  BY <1>2, <1>10, <1>12 DEF IdsTyped, ReorderInv
<1> QED BY <1>2, <1>13, <1>14 DEF ReorderInv, GraphInv, NamesInv, NewNamesInv, BuiltTyped, RowsInv

\* An iteration of the loop gives a vertex without an id the next one.
LEMMA ReorderFill == ASSUME ReorderInv, NEW v \in o_todo, Reorder!Fill(v)  PROVE ReorderInv'
<1>1. o_phase = "fill" /\ o_todo' = o_todo \ {v} /\ v \in Vertices
  BY DEF Reorder!Fill, ReorderInv, IdsTyped
<1>2. UNCHANGED <<original, g, org_ids, rows, o_built, o_phase>>
  BY DEF Reorder!Fill
<1>3. /\ Numbers(Named, new_ids, NumNamed) /\ max_id = (NumNamed - 1) % SizeValues
      /\ \A n \in Vertices : n \in o_todo \/ n \in Named
  BY <1>1 DEF ReorderInv, FillingInv
<1>4. IdsTyped /\ new_ids \in [Vertices -> Vertices \union {-1}]
  BY DEF ReorderInv, IdsTyped
<1>5. CASE new_ids[v] # -1
  <2>1. UNCHANGED <<new_ids, max_id>>
    BY <1>5, ReorderConstants DEF Reorder!Fill
  <2>2. Named' = Named /\ NumNamed' = NumNamed /\ v \in Named
    BY <1>1, <1>5, <2>1 DEF Named, NumNamed
  <2>3. FillingInv'
    BY <1>1, <1>2, <1>3, <2>1, <2>2 DEF FillingInv
  <2>4. IdsTyped'
    BY <1>1, <1>2, <1>4, <2>1 DEF IdsTyped
  <2> QED BY <1>1, <1>2, <2>1, <2>3, <2>4 DEF ReorderInv, GraphInv, NamesInv, NewNamesInv, BuiltTyped, RowsInv
<1>6. CASE new_ids[v] = -1
  <2>1. /\ new_ids' = [new_ids EXCEPT ![v] = Reorder!AsNodeID(max_id) + 1]
        /\ max_id' = (max_id + 1) % SizeValues
    BY <1>6, ReorderConstants DEF Reorder!Fill, Reorder!NextId, Reorder!AsSize
  <2>2. IsFiniteSet(Named) /\ NumNamed \in 0 .. (M - 1)
    <3>1. Named \subseteq Vertices /\ v \notin Named
      BY <1>6 DEF Named
    <3>2. IsFiniteSet(Named) /\ Cardinality(Named) <= M /\ Cardinality(Named) # M
      BY <1>1, <3>1, VerticesFinite, FS_Subset
    <3>3. Cardinality(Named) \in Nat
      BY <3>2, FS_CardinalityType
    <3> QED BY <3>2, <3>3, ReorderConstants DEF NumNamed
  <2>3. PICK k \in 0 .. (M - 1) : k = NumNamed
    BY <2>2
  <2>4. /\ Reorder!AsNodeID(max_id) = k - 1 /\ max_id' = k % SizeValues
    BY <1>3, <2>1, <2>3, LargestId
  <2>5. new_ids' = [new_ids EXCEPT ![v] = k]
    BY <2>1, <2>3, <2>4
  <2>6. k \in Vertices /\ k # -1
    BY <2>3 DEF Vertices
  <2>7. Named' = Named \union {v} /\ v \notin Named /\ new_ids'[v] = k /\ \A n \in Named : new_ids'[n] = new_ids[n]
    BY <1>1, <1>4, <1>6, <2>5, <2>6 DEF Named
  <2>8. NumNamed' = k + 1
    BY <2>2, <2>3, <2>7, FS_AddElement DEF NumNamed
  <2>9. Numbers(Named', new_ids', k + 1)
    BY <1>3, <2>3, <2>7, NumbersGrow
  <2>10. FillingInv'
    <3>1. k + 1 - 1 = k
      BY <2>3
    <3> QED BY <1>1, <1>3, <2>4, <2>7, <2>8, <2>9, <3>1 DEF FillingInv
  <2>11. IdsTyped'
    <3>1. max_id' \in 0 .. (SizeValues - 1)
      BY <2>3, <2>4, ReorderConstants
    <3>2. new_ids' \in [Vertices -> Vertices \union {-1}]
      BY <1>1, <1>4, <2>5, <2>6
    <3> QED BY <1>1, <1>2, <1>4, <3>1, <3>2 DEF IdsTyped
  <2> QED BY <1>1, <1>2, <2>10, <2>11 DEF ReorderInv, GraphInv, NamesInv, NewNamesInv, BuiltTyped, RowsInv
<1> QED BY <1>5, <1>6

\* When the new names are a permutation.
Renamed ==
  /\ new_ids \in [Vertices -> Vertices]
  /\ \A u, v \in Vertices : new_ids[u] = new_ids[v] => u = v

\* Every id is the new name of a vertex.
LEMMA RenamedOnto == ASSUME Renamed  PROVE \A id \in Vertices : \E u \in Vertices : new_ids[u] = id
<1>1. {new_ids[u] : u \in Vertices} = Vertices
  BY VerticesFinite, InjectiveIsOnto DEF Renamed
<1> QED BY <1>1

\* The new degrees, by new name, are the lengths of the lists.
LEMMA NewDegreesFacts ==
  ASSUME Renamed, NEW side \in Sides, \A u \in Vertices : Len(g[side][u]) \in Nat
  PROVE  /\ \A id \in Vertices : Reorder!NewDegrees(side)[id] \in Nat
         /\ \A u \in Vertices : Reorder!NewDegrees(side)[new_ids[u]] = Len(g[side][u])
<1>2. \A u \in Vertices : Reorder!NewDegrees(side)[new_ids[u]] = Len(g[side][u])
  <2> SUFFICES ASSUME NEW u \in Vertices
               PROVE  Reorder!NewDegrees(side)[new_ids[u]] = Len(g[side][u])
    OBVIOUS
  <2>1. PICK id \in Vertices : id = new_ids[u]
    BY DEF Renamed
  <2>2. {n \in Vertices : new_ids[n] = id} = {u}
    BY <2>1 DEF Renamed
  <2>3. Reorder!NewDegrees(side)[id]
          = IF {n \in Vertices : new_ids[n] = id} = {} THEN 0
            ELSE Len(g[side][CHOOSE n \in {n \in Vertices : new_ids[n] = id} : TRUE])
    BY ReorderConstants DEF Reorder!NewDegrees
  <2>4. (CHOOSE n \in {u} : TRUE) = u
    OBVIOUS
  <2> QED BY <2>1, <2>2, <2>3, <2>4
<1>3. \A id \in Vertices : Reorder!NewDegrees(side)[id] \in Nat
  BY <1>2, RenamedOnto
<1> QED BY <1>2, <1>3

LEMMA ListLengths ==
  ASSUME GraphInv, NEW side \in Sides, NEW u \in Vertices  PROVE Len(g[side][u]) \in Nat
<1>1. g[side][u] \in Seq(Vertices \X Int)
  BY DEF GraphInv, Neighbourhoods, Sides
<1> QED BY <1>1

LEMMA NewRowFacts ==
  ASSUME GraphInv, Renamed, NEW side \in Sides, NEW u \in Vertices
  PROVE  IsRenamed(Reorder!NewRow(side, u), g[side][u], Vertices, new_ids)
<1>1. PICK list \in Seq(Vertices \X Int) : list = g[side][u]
  BY DEF GraphInv, Neighbourhoods, Sides
<1>2. Reorder!NewRow(side, u) = Sorted(UnderNames(new_ids, list))
  BY <1>1, ReorderSorted DEF Reorder!NewRow, UnderNames
<1>3. Vertices \subseteq Int
  BY DEF Vertices
<1>4. /\ new_ids \in [Vertices -> Vertices]
      /\ \A x, y \in Vertices : new_ids[x] = new_ids[y] => x = y
  BY DEF Renamed
<1>5. PICK new : new = Reorder!NewRow(side, u)
  OBVIOUS
<1>6. IsRenamed(new, list, Vertices, new_ids)
  BY <1>2, <1>3, <1>4, <1>5, RenamedList
<1> QED BY <1>1, <1>5, <1>6

\* The lists of a side are given their places.
LEMMA ReorderAllocate ==
  ASSUME ReorderInv, Renamed, NEW side \in Sides, Reorder!Allocate(side),
         UNCHANGED <<original, g, org_ids, new_ids, max_id>>
  PROVE  /\ LaidOut(side, o_todo)' /\ IdsTyped' /\ BuiltTyped'
         /\ o_phase' = "rows" /\ rows' = side
         /\ \A other \in Sides : other # side => o_built'[other] = o_built[other]
<1>1. PICK places : places = ParallelPrefixSum(Reorder!NewDegrees(side), M, BlockSize)
  OBVIOUS
<1>2. PICK blank : blank = [i \in 0 .. (places[M] - 1) |-> <<Reorder!None, 0>>]
  OBVIOUS
<1>3. /\ o_built' = [o_built EXCEPT ![side] = [offsets |-> places, neighs |-> blank]]
      /\ o_todo' = Vertices /\ o_phase' = "rows" /\ rows' = side
  BY <1>1, <1>2, ReorderPrefixSum, ReorderConstants DEF Reorder!Allocate
<1>4. o_built = [in |-> o_built.in, out |-> o_built.out]
  BY DEF ReorderInv, BuiltTyped
<1>5. /\ o_built'[side] = [offsets |-> places, neighs |-> blank]
      /\ o_built' = [in |-> o_built'.in, out |-> o_built'.out]
      /\ \A other \in Sides : other # side => o_built'[other] = o_built[other]
  BY <1>3, <1>4 DEF Sides
<1>6. places = PrefixSum(Reorder!NewDegrees(side), M)
  <2>1. \A i \in 0 .. (M - 1) : Reorder!NewDegrees(side)[i] \in Int
    BY NewDegreesFacts, ListLengths DEF ReorderInv, Vertices
  <2> QED BY <1>1, <2>1, ReorderConstants, ParallelPrefixSumExact
<1>7. LaidOut(side, o_todo)'
  <2>1. Reorder!NewDegrees(side)' = Reorder!NewDegrees(side)
    BY DEF Reorder!NewDegrees
  <2>2. DOMAIN blank = 0 .. (places[M] - 1)
    BY <1>2
  <2> QED BY <1>3, <1>5, <1>6, <2>1, <2>2 DEF LaidOut
<1>8. IdsTyped'
  BY <1>3 DEF IdsTyped, ReorderInv
<1>9. BuiltTyped'
  <2> SUFFICES ASSUME NEW x \in Sides
               PROVE  o_built'[x] = [offsets |-> o_built'[x].offsets, neighs |-> o_built'[x].neighs]
    BY <1>5 DEF BuiltTyped
  <2>1. CASE x = side
    BY <1>5, <2>1
  <2>2. CASE x # side
    <3>1. o_built[x] = [offsets |-> o_built[x].offsets, neighs |-> o_built[x].neighs]
      BY DEF ReorderInv, BuiltTyped
    <3> QED BY <1>5, <2>2, <3>1
  <2> QED BY <2>1, <2>2
<1> QED BY <1>3, <1>5, <1>7, <1>8, <1>9

\* The rows begin once no vertex is without an id.
LEMMA ReorderStartBuilding == ReorderInv /\ Reorder!StartBuilding => ReorderInv'
<1> SUFFICES ASSUME ReorderInv, Reorder!StartBuilding  PROVE ReorderInv'
  OBVIOUS
<1>1. /\ o_phase = "fill" /\ o_todo = {} /\ UNCHANGED <<original, g, org_ids, new_ids, max_id>>
      /\ Reorder!Allocate(IF g.directed THEN "in" ELSE "out")
  BY DEF Reorder!StartBuilding
<1>2. Renamed
  <2>1. Named = Vertices /\ Numbers(Named, new_ids, NumNamed)
    BY <1>1 DEF ReorderInv, FillingInv, Named
  <2>2. NumNamed = M
    BY <2>1, VerticesFinite DEF NumNamed
  <2>3. \A n \in Vertices : new_ids[n] \in Vertices
    BY <2>1, <2>2 DEF Numbers, Vertices
  <2>4. new_ids \in [Vertices -> Vertices]
    BY <2>3 DEF ReorderInv, IdsTyped
  <2> QED BY <2>1, <2>4 DEF Renamed, Numbers
<1>3. PICK side \in Sides : side = IF g.directed THEN "in" ELSE "out"
  BY DEF Sides
<1>4. /\ LaidOut(side, o_todo)' /\ IdsTyped' /\ BuiltTyped' /\ o_phase' = "rows" /\ rows' = side
  BY <1>1, <1>2, <1>3, ReorderAllocate
<1>5. RowsInv'
  BY <1>1, <1>3, <1>4 DEF RowsInv
<1>6. NewNamesInv'
  BY <1>1, <1>2 DEF NewNamesInv, Renamed
<1> QED BY <1>1, <1>4, <1>5, <1>6 DEF ReorderInv, GraphInv, NamesInv, FillingInv

LEMMA ReorderStartOutRows == ReorderInv /\ Reorder!StartOutRows => ReorderInv'
<1> SUFFICES ASSUME ReorderInv, Reorder!StartOutRows  PROVE ReorderInv'
  OBVIOUS
<1>1. /\ o_phase = "rows" /\ o_todo = {} /\ rows = "in" /\ Reorder!Allocate("out")
      /\ UNCHANGED <<original, g, org_ids, new_ids, max_id>>
  BY DEF Reorder!StartOutRows
<1>2. Renamed
  BY <1>1 DEF ReorderInv, NewNamesInv, Renamed
<1>3. LaidOut("in", {})
  BY <1>1 DEF ReorderInv, RowsInv
<1>4. /\ LaidOut("out", o_todo)' /\ IdsTyped' /\ BuiltTyped' /\ o_phase' = "rows" /\ rows' = "out"
      /\ o_built'["in"] = o_built["in"]
  BY <1>1, <1>2, ReorderAllocate DEF Sides
<1>5. LaidOut("in", {})'
  <2>1. Reorder!NewDegrees("in")' = Reorder!NewDegrees("in")
    BY <1>1 DEF Reorder!NewDegrees
  <2>2. ASSUME NEW u \in Vertices  PROVE Reorder!NewRow("in", u)' = Reorder!NewRow("in", u)
    BY <1>1 DEF Reorder!NewRow
  <2> QED BY <1>1, <1>3, <1>4, <2>1, <2>2 DEF LaidOut
<1>6. RowsInv'
  BY <1>4, <1>5 DEF RowsInv
<1>7. NewNamesInv'
  BY <1>1, <1>2 DEF NewNamesInv, Renamed
<1> QED BY <1>1, <1>4, <1>6, <1>7 DEF ReorderInv, GraphInv, NamesInv, FillingInv

\* The offsets of a side grow, and give a vertex as many cells as it has neighbours.
LEMMA LaidOutOffsets ==
  ASSUME Renamed, NEW side \in Sides, \A u \in Vertices : Len(g[side][u]) \in Nat,
         NEW places, places = PrefixSum(Reorder!NewDegrees(side), M)
  PROVE  /\ Growing(places, M)
         /\ \A u \in Vertices : Len(g[side][u]) = places[new_ids[u] + 1] - places[new_ids[u]]
<1>1. PICK degree : degree = Reorder!NewDegrees(side)
  OBVIOUS
<1>2. \A i \in 0 .. (M - 1) : degree[i] \in Nat
  BY <1>1, NewDegreesFacts DEF Vertices
<1>3. places = PrefixSum(degree, M) /\ M \in Nat
  BY <1>1, ReorderConstants
<1>4. /\ places \in [0 .. M -> Nat] /\ places[0] = 0
      /\ \A i \in 0 .. (M - 1) : places[i + 1] = places[i] + degree[i]
      /\ \A i, j \in 0 .. M : i <= j => places[i] <= places[j]
  BY <1>2, <1>3, PrefixSumFacts
<1>5. Growing(places, M)
  BY <1>4 DEF Growing
<1>6. ASSUME NEW u \in Vertices
      PROVE  Len(g[side][u]) = places[new_ids[u] + 1] - places[new_ids[u]]
  <2>1. PICK id \in 0 .. (M - 1) : id = new_ids[u]
    BY DEF Renamed, Vertices
  <2>2. degree[id] = Len(g[side][u])
    BY <1>1, <2>1, NewDegreesFacts
  <2>3. places[id + 1] = places[id] + degree[id] /\ degree[id] \in Nat /\ places[id] \in Nat
    BY <1>2, <1>3, <1>4
  <2> QED BY <2>1, <2>2, <2>3
<1> QED BY <1>5, <1>6

\* A row is written to its own cells.
LEMMA ReorderBuildRow == ASSUME ReorderInv, NEW u \in o_todo, Reorder!BuildRow(u)  PROVE ReorderInv'
<1>1. /\ o_phase = "rows" /\ o_todo' = o_todo \ {u} /\ u \in Vertices
      /\ UNCHANGED <<original, g, org_ids, new_ids, max_id, rows, o_phase>>
  BY DEF Reorder!BuildRow, ReorderInv, IdsTyped
<1>2. PICK side \in Sides : side = rows
  BY DEF ReorderInv, IdsTyped
<1>3. PICK row : row = Reorder!NewRow(side, u)
  OBVIOUS
<1>4. PICK new : new = Written(o_built[side].neighs, o_built[side].offsets[new_ids[u]], row)
  OBVIOUS
<1>5. o_built' = [o_built EXCEPT ![side] = [@ EXCEPT !.neighs = new]]
  <2>1. o_built' = [o_built EXCEPT ![side].neighs = new]
    BY <1>2, <1>3, <1>4, ReorderWritten DEF Reorder!BuildRow
  <2> QED BY <2>1
<1>6. Renamed /\ GraphInv /\ LaidOut(side, o_todo)
  BY <1>1, <1>2 DEF ReorderInv, NewNamesInv, Renamed, RowsInv
<1>7. PICK places : places = o_built[side].offsets
  OBVIOUS
<1>8. PICK cells : cells = o_built[side].neighs
  OBVIOUS
<1>9. /\ o_built'[side].offsets = places /\ o_built'[side].neighs = new
      /\ o_built' = [in |-> o_built'.in, out |-> o_built'.out]
      /\ o_built'[side] = [offsets |-> places, neighs |-> new]
      /\ \A other \in Sides : other # side => o_built'[other] = o_built[other]
  <2>1. o_built = [in |-> o_built.in, out |-> o_built.out]
          /\ o_built[side] = [offsets |-> places, neighs |-> cells]
    BY <1>7, <1>8 DEF ReorderInv, BuiltTyped
  <2> QED BY <1>5, <1>7, <2>1 DEF Sides
<1>10. PICK id \in 0 .. (M - 1) : id = new_ids[u]
  BY <1>1, <1>6 DEF Renamed, Vertices
<1>11. /\ DOMAIN new = 0 .. (places[M] - 1) /\ Row(o_built'[side], id) = row
       /\ \A k \in 0 .. (M - 1) : k # id => Row(o_built'[side], k) = Row(o_built[side], k)
  <2>1. Growing(places, M) /\ Len(g[side][u]) = places[id + 1] - places[id]
    BY <1>1, <1>6, <1>7, <1>10, LaidOutOffsets, ListLengths DEF LaidOut
  <2>2. PICK X : X = Vertices \X Int
    OBVIOUS
  <2>3. row \in Seq(X) /\ Len(row) = places[id + 1] - places[id]
    BY <1>1, <1>3, <1>6, <2>1, <2>2, NewRowFacts DEF IsRenamed
  <2>4. DOMAIN cells = 0 .. (places[M] - 1) /\ M \in Nat
    BY <1>6, <1>7, <1>8, ReorderConstants DEF LaidOut
  <2>5. new = Written(cells, places[id], row)
    BY <1>4, <1>7, <1>8, <1>10
  <2>6. PICK a, b : a = o_built[side] /\ b = o_built'[side]
    OBVIOUS
  <2>7. a.offsets = places /\ a.neighs = cells /\ b.offsets = places /\ b.neighs = new
    BY <1>7, <1>8, <1>9, <2>6
  <2>8. DiffersInRow(b, a, id, row, M)
    BY <2>1, <2>3, <2>4, <2>5, <2>7, RowWritten
  <2> QED BY <2>6, <2>7, <2>8 DEF DiffersInRow
<1>12. ASSUME NEW x \in Sides  PROVE Reorder!NewDegrees(x)' = Reorder!NewDegrees(x)
  BY <1>1 DEF Reorder!NewDegrees
<1>13. ASSUME NEW x \in Sides, NEW n \in Vertices  PROVE Reorder!NewRow(x, n)' = Reorder!NewRow(x, n)
  BY <1>1 DEF Reorder!NewRow
<1>14. LaidOut(side, o_todo)'
  <2>1. ASSUME NEW n \in Vertices, n \notin o_todo'
        PROVE  Row(o_built'[side], new_ids[n]) = Reorder!NewRow(side, n)
    <3>1. CASE n = u
      BY <1>3, <1>10, <1>11, <3>1
    <3>2. CASE n # u
      <4>1. n \notin o_todo /\ new_ids[n] # id /\ new_ids[n] \in 0 .. (M - 1)
        BY <1>1, <1>6, <1>10, <2>1, <3>2 DEF Renamed, Vertices
      <4>2. Row(o_built[side], new_ids[n]) = Reorder!NewRow(side, n)
        BY <1>6, <4>1 DEF LaidOut
      <4> QED BY <1>11, <4>1, <4>2
    <3> QED BY <3>1, <3>2
  <2>2. places = PrefixSum(Reorder!NewDegrees(side), M)
    BY <1>6, <1>7 DEF LaidOut
  <2> QED BY <1>1, <1>9, <1>11, <1>12, <1>13, <2>1, <2>2 DEF LaidOut
<1>15. ASSUME side = "out", g.directed  PROVE LaidOut("in", {})'
  <2>1. LaidOut("in", {}) /\ "in" \in Sides /\ o_built'["in"] = o_built["in"]
    BY <1>1, <1>2, <1>9, <1>15 DEF ReorderInv, RowsInv, Sides
  <2> QED BY <1>1, <1>12, <1>13, <2>1 DEF LaidOut
<1>16. RowsInv'
  <2>1. rows = "in" => g.directed
    BY <1>1 DEF ReorderInv, RowsInv
  <2> QED BY <1>1, <1>2, <1>14, <1>15, <2>1 DEF RowsInv
<1>17. IdsTyped'
  BY <1>1 DEF ReorderInv, IdsTyped
<1>18. BuiltTyped'
  <2> SUFFICES ASSUME NEW x \in Sides
               PROVE  o_built'[x] = [offsets |-> o_built'[x].offsets, neighs |-> o_built'[x].neighs]
    BY <1>9 DEF BuiltTyped
  <2>1. o_built[x] = [offsets |-> o_built[x].offsets, neighs |-> o_built[x].neighs]
    BY DEF ReorderInv, BuiltTyped
  <2> QED BY <1>9, <2>1
<1> QED BY <1>1, <1>16, <1>17, <1>18 DEF ReorderInv, GraphInv, NamesInv, FillingInv, NewNamesInv

\* The graph relabelled is the graph there was, under the new names.
LEMMA ReorderReplace == ReorderInv /\ Reorder!Replace => ReorderInv'
<1> SUFFICES ASSUME ReorderInv, Reorder!Replace  PROVE ReorderInv'
  OBVIOUS
<1>1. PICK out, in : /\ out = [n \in Vertices |-> Row(o_built.out, n)]
                     /\ in = [n \in Vertices |-> Row(o_built.in, n)]
  OBVIOUS
<1>2. /\ o_phase = "rows" /\ o_todo = {} /\ rows = "out"
      /\ g' = [directed |-> g.directed, out |-> out, in |-> IF g.directed THEN in ELSE out]
      /\ org_ids' = [n \in Vertices |-> new_ids[org_ids[n]]]
      /\ new_ids' = [n \in Vertices |-> -1] /\ max_id' = 0
      /\ o_built' = [in |-> Reorder!Empty, out |-> Reorder!Empty]
      /\ o_phase' = "map" /\ UNCHANGED <<original, o_todo, rows>>
  BY <1>1, ReorderRow, ReorderConstants DEF Reorder!Replace, Reorder!Updated
<1>3. Renamed /\ GraphInv /\ NamesInv
  BY <1>2 DEF ReorderInv, NewNamesInv, Renamed
<1>4. LaidOut("out", {}) /\ (g.directed => LaidOut("in", {})) /\ (~ g.directed => g.in = g.out)
  BY <1>2, <1>3 DEF ReorderInv, RowsInv, GraphInv
<1>5. ASSUME NEW side \in Sides, NEW u \in Vertices
      PROVE  IsRenamed(g'[side][new_ids[u]], g[side][u], Vertices, new_ids)
  <2>1. PICK from \in Sides : /\ from = IF g.directed THEN side ELSE "out"
                              /\ LaidOut(from, {}) /\ g[from] = g[side]
                              /\ g'[side] = [n \in Vertices |-> Row(o_built[from], n)]
    <3>1. CASE side = "out" \/ ~ g.directed
      BY <1>1, <1>2, <1>4, <3>1 DEF Sides
    <3>2. CASE side = "in" /\ g.directed
      BY <1>1, <1>2, <1>4, <3>2 DEF Sides
    <3> QED BY <3>1, <3>2 DEF Sides
  <2>2. g'[side][new_ids[u]] = Reorder!NewRow(from, u)
    <3>1. new_ids[u] \in Vertices
      BY <1>3 DEF Renamed
    <3>2. Row(o_built[from], new_ids[u]) = Reorder!NewRow(from, u)
      BY <2>1 DEF LaidOut
    <3> QED BY <2>1, <3>1, <3>2
  <2>3. IsRenamed(Reorder!NewRow(from, u), g[from][u], Vertices, new_ids)
    BY <1>3, NewRowFacts
  <2> QED BY <2>1, <2>2, <2>3
<1>6. ASSUME NEW side \in Sides, NEW id \in Vertices
      PROVE  g'[side][id] \in Seq(Vertices \X Int) /\ InIdOrder(g'[side][id])
  <2>1. PICK u \in Vertices : new_ids[u] = id
    BY <1>3, RenamedOnto
  <2> QED BY <1>5, <2>1 DEF IsRenamed
<1>7. GraphInv'
  <2>1. g'.directed = g.directed /\ g.directed \in BOOLEAN /\ (~ g'.directed => g'.in = g'.out)
    BY <1>2, <1>3 DEF GraphInv
  <2>2. g'.out = out /\ (g'.in = in \/ g'.in = out) /\ g' = [directed |-> g'.directed, out |-> g'.out, in |-> g'.in]
    BY <1>2
  <2>3. g'.out \in Neighbourhoods
    <3>1. \A id \in Vertices : out[id] \in Seq(Vertices \X Int)
      BY <1>6, <2>2 DEF Sides
    <3> QED BY <1>1, <2>2, <3>1 DEF Neighbourhoods
  <2>4. g'.in \in Neighbourhoods
    <3>1. \A id \in Vertices : g'.in[id] \in Seq(Vertices \X Int)
      BY <1>6 DEF Sides
    <3>2. g'.in = [n \in Vertices |-> g'.in[n]]
      BY <1>1, <2>2
    <3> QED BY <3>1, <3>2 DEF Neighbourhoods
  <2>5. g' \in [directed : BOOLEAN, out : Neighbourhoods, in : Neighbourhoods]
    BY <2>1, <2>2, <2>3, <2>4
  <2> QED BY <1>2, <1>3, <1>6, <2>1, <2>5 DEF GraphInv
<1>8. NamesInv'
  <2>1. org_ids' \in [Vertices -> Vertices] /\ \A n \in Vertices : org_ids'[n] = new_ids[org_ids[n]]
    BY <1>2, <1>3 DEF NamesInv, Renamed
  <2>2. \A u, v \in Vertices : org_ids'[u] = org_ids'[v] => u = v
    BY <1>3, <2>1 DEF NamesInv, Renamed
  <2>3. ASSUME NEW side \in Sides, NEW u \in Vertices, NEW v \in Vertices
        PROVE  Often(original[side][u], v) = Often(g'[side][org_ids'[u]], org_ids'[v])
    <3>1. PICK x \in Vertices, y \in Vertices : x = org_ids[u] /\ y = org_ids[v]
      BY <1>3 DEF NamesInv
    <3>2. Often(original[side][u], v) = Often(g[side][x], y)
      BY <1>3, <3>1 DEF NamesInv
    <3>3. Often(g'[side][new_ids[x]], new_ids[y]) = Often(g[side][x], y)
      BY <1>5 DEF IsRenamed
    <3> QED BY <2>1, <3>1, <3>2, <3>3
  <2> QED BY <1>2, <2>1, <2>2, <2>3 DEF NamesInv
<1>9. IdsTyped'
  <2>1. 0 \in 0 .. (SizeValues - 1)
    BY ReorderConstants
  <2> QED BY <1>2, <2>1 DEF ReorderInv, IdsTyped
<1>10. BuiltTyped'
  <2>1. PICK none : none = Reorder!Empty
    OBVIOUS
  <2>2. none = [offsets |-> none.offsets, neighs |-> none.neighs]
    BY <2>1 DEF Reorder!Empty
  <2> QED BY <1>2, <2>1, <2>2 DEF BuiltTyped, Sides
<1> QED BY <1>2, <1>7, <1>8, <1>9, <1>10 DEF ReorderInv, FillingInv, NewNamesInv, RowsInv

\* Every step of RelabelByMapping keeps the invariant.
LEMMA ReorderNext == ReorderInv /\ Reorder!Next => ReorderInv'
  BY ReorderGenerate, ReorderStartBuilding, ReorderStartOutRows, ReorderReplace, ReorderFill,
     ReorderBuildRow DEF Reorder!Next

LEMMA ReorderStutter ==
  ReorderInv /\ UNCHANGED <<original, g, org_ids, new_ids, max_id, o_todo, rows, o_built, o_phase>> => ReorderInv'
<1> SUFFICES ASSUME ReorderInv,
                    UNCHANGED <<original, g, org_ids, new_ids, max_id, o_todo, rows, o_built, o_phase>>
             PROVE  ReorderInv'
  OBVIOUS
<1>1. GraphInv' /\ NamesInv' /\ IdsTyped' /\ NewNamesInv' /\ BuiltTyped'
  <2>1. GraphInv' /\ NamesInv'
    BY DEF ReorderInv, GraphInv, NamesInv
  <2>2. IdsTyped' /\ NewNamesInv' /\ BuiltTyped'
    BY DEF ReorderInv, IdsTyped, NewNamesInv, BuiltTyped
  <2> QED BY <2>1, <2>2
<1>2. FillingInv'
  BY DEF ReorderInv, FillingInv, Named, NumNamed
<1>3. ASSUME NEW side \in Sides, NEW left, LaidOut(side, left)  PROVE LaidOut(side, left)'
  BY <1>3 DEF LaidOut, Reorder!NewDegrees, Reorder!NewRow
<1>4. RowsInv'
  <2> SUFFICES ASSUME o_phase = "rows"  PROVE RowsInv'
    BY DEF RowsInv
  <2>1. LaidOut(rows, o_todo)'
    BY <1>3 DEF ReorderInv, RowsInv, IdsTyped, LaidOut
  <2>2. rows = "out" /\ g.directed => LaidOut("in", {})'
    BY <1>3 DEF ReorderInv, RowsInv, Sides
  <2> QED BY <2>1, <2>2 DEF ReorderInv, RowsInv
<1> QED BY <1>1, <1>2, <1>4 DEF ReorderInv

\* Counting the targets of a list is counting in the list.
LEMMA TargetsCount ==
  ASSUME NEW graph, NEW side, NEW u, NEW v, graph[side][u] \in Seq(Vertices \X Int)
  PROVE  Reorder!Count(Reorder!Targets(graph, side, u), v) = Often(graph[side][u], v)
<1>1. PICK list \in Seq(Vertices \X Int) : list = graph[side][u]
  OBVIOUS
<1>2. PICK n \in Nat : n = Len(list)
  OBVIOUS
<1>3. PICK ids : ids = [i \in 1 .. n |-> list[i][1]]
  OBVIOUS
<1>4. \A i \in 1 .. n : list[i][1] \in Vertices
  BY <1>2
<1>5. ids \in [1 .. n -> Vertices]
  BY <1>3, <1>4
<1>6. Len(ids) = n
  BY <1>5
<1>7. Reorder!Targets(graph, side, u) = ids
  BY <1>1, <1>2, <1>3 DEF Reorder!Targets
<1>8. Reorder!Count(ids, v) = Cardinality({i \in 1 .. n : ids[i] = v})
  BY <1>6, ReorderCount
<1>9. {i \in 1 .. n : ids[i] = v} = {i \in 1 .. n : list[i][1] = v}
  BY <1>3
<1> QED BY <1>1, <1>2, <1>7, <1>8, <1>9 DEF Often

\* What the invariant says of a relabelled graph.
LEMMA ReorderSafe ==
  ReorderInv => Reorder!TypeOK /\ Reorder!FilledIsPermutation /\ Reorder!SameGraph
<1> SUFFICES ASSUME ReorderInv
             PROVE  Reorder!TypeOK /\ Reorder!FilledIsPermutation /\ Reorder!SameGraph
  OBVIOUS
<1>1. GraphInv /\ NamesInv /\ IdsTyped /\ NewNamesInv
  BY DEF ReorderInv
<1>2. ASSUME NEW side \in Sides, NEW n \in Vertices
      PROVE  g[side][n] \in Seq(Vertices \X Int) /\ original[side][n] \in Seq(Vertices \X Int)
  BY <1>1, ReorderConstants DEF GraphInv, Neighbourhoods, Sides
<1>3. Reorder!TypeOK
  <2>1. \A n \in Vertices : \A side \in Sides : \A i \in 1 .. Len(g[side][n]) : g[side][n][i][1] \in Vertices
    <3> SUFFICES ASSUME NEW n \in Vertices, NEW side \in Sides, NEW i \in 1 .. Len(g[side][n])
                 PROVE  g[side][n][i][1] \in Vertices
      OBVIOUS
    <3>1. PICK list \in Seq(Vertices \X Int) : list = g[side][n]
      BY <1>2
    <3> QED BY <3>1
  <2> QED BY <1>1, <2>1, ReorderConstants DEF Reorder!TypeOK, NamesInv, IdsTyped, Sides
<1>4. Reorder!FilledIsPermutation
  <2> SUFFICES ASSUME o_phase = "rows"  PROVE {new_ids[n] : n \in Vertices} = Vertices
    BY ReorderConstants DEF Reorder!FilledIsPermutation
  <2> QED BY <1>1, VerticesFinite, InjectiveIsOnto DEF NewNamesInv
<1>5. Reorder!OrgIdsTrack
  <2>1. {org_ids[n] : n \in Vertices} = Vertices
    BY <1>1, VerticesFinite, InjectiveIsOnto DEF NamesInv
  <2>2. ASSUME NEW side \in Sides, NEW u \in Vertices, NEW v \in Vertices
        PROVE  Reorder!Count(Reorder!Targets(original, side, u), v)
                 = Reorder!Count(Reorder!Targets(g, side, org_ids[u]), org_ids[v])
    <3>1. org_ids[u] \in Vertices
      BY <1>1 DEF NamesInv
    <3>2. Reorder!Count(Reorder!Targets(original, side, u), v) = Often(original[side][u], v)
      BY <1>2, TargetsCount
    <3>3. Reorder!Count(Reorder!Targets(g, side, org_ids[u]), org_ids[v]) = Often(g[side][org_ids[u]], org_ids[v])
      BY <1>2, <3>1, TargetsCount
    <3> QED BY <1>1, <3>2, <3>3 DEF NamesInv
  <2> QED BY <2>1, <2>2, ReorderConstants DEF Reorder!OrgIdsTrack, Sides
<1>6. Reorder!RowsSorted
  BY <1>1, ReorderConstants DEF Reorder!RowsSorted, Reorder!InOrder, GraphInv, InIdOrder, Sides
<1> QED BY <1>3, <1>4, <1>5, <1>6 DEF Reorder!SameGraph

-----------------------------------------------------------------------------
(* Relabelled: what its operators are.                                     *)

LEMMA RelabelCardinality == ASSUME NEW S  PROVE Relabel!Cardinality(S) = Cardinality(S)
  BY DEF Relabel!Cardinality, Cardinality

LEMMA RelabelSortedIds == ASSUME NEW row  PROVE Relabel!SortedIds(row) = SortedIds(row)
  BY DEF Relabel!SortedIds, Relabel!Arranged, Relabel!Listed, Relabel!Cardinality,
         SortedIds, Arranged, Listed, Cardinality

LEMMA RelabelPrefixSum == ASSUME NEW a, NEW n  PROVE Relabel!PrefixSum(a, n) = PrefixSum(a, n)
  BY DEF Relabel!PrefixSum, Relabel!SumOf, PrefixSum, SumOf

LEMMA RelabelWritten ==
  ASSUME NEW a, NEW first, NEW row  PROVE Relabel!Written(a, first, row) = Written(a, first, row)
  BY DEF Relabel!Written, Written

LEMMA RelabelCount == ASSUME NEW row, NEW d  PROVE Relabel!Count(row, d) = Count(row, d)
  BY DEF Relabel!Count, Relabel!Cardinality, Count, Cardinality

\* The assumptions on the inputs of Relabelled.
LEMMA RelabelConstants ==
  /\ M \in Nat \ {0} /\ IsFiniteSet(Threads) /\ 0 \in Threads
  /\ Threads = 0 .. (Relabel!Cardinality(Threads) - 1)
  /\ Relabel!NodeID = Vertices /\ Relabel!None = -1
  /\ RelabelGraphs \subseteq [directed : BOOLEAN, out : [Vertices -> Seq(Vertices)],
                              in : [Vertices -> Seq(Vertices)]]
<1>1. Relabel!IsFiniteSet(Threads) => IsFiniteSet(Threads)
  BY DEF Relabel!IsFiniteSet, IsFiniteSet
<1> QED BY <1>1, OfRelabel DEF Relabel!RelabelledAssumption, Relabel!NodeID, Relabel!None, Relabel!Lists, Vertices

LEMMA RelabelDegrees == ASSUME NEW side  PROVE Relabel!DegreesFor(side) = Reorder!NewDegrees(side)
  BY DEF Relabel!DegreesFor, Relabel!Degree, Relabel!NodeID, Reorder!NewDegrees, Reorder!NodeID

\* The part of a loop over the vertices a thread gets: each vertex is in one.
LEMMA OneSlice ==
  ASSUME NEW p \in Nat \ {0}, NEW v \in Vertices
  PROVE  /\ \E t \in 0 .. (p - 1) : v \in Relabel!Slice(t, p)
         /\ \A s, t : v \in Relabel!Slice(s, p) /\ v \in Relabel!Slice(t, p) => s = t
<1>1. PICK m \in Nat : m = M /\ v \in Nat /\ v < m
  BY RelabelConstants DEF Vertices
<1>2. PICK t \in Int : t = (v * p) \div m
  BY <1>1
<1>3. t \in 0 .. (p - 1)
  <2>1. PICK x \in Nat : x = v * p
    BY <1>1
  <2>2. PICK r \in 0 .. (m - 1) : r = x % m /\ x = m * t + r
    BY <1>1, <1>2, <2>1
  <2>3. x < m * p
    <3>1. PICK d \in Nat : m = v + d /\ d > 0
      BY <1>1
    <3>2. m * p = v * p + d * p /\ d * p > 0
      BY <1>1, <3>1
    <3> QED BY <1>1, <2>1, <3>2
  <2>4. ASSUME t >= p  PROVE FALSE
    <3>1. m * t >= m * p
      BY <1>1, <2>4
    <3> QED BY <1>1, <2>2, <2>3, <3>1
  <2>5. ASSUME t < 0  PROVE FALSE
    <3>1. m * t <= m * (-1)
      BY <1>1, <2>5
    <3> QED BY <1>1, <2>1, <2>2, <3>1
  <2> QED BY <2>4, <2>5
<1>4. \A s : v \in Relabel!Slice(s, p) <=> t = s
  BY <1>1, <1>2, RelabelConstants DEF Relabel!Slice
<1> QED BY <1>3, <1>4

LEMMA SliceOfOne == Relabel!Slice(0, 1) = Vertices
<1>1. ASSUME NEW v \in Vertices  PROVE (v * 1) \div M = 0
  <2>1. M \in Nat \ {0} /\ v * 1 = v /\ v \in 0 .. (M - 1)
    BY RelabelConstants DEF Vertices
  <2> QED BY <2>1, SmallQuotient
<1> QED BY <1>1, RelabelConstants DEF Relabel!Slice

\* A thread's part of a static loop.
LEMMA SlicesAreVertices == ASSUME NEW t, NEW p  PROVE Relabel!Slice(t, p) \in SUBSET Vertices
  BY RelabelConstants DEF Relabel!Slice

NumThreads == Relabel!Cardinality(Threads)

LEMMA ThreadNumbers == NumThreads \in Nat \ {0} /\ Threads = 0 .. (NumThreads - 1)
<1>1. NumThreads \in Nat
  BY RelabelConstants, RelabelCardinality, FS_CardinalityType DEF NumThreads
<1>2. NumThreads # 0
  BY RelabelConstants DEF NumThreads
<1> QED BY <1>1, <1>2, RelabelConstants DEF NumThreads

-----------------------------------------------------------------------------
(* Relabelled: the invariant                                               *)

NoneLeft == \A t \in Threads : o_todo[t] = {}
LeftTo(v) == \E t \in Threads : v \in o_todo[t]

RelabelTyped ==
  /\ g \in RelabelGraphs /\ method \in {"v2", "RandOrder", "DegSort"}
  /\ new_ids \in [Vertices -> Vertices \union {-1}] /\ claimedVtxs \in [Vertices -> {0, 1}]
  /\ o_todo \in [Threads -> SUBSET Vertices] /\ randID \in [Threads -> Vertices \union {-1}]
  /\ sides \in Seq(Sides) /\ (\E S : result \in Seq(S))
  /\ o_pc \in {"sort", "claim", "rows", "done"}

\* Each vertex is left to one thread, and has an id as soon as it is left to none; the
\* ids claimed are those given.
ClaimsInv ==
  /\ method # "DegSort" =>
       /\ \A u, v \in Vertices : new_ids[u] # -1 /\ new_ids[u] = new_ids[v] => u = v
       /\ \A id \in Vertices : claimedVtxs[id] = 1 <=> \E v \in Vertices : new_ids[v] = id
  /\ \A s, t \in Threads : \A v \in Vertices : v \in o_todo[s] /\ v \in o_todo[t] => s = t
  /\ o_pc = "claim" /\ method # "DegSort" => \A v \in Vertices : new_ids[v] = -1 <=> LeftTo(v)
  /\ \A t \in Threads : randID[t] # -1 => o_pc = "claim" /\ o_todo[t] # {}
  /\ o_pc = "claim" /\ (method = "DegSort" \/ result # << >>) => NoneLeft

\* DegSort gives the larger degrees the lower ids.
RanksInv ==
  /\ o_pc = "sort" => method = "DegSort" /\ result = << >>
  /\ method = "DegSort" /\ o_pc # "sort" =>
       \A u, v \in Vertices : Relabel!Degree(Relabel!SortKey, u) > Relabel!Degree(Relabel!SortKey, v)
                                => new_ids[u] < new_ids[v]

GivenInv == o_pc \in {"rows", "done"} \/ (o_pc = "claim" /\ method = "DegSort") => Renamed

\* The row of u in the array a is the list of u under its new names.
HasRow(a, u) ==
  Row([offsets |-> a.index, neighs |-> a.neighs], new_ids[u]) = SortedIds(IdsUnder(new_ids, g[a.side][u]))

IndexOf(a) == a.side \in Sides /\ a.index = PrefixSum(Relabel!DegreesFor(a.side), M)

BuildingInv ==
  o_pc = "rows" =>
    /\ sides # << >> /\ IndexOf(rows)
    /\ rows = [side |-> rows.side, index |-> rows.index, offsets |-> rows.offsets, neighs |-> rows.neighs]
    /\ DOMAIN rows.offsets = 0 .. M /\ DOMAIN rows.neighs = 0 .. (rows.index[M] - 1)
    /\ \A u \in Vertices : LeftTo(u) => rows.offsets[new_ids[u]] = rows.index[new_ids[u]]
    /\ result = << >> \/ createBothCSRs => \A u \in Vertices : ~ LeftTo(u) => HasRow(rows, u)

ResultInv ==
  \A k \in 1 .. Len(result) :
    /\ IndexOf(result[k])
    /\ k = 1 \/ createBothCSRs => \A u \in Vertices : HasRow(result[k], u)

RelabelInv ==
  /\ RelabelTyped /\ ClaimsInv /\ RanksInv /\ GivenInv /\ BuildingInv /\ ResultInv

\* Every vertex is in the part of one thread, and nothing is claimed.
LEMMA RelabelInit == Relabel!Init => RelabelInv
<1> SUFFICES ASSUME Relabel!Init  PROVE RelabelInv
  OBVIOUS
<1>1. /\ g \in RelabelGraphs /\ method \in {"v2", "RandOrder", "DegSort"}
      /\ new_ids = [n \in Vertices |-> -1] /\ claimedVtxs = [n \in Vertices |-> 0]
      /\ o_todo = [t \in Threads |-> Relabel!OwnVertices(t)]
      /\ randID = [t \in Threads |-> -1]
      /\ sides = Relabel!ListsOf(method, g, outDegree) /\ rows = << >> /\ result = << >>
      /\ o_pc = IF method = "DegSort" THEN "sort" ELSE "claim"
  BY RelabelConstants DEF Relabel!Init
<1>2. PICK p \in Nat \ {0} : p = Relabel!Cardinality(Relabel!Workers) /\ Relabel!Workers = 0 .. (p - 1)
                               /\ Relabel!Workers \subseteq Threads
  <2>1. CASE method = "v2"
    BY <2>1, ThreadNumbers DEF Relabel!Workers, NumThreads
  <2>2. CASE method # "v2"
    <3>1. Relabel!Workers = {0} /\ 0 \in Threads
      BY <2>2, RelabelConstants DEF Relabel!Workers
    <3>2. Relabel!Cardinality({0}) = 1
      BY RelabelCardinality, FS_Singleton
    <3>3. {0} = 0 .. (1 - 1)
      OBVIOUS
    <3> QED BY <3>1, <3>2, <3>3
  <2> QED BY <2>1, <2>2
<1>3. \A t \in Threads : o_todo[t] = IF t \in 0 .. (p - 1) THEN Relabel!Slice(t, p) ELSE {}
  BY <1>1, <1>2 DEF Relabel!OwnVertices
<1>4. \A v \in Vertices : LeftTo(v)
  <2> SUFFICES ASSUME NEW v \in Vertices  PROVE LeftTo(v)
    OBVIOUS
  <2>1. PICK t \in 0 .. (p - 1) : v \in Relabel!Slice(t, p)
    BY OneSlice
  <2> QED BY <1>2, <1>3, <2>1 DEF LeftTo
<1>5. \A s, t \in Threads : \A v \in Vertices : v \in o_todo[s] /\ v \in o_todo[t] => s = t
  <2> SUFFICES ASSUME NEW s \in Threads, NEW t \in Threads, NEW v \in Vertices,
                      v \in o_todo[s], v \in o_todo[t]
               PROVE  s = t
    OBVIOUS
  <2>1. v \in Relabel!Slice(s, p) /\ v \in Relabel!Slice(t, p)
    BY <1>3
  <2> QED BY <2>1, OneSlice
<1>6. RelabelTyped
  <2>1. o_todo \in [Threads -> SUBSET Vertices]
    BY <1>1, <1>3, SlicesAreVertices
  <2>2. sides \in Seq(Sides)
    <3>1. sides = <<"out">> \/ sides = <<"out", "in">> \/ sides = <<"in", "out">>
      BY <1>1 DEF Relabel!ListsOf
    <3>2. <<"out">> \in Seq(Sides) /\ <<"out", "in">> \in Seq(Sides) /\ <<"in", "out">> \in Seq(Sides)
      BY DEF Sides
    <3> QED BY <3>1, <3>2
  <2>3. result \in Seq({})
    BY <1>1
  <2> QED BY <1>1, <2>1, <2>2, <2>3 DEF RelabelTyped
<1>7. ClaimsInv
  BY <1>1, <1>4, <1>5 DEF ClaimsInv
<1>8. RanksInv /\ GivenInv /\ BuildingInv /\ ResultInv
  BY <1>1 DEF RanksInv, GivenInv, BuildingInv, ResultInv
<1> QED BY <1>6, <1>7, <1>8 DEF RelabelInv

\* What stays true while the names, the degrees and the arrays done do.
LEMMA RelabelFrame ==
  ASSUME RelabelInv, UNCHANGED <<g, method, outDegree, createBothCSRs, new_ids, result>>
  PROVE  /\ ResultInv'
         /\ (o_pc # "sort" <=> o_pc' # "sort") => RanksInv'
         /\ Renamed' <=> Renamed
         /\ \A a : IndexOf(a)' <=> IndexOf(a)
         /\ \A a, u : HasRow(a, u)' <=> HasRow(a, u)
<1>1. \A a : IndexOf(a)' <=> IndexOf(a)
  BY DEF IndexOf, Relabel!DegreesFor, Relabel!Degree
<1>2. \A a, u : HasRow(a, u)' <=> HasRow(a, u)
  BY DEF HasRow
<1>3. ResultInv'
  BY <1>1, <1>2 DEF RelabelInv, ResultInv
<1>4. (o_pc # "sort" <=> o_pc' # "sort") => RanksInv'
  BY DEF RelabelInv, RanksInv, Relabel!Degree, Relabel!SortKey
<1>5. Renamed' <=> Renamed
  BY DEF Renamed
<1> QED BY <1>1, <1>2, <1>3, <1>4, <1>5

\* A thread draws the id it will try next.
LEMMA RelabelDraw == ASSUME RelabelInv, NEW t \in Threads, Relabel!Draw(t)  PROVE RelabelInv'
<1>1. /\ o_pc = "claim" /\ o_todo[t] # {}
      /\ UNCHANGED <<g, method, outDegree, createBothCSRs, new_ids, claimedVtxs, o_todo, sides, rows, result, o_pc>>
  BY DEF Relabel!Draw
<1>2. PICK id \in Vertices : randID' = [randID EXCEPT ![t] = id]
  BY RelabelConstants DEF Relabel!Draw
<1>3. RelabelTyped'
  BY <1>1, <1>2 DEF RelabelInv, RelabelTyped
<1>4. ClaimsInv'
  <2>1. \A s \in Threads : randID'[s] # -1 => o_pc = "claim" /\ o_todo[s] # {}
    <3> SUFFICES ASSUME NEW s \in Threads, randID'[s] # -1  PROVE o_todo[s] # {}
      BY <1>1
    <3>1. s = t \/ randID[s] # -1
      BY <1>2 DEF RelabelInv, RelabelTyped
    <3> QED BY <1>1, <3>1 DEF RelabelInv, ClaimsInv
  <2> QED BY <1>1, <2>1 DEF RelabelInv, ClaimsInv, LeftTo, NoneLeft
<1>5. RanksInv' /\ ResultInv' /\ GivenInv' /\ BuildingInv'
  BY <1>1, RelabelFrame DEF RelabelInv, GivenInv, BuildingInv
<1> QED BY <1>3, <1>4, <1>5 DEF RelabelInv

\* The vertex a thread is at.
LEMMA CurrentIsLeft ==
  ASSUME RelabelTyped, NEW t \in Threads, o_todo[t] # {}
  PROVE  Relabel!Current(t) \in o_todo[t] /\ Relabel!Current(t) \in Vertices
<1>1. o_todo[t] \in SUBSET Nat /\ o_todo[t] \in SUBSET Vertices
  BY DEF RelabelTyped, Vertices
<1>2. \E v \in o_todo[t] : \A u \in o_todo[t] : v <= u
  BY <1>1, LeastNumber
<1>3. Relabel!Current(t) \in o_todo[t]
  BY <1>2 DEF Relabel!Current
<1> QED BY <1>1, <1>3

\* A thread that is the first to claim an id gives it to its vertex.
LEMMA RelabelClaim == ASSUME RelabelInv, NEW t \in Threads, Relabel!Claim(t)  PROVE RelabelInv'
<1>1. /\ o_pc = "claim" /\ randID[t] # -1 /\ randID' = [randID EXCEPT ![t] = -1]
      /\ UNCHANGED <<g, method, outDegree, createBothCSRs, sides, rows, result, o_pc>>
  BY RelabelConstants DEF Relabel!Claim
<1>2. RelabelTyped /\ ClaimsInv
  BY DEF RelabelInv
<1>3. /\ o_todo[t] # {} /\ method # "DegSort" /\ result = << >>
  BY <1>1, <1>2 DEF ClaimsInv, NoneLeft
<1>4. \A s \in Threads : randID'[s] # -1 => s # t /\ randID[s] # -1
  BY <1>1, <1>2 DEF RelabelTyped
<1>5. randID' \in [Threads -> Vertices \union {-1}]
  BY <1>1, <1>2 DEF RelabelTyped
<1>6. CASE ~ Relabel!Won(t)
  <2>1. UNCHANGED <<claimedVtxs, new_ids, o_todo>>
    BY <1>6 DEF Relabel!Claim
  <2>2. RelabelTyped'
    BY <1>1, <1>2, <1>5, <2>1 DEF RelabelTyped
  <2>3. ClaimsInv'
    BY <1>1, <1>2, <1>4, <2>1 DEF ClaimsInv, LeftTo, NoneLeft
  <2>4. RanksInv' /\ ResultInv' /\ GivenInv' /\ BuildingInv'
    BY <1>1, <2>1, RelabelFrame DEF RelabelInv, GivenInv, BuildingInv
  <2> QED BY <2>2, <2>3, <2>4 DEF RelabelInv
<1>7. CASE Relabel!Won(t)
  <2>1. PICK id \in Vertices, v \in Vertices : id = randID[t] /\ v = Relabel!Current(t) /\ v \in o_todo[t]
    BY <1>1, <1>2, <1>3, CurrentIsLeft DEF RelabelTyped
  <2>2. /\ claimedVtxs[id] = 0
        /\ claimedVtxs' = [claimedVtxs EXCEPT ![id] = 1]
        /\ new_ids' = [new_ids EXCEPT ![v] = id]
        /\ o_todo' = [o_todo EXCEPT ![t] = o_todo[t] \ {v}]
    BY <1>7, <2>1 DEF Relabel!Claim, Relabel!Won
  <2>3. id # -1
    BY DEF Vertices
  <2>4. /\ new_ids' \in [Vertices -> Vertices \union {-1}] /\ claimedVtxs' \in [Vertices -> {0, 1}]
        /\ new_ids'[v] = id /\ \A n \in Vertices : n # v => new_ids'[n] = new_ids[n]
        /\ claimedVtxs'[id] = 1 /\ \A i \in Vertices : i # id => claimedVtxs'[i] = claimedVtxs[i]
        /\ o_todo' \in [Threads -> SUBSET Vertices]
        /\ o_todo'[t] = o_todo[t] \ {v} /\ \A s \in Threads : s # t => o_todo'[s] = o_todo[s]
    BY <1>2, <2>2 DEF RelabelTyped
  <2>5. RelabelTyped'
    BY <1>1, <1>2, <1>5, <2>4 DEF RelabelTyped
  <2>6. \A n \in Vertices : new_ids[n] # id
    BY <1>2, <1>3, <2>2 DEF ClaimsInv
  <2>7. \A x, y \in Vertices : new_ids'[x] # -1 /\ new_ids'[x] = new_ids'[y] => x = y
    BY <1>2, <1>3, <2>4, <2>6 DEF ClaimsInv
  <2>8. new_ids[v] = -1
    BY <1>1, <1>2, <1>3, <2>1 DEF ClaimsInv, LeftTo
  <2>9. \A i \in Vertices : claimedVtxs'[i] = 1 <=> \E n \in Vertices : new_ids'[n] = i
    <3> SUFFICES ASSUME NEW i \in Vertices
                 PROVE  claimedVtxs'[i] = 1 <=> \E n \in Vertices : new_ids'[n] = i
      OBVIOUS
    <3>1. CASE i = id
      BY <2>4, <3>1
    <3>2. CASE i # id
      <4>1. claimedVtxs[i] = 1 <=> \E n \in Vertices : new_ids[n] = i
        BY <1>2, <1>3 DEF ClaimsInv
      <4>2. i # -1
        BY DEF Vertices
      <4> QED BY <2>4, <2>8, <3>2, <4>1, <4>2
    <3> QED BY <3>1, <3>2
  <2>10. \A r, s \in Threads : \A n \in Vertices : n \in o_todo'[r] /\ n \in o_todo'[s] => r = s
    <3>1. \A s \in Threads : o_todo'[s] \subseteq o_todo[s]
      BY <2>4
    <3> QED BY <1>2, <3>1 DEF ClaimsInv
  <2>11. \A n \in Vertices : new_ids'[n] = -1 <=> LeftTo(n)'
    <3> SUFFICES ASSUME NEW n \in Vertices  PROVE new_ids'[n] = -1 <=> \E s \in Threads : n \in o_todo'[s]
      BY DEF LeftTo
    <3>1. CASE n = v
      <4>1. \A s \in Threads : v \notin o_todo'[s]
        BY <1>2, <2>1, <2>4 DEF ClaimsInv
      <4> QED BY <2>3, <2>4, <3>1, <4>1
    <3>2. CASE n # v
      <4>1. \A s \in Threads : n \in o_todo'[s] <=> n \in o_todo[s]
        BY <2>4, <3>2
      <4> QED BY <1>1, <1>2, <1>3, <2>4, <3>2, <4>1 DEF ClaimsInv, LeftTo
    <3> QED BY <3>1, <3>2
  <2>12. \A s \in Threads : randID'[s] # -1 => o_todo'[s] # {}
    BY <1>2, <1>4, <2>4 DEF ClaimsInv
  <2>13. ClaimsInv'
    BY <1>1, <1>3, <2>7, <2>9, <2>10, <2>11, <2>12 DEF ClaimsInv
  <2>14. RanksInv' /\ GivenInv' /\ BuildingInv'
    BY <1>1, <1>3 DEF RanksInv, GivenInv, BuildingInv
  <2>15. ResultInv'
    BY <1>1, <1>3 DEF ResultInv
  <2> QED BY <2>5, <2>13, <2>14, <2>15 DEF RelabelInv
<1> QED BY <1>6, <1>7

\* Before the lists are built every vertex has an id of its own.
LEMMA AllClaimed ==
  ASSUME RelabelInv, o_pc = "claim", NoneLeft  PROVE Renamed
<1>1. CASE method = "DegSort"
  BY <1>1 DEF RelabelInv, GivenInv
<1>2. CASE method # "DegSort"
  <2>1. \A v \in Vertices : new_ids[v] # -1
    BY <1>2 DEF RelabelInv, ClaimsInv, LeftTo, NoneLeft
  <2>2. new_ids \in [Vertices -> Vertices]
    BY <2>1 DEF RelabelInv, RelabelTyped
  <2> QED BY <1>2, <2>1, <2>2 DEF Renamed, RelabelInv, ClaimsInv
<1> QED BY <1>1, <1>2

\* The lists of a side are sequences of vertices.
LEMMA RelabelLists ==
  ASSUME RelabelTyped, NEW side \in Sides, NEW u \in Vertices
  PROVE  g[side][u] \in Seq(Vertices) /\ Len(g[side][u]) \in Nat
<1>1. g[side] \in [Vertices -> Seq(Vertices)]
  BY RelabelConstants DEF RelabelTyped, Sides
<1> QED BY <1>1

\* Larger degrees first, and of equal ones the larger id: the vertices are in an order.
LEMMA PrecedesOrders ==
  ASSUME RelabelTyped, NEW before,
         before = [n \in Vertices |-> {u \in Vertices : Relabel!Precedes(u, n)}]
  PROVE  IsOrder(before, Vertices)
<1>1. Relabel!SortKey \in Sides
  BY DEF Relabel!SortKey, Sides
<1>2. PICK degree : degree = [n \in Vertices |-> Relabel!Degree(Relabel!SortKey, n)]
  OBVIOUS
<1>3. \A n \in Vertices : degree[n] \in Nat
  BY <1>1, <1>2, RelabelLists DEF Relabel!Degree
<1>4. ASSUME NEW u \in Vertices, NEW n \in Vertices
      PROVE  u \in before[n] <=> degree[u] > degree[n] \/ (degree[u] = degree[n] /\ u > n)
  BY <1>2 DEF Relabel!Precedes
<1>5. Vertices \subseteq Int
  BY RelabelConstants DEF Vertices
<1>6. ASSUME NEW n \in Vertices  PROVE before[n] \in SUBSET Vertices /\ n \notin before[n]
  <2>1. ~ (degree[n] > degree[n]) /\ ~ (n > n)
    BY <1>3, <1>5
  <2> QED BY <1>4, <2>1
<1>7. ASSUME NEW u \in Vertices, NEW n \in Vertices, u # n
      PROVE  u \in before[n] \/ n \in before[u]
  BY <1>3, <1>4, <1>5, <1>7
<1>8. ASSUME NEW u \in Vertices, NEW n \in Vertices, u \in before[n], NEW w \in before[u]
      PROVE  w \in before[n]
  <2>1. w \in Vertices
    OBVIOUS
  <2> QED BY <1>3, <1>4, <1>5, <1>8, <2>1
<1> QED BY <1>6, <1>7, <1>8 DEF IsOrder

\* The sort by degree gives each vertex its place.
LEMMA RelabelSort == RelabelInv /\ Relabel!Sort => RelabelInv'
<1> SUFFICES ASSUME RelabelInv, Relabel!Sort  PROVE RelabelInv'
  OBVIOUS
<1>1. /\ o_pc = "sort" /\ new_ids' = Relabel!Ranks /\ o_pc' = "claim"
      /\ o_todo' = [t \in Threads |-> {}]
      /\ UNCHANGED <<g, method, outDegree, createBothCSRs, claimedVtxs, randID, sides, rows, result>>
  BY DEF Relabel!Sort
<1>2. RelabelTyped /\ method = "DegSort" /\ result = << >>
  BY <1>1 DEF RelabelInv, RanksInv
<1>3. PICK before : before = [n \in Vertices |-> {u \in Vertices : Relabel!Precedes(u, n)}]
  OBVIOUS
<1>4. new_ids' = Places(before, Vertices)
  <2>1. Relabel!Ranks = [n \in Vertices |-> Cardinality({u \in Vertices : Relabel!Precedes(u, n)})]
    BY RelabelCardinality, RelabelConstants DEF Relabel!Ranks
  <2>2. \A n \in Vertices : Cardinality(before[n]) = Cardinality({u \in Vertices : Relabel!Precedes(u, n)})
    BY <1>3
  <2> QED BY <1>1, <2>1, <2>2 DEF Places
<1>5. HasPlaces(new_ids', before, Vertices, M)
  BY <1>2, <1>3, <1>4, PrecedesOrders, VerticesFinite, RelabelConstants, OnePerPlace
<1>6. new_ids' \in [Vertices -> Vertices] /\ \A u, v \in Vertices : new_ids'[u] = new_ids'[v] => u = v
  BY <1>5 DEF HasPlaces, Vertices
<1>7. RelabelTyped'
  <2>1. o_todo' \in [Threads -> SUBSET Vertices]
    BY <1>1
  <2> QED BY <1>1, <1>2, <1>6, <2>1 DEF RelabelTyped
<1>8. ClaimsInv'
  <2>1. \A t \in Threads : randID[t] = -1
    BY <1>1 DEF RelabelInv, ClaimsInv
  <2>2. \A t \in Threads : o_todo'[t] = {}
    BY <1>1
  <2> QED BY <1>1, <1>2, <2>1, <2>2 DEF ClaimsInv, NoneLeft
<1>9. RanksInv'
  <2>1. ASSUME NEW u \in Vertices, NEW v \in Vertices,
               Relabel!Degree(Relabel!SortKey, u) > Relabel!Degree(Relabel!SortKey, v)
        PROVE  new_ids'[u] < new_ids'[v]
    <3>1. u \in before[v]
      BY <1>3, <2>1 DEF Relabel!Precedes
    <3> QED BY <1>5, <3>1 DEF HasPlaces
  <2>2. /\ \A u : Relabel!Degree(Relabel!SortKey, u)' = Relabel!Degree(Relabel!SortKey, u)
        /\ o_pc' # "sort"
    BY <1>1 DEF Relabel!Degree, Relabel!SortKey
  <2> QED BY <2>1, <2>2 DEF RanksInv
<1>10. GivenInv'
  BY <1>6 DEF GivenInv, Renamed
<1>11. BuildingInv' /\ ResultInv'
  BY <1>1, <1>2 DEF BuildingInv, ResultInv
<1> QED BY <1>7, <1>8, <1>9, <1>10, <1>11 DEF RelabelInv

\* The arrays of a kind of list, empty.
LEMMA RelabelStart == RelabelInv /\ Relabel!Start => RelabelInv'
<1> SUFFICES ASSUME RelabelInv, Relabel!Start  PROVE RelabelInv'
  OBVIOUS
<1>1. /\ o_pc = "claim" /\ sides # << >> /\ \A t \in Threads : o_todo[t] = {}
      /\ o_pc' = "rows"
      /\ UNCHANGED <<g, method, outDegree, createBothCSRs, new_ids, claimedVtxs, randID, sides, result>>
  BY DEF Relabel!Start
<1>2. RelabelTyped /\ ClaimsInv /\ Renamed
  BY <1>1, AllClaimed DEF RelabelInv, NoneLeft
<1>3. PICK side \in Sides : side = Head(sides)
  BY <1>1, <1>2 DEF RelabelTyped
<1>4. PICK places : places = PrefixSum(Relabel!DegreesFor(side), M)
  OBVIOUS
<1>5. rows' = [side |-> side, index |-> places, offsets |-> places,
               neighs |-> [i \in 0 .. (places[M] - 1) |-> -1]]
  BY <1>3, <1>4, RelabelPrefixSum, RelabelConstants DEF Relabel!Start, Relabel!EmptyRows
<1>6. \/ ~ (result = << >> \/ createBothCSRs) /\ o_todo' = o_todo
      \/ o_todo' = [t \in Threads |-> Relabel!Slice(t, NumThreads)]
  BY DEF Relabel!Start, NumThreads
<1>7. /\ o_todo' \in [Threads -> SUBSET Vertices]
      /\ \A s, t \in Threads : \A v \in Vertices : v \in o_todo'[s] /\ v \in o_todo'[t] => s = t
      /\ result = << >> \/ createBothCSRs => \A u \in Vertices : \E t \in Threads : u \in o_todo'[t]
  <2>1. CASE ~ (result = << >> \/ createBothCSRs) /\ o_todo' = o_todo
    BY <1>1, <1>2, <2>1 DEF RelabelTyped
  <2>2. CASE o_todo' = [t \in Threads |-> Relabel!Slice(t, NumThreads)]
    <3>1. \A t \in Threads : o_todo'[t] = Relabel!Slice(t, NumThreads)
      BY <2>2
    <3>2. o_todo' \in [Threads -> SUBSET Vertices]
      BY <2>2, SlicesAreVertices
    <3>3. ASSUME NEW v \in Vertices
          PROVE  /\ \E t \in Threads : v \in o_todo'[t]
                 /\ \A s, t \in Threads : v \in o_todo'[s] /\ v \in o_todo'[t] => s = t
      <4>1. /\ \E t \in Threads : v \in Relabel!Slice(t, NumThreads)
            /\ \A s, t : v \in Relabel!Slice(s, NumThreads) /\ v \in Relabel!Slice(t, NumThreads) => s = t
        BY ThreadNumbers, OneSlice
      <4> QED BY <3>1, <4>1
    <3> QED BY <3>2, <3>3
  <2> QED BY <1>6, <2>1, <2>2
<1>8. RelabelTyped'
  BY <1>1, <1>2, <1>7 DEF RelabelTyped
<1>9. ClaimsInv'
  <2>1. \A t \in Threads : randID[t] = -1
    BY <1>1, <1>2 DEF ClaimsInv
  <2> QED BY <1>1, <1>2, <1>7, <2>1 DEF ClaimsInv
<1>10. RanksInv' /\ ResultInv'
  BY <1>1, RelabelFrame
<1>11. GivenInv'
  BY <1>1, <1>2 DEF GivenInv, Renamed
<1>12. BuildingInv'
  <2>1. DOMAIN places = 0 .. M
    BY <1>4 DEF PrefixSum
  <2>2. /\ rows'.side = side /\ rows'.index = places /\ rows'.offsets = places
        /\ DOMAIN rows'.neighs = 0 .. (places[M] - 1)
        /\ rows' = [side |-> rows'.side, index |-> rows'.index, offsets |-> rows'.offsets,
                    neighs |-> rows'.neighs]
    BY <1>5
  <2>3. Relabel!DegreesFor(side)' = Relabel!DegreesFor(side)
    BY <1>1 DEF Relabel!DegreesFor, Relabel!Degree
  <2>4. IndexOf(rows)'
    BY <1>4, <2>2, <2>3 DEF IndexOf
  <2>5. result = << >> \/ createBothCSRs => \A u \in Vertices : LeftTo(u)'
    BY <1>7 DEF LeftTo
  <2> QED BY <1>1, <2>1, <2>2, <2>4, <2>5 DEF BuildingInv
<1> QED BY <1>8, <1>9, <1>10, <1>11, <1>12 DEF RelabelInv

\* The array done joins the others.
LEMMA RelabelBuilt == RelabelInv /\ Relabel!Built => RelabelInv'
<1> SUFFICES ASSUME RelabelInv, Relabel!Built  PROVE RelabelInv'
  OBVIOUS
<1>1. /\ o_pc = "rows" /\ \A t \in Threads : o_todo[t] = {}
      /\ result' = Append(result, rows) /\ sides' = Tail(sides)
      /\ o_pc' \in {"claim", "done"}
      /\ UNCHANGED <<g, method, outDegree, createBothCSRs, new_ids, claimedVtxs, o_todo, randID, rows>>
  BY DEF Relabel!Built
<1>2. RelabelTyped /\ ClaimsInv /\ Renamed /\ BuildingInv /\ ResultInv
  BY <1>1 DEF RelabelInv, GivenInv
<1>3. sides # << >> /\ IndexOf(rows)
      /\ (result = << >> \/ createBothCSRs => \A u \in Vertices : HasRow(rows, u))
  BY <1>1, <1>2 DEF BuildingInv, LeftTo
<1>4. PICK S : result \in Seq(S)
  BY <1>2 DEF RelabelTyped
<1>5. PICK n \in Nat : n = Len(result)
  BY <1>4
<1>6. /\ Len(result') = n + 1 /\ result'[n + 1] = rows
      /\ \A k \in 1 .. n : result'[k] = result[k]
      /\ n = 0 => result = << >>
  BY <1>1, <1>4, <1>5
<1>7. RelabelTyped'
  <2>1. \E T : result' \in Seq(T)
    <3>1. PICK T : T = S \union {rows}
      OBVIOUS
    <3>2. result \in Seq(T) /\ rows \in T
      BY <1>4, <3>1
    <3> QED BY <1>1, <3>2
  <2>2. sides' \in Seq(Sides)
    BY <1>1, <1>2, <1>3 DEF RelabelTyped
  <2> QED BY <1>1, <1>2, <2>1, <2>2 DEF RelabelTyped
<1>8. ClaimsInv'
  <2>1. \A t \in Threads : randID[t] = -1
    BY <1>1, <1>2 DEF ClaimsInv
  <2>2. \A v \in Vertices : new_ids[v] # -1
    BY <1>2 DEF Renamed, Vertices
  <2>3. \A v \in Vertices : ~ LeftTo(v)'
    BY <1>1 DEF LeftTo
  <2>4. NoneLeft'
    BY <1>1 DEF NoneLeft
  <2> QED BY <1>1, <1>2, <2>1, <2>2, <2>3, <2>4 DEF ClaimsInv
<1>9. RanksInv'
  <2>1. /\ \A u : Relabel!Degree(Relabel!SortKey, u)' = Relabel!Degree(Relabel!SortKey, u)
        /\ o_pc' # "sort" /\ RanksInv
    BY <1>1 DEF Relabel!Degree, Relabel!SortKey, RelabelInv
  <2> QED BY <1>1, <2>1 DEF RanksInv
<1>10. GivenInv' /\ BuildingInv'
  BY <1>1, <1>2 DEF GivenInv, BuildingInv, Renamed
<1>11. ResultInv'
  <2>1. ASSUME NEW a
        PROVE  /\ IndexOf(a) => a.side \in Sides /\ a.index = PrefixSum(Relabel!DegreesFor(a.side)', M)
               /\ \A u : HasRow(a, u) => HasRow(a, u)'
    BY <1>1 DEF IndexOf, HasRow, Relabel!DegreesFor, Relabel!Degree
  <2>2. ASSUME NEW k \in 1 .. (n + 1)
        PROVE  /\ IndexOf(result[k])'
               /\ k = 1 \/ createBothCSRs => \A u \in Vertices : HasRow(result[k], u)'
    <3>1. PICK a : a = result'[k]
      OBVIOUS
    <3>2. IndexOf(a) /\ (k = 1 \/ createBothCSRs => \A u \in Vertices : HasRow(a, u))
      <4>1. CASE k = n + 1
        BY <1>3, <1>5, <1>6, <3>1, <4>1
      <4>2. CASE k # n + 1
        <5>1. k \in 1 .. n /\ a = result[k]
          BY <1>5, <1>6, <3>1, <4>2
        <5> QED BY <1>2, <1>5, <5>1 DEF ResultInv
      <4> QED BY <4>1, <4>2
    <3>3. IndexOf(result[k])'
      <4>1. PICK side \in Sides : side = a.side /\ a.index = PrefixSum(Relabel!DegreesFor(side)', M)
        BY <2>1, <3>2
      <4>2. result'[k].side = side /\ result'[k].index = PrefixSum(Relabel!DegreesFor(side)', M)
        BY <3>1, <4>1
      <4> QED BY <4>2 DEF IndexOf
    <3>4. ASSUME k = 1 \/ createBothCSRs, NEW u \in Vertices  PROVE HasRow(result[k], u)'
      <4>1. HasRow(a, u)'
        BY <2>1, <3>2, <3>4
      <4> QED BY <3>1, <4>1 DEF HasRow
    <3> QED BY <3>3, <3>4
  <2> QED BY <1>1, <1>6, <2>2 DEF ResultInv
<1> QED BY <1>7, <1>8, <1>9, <1>10, <1>11 DEF RelabelInv

\* The cells of a row are written, and sorted where they are.
LEMMA RowFilled ==
  ASSUME RelabelTyped, Renamed, NEW a, IndexOf(a), DOMAIN a.neighs = 0 .. (a.index[M] - 1),
         NEW u \in Vertices, NEW id \in Vertices, id = new_ids[u],
         NEW filled, filled = Written(a.neighs, a.index[id], IdsUnder(new_ids, g[a.side][u])),
         NEW row, row = SortedIds(Row([offsets |-> a.index, neighs |-> filled], id)),
         NEW new, new = Written(filled, a.index[id], row)
  PROVE  /\ row = SortedIds(IdsUnder(new_ids, g[a.side][u]))
         /\ DiffersInRow([offsets |-> a.index, neighs |-> new],
                         [offsets |-> a.index, neighs |-> a.neighs], id, row, M)
<1>1. PICK side \in Sides : side = a.side
  BY DEF IndexOf
<1>2. PICK list \in Seq(Vertices) : list = g[side][u]
  BY <1>1, RelabelLists
<1>3. PICK places : places = a.index
  OBVIOUS
<1>4. Growing(places, M) /\ Len(list) = places[id + 1] - places[id]
  <2>1. \A n \in Vertices : Len(g[side][n]) \in Nat
    BY RelabelLists
  <2>2. places = PrefixSum(Reorder!NewDegrees(side), M)
    BY <1>1, <1>3, RelabelDegrees DEF IndexOf
  <2> QED BY <1>2, <2>1, <2>2, LaidOutOffsets
<1>5. PICK ids : ids = IdsUnder(new_ids, list)
  OBVIOUS
<1>6. ids \in Seq(Vertices) /\ ids \in Seq(Int) /\ Len(ids) = Len(list)
  <2>1. PICK n \in Nat : n = Len(list)
    OBVIOUS
  <2>2. \A i \in 1 .. n : new_ids[list[i]] \in Vertices
    BY <2>1 DEF Renamed
  <2>3. ids = [i \in 1 .. n |-> new_ids[list[i]]]
    BY <1>5, <2>1 DEF IdsUnder
  <2>4. ids \in [1 .. n -> Vertices] /\ ids \in [1 .. n -> Int]
    BY <2>2, <2>3, RelabelConstants DEF Vertices
  <2> QED BY <2>1, <2>4
<1>7. PICK before, during, after :
        /\ before = [offsets |-> places, neighs |-> a.neighs]
        /\ during = [offsets |-> places, neighs |-> filled]
        /\ after = [offsets |-> places, neighs |-> new]
  OBVIOUS
<1>8. /\ before.offsets = places /\ before.neighs = a.neighs /\ during.offsets = places
      /\ during.neighs = filled /\ after.offsets = places /\ after.neighs = new
      /\ DOMAIN before.neighs = 0 .. (places[M] - 1) /\ M \in Nat /\ id \in 0 .. (M - 1)
  BY <1>3, <1>7, RelabelConstants DEF Vertices
<1>9. DiffersInRow(during, before, id, ids, M)
  <2>1. filled = Written(a.neighs, places[id], ids)
    BY <1>1, <1>2, <1>3, <1>5
  <2> QED BY <1>4, <1>6, <1>8, <2>1, RowWritten
<1>10. row = SortedIds(ids)
  BY <1>3, <1>7, <1>9 DEF DiffersInRow
<1>11. row \in Seq(Int) /\ Len(row) = Len(ids)
  BY <1>6, <1>10, SortedIdsFacts
<1>12. DiffersInRow(after, during, id, row, M)
  <2>1. DOMAIN during.neighs = 0 .. (places[M] - 1)
    BY <1>8, <1>9 DEF DiffersInRow
  <2>2. new = Written(filled, places[id], row)
    BY <1>3
  <2> QED BY <1>4, <1>6, <1>8, <1>11, <2>1, <2>2, RowWritten
<1>13. DiffersInRow(after, before, id, row, M)
  BY <1>9, <1>12 DEF DiffersInRow
<1> QED BY <1>1, <1>2, <1>3, <1>5, <1>7, <1>10, <1>13

\* A thread fills the row of the vertex it is at, in cells of no other vertex.
LEMMA RelabelBuildRow == ASSUME RelabelInv, NEW t \in Threads, Relabel!BuildRow(t)  PROVE RelabelInv'
<1>1. /\ o_pc = "rows" /\ o_todo[t] # {} /\ rows' = Relabel!WithRow(Relabel!Current(t))
      /\ o_todo' = [o_todo EXCEPT ![t] = o_todo[t] \ {Relabel!Current(t)}]
      /\ UNCHANGED <<g, method, outDegree, createBothCSRs, new_ids, claimedVtxs, randID, sides, result, o_pc>>
  BY DEF Relabel!BuildRow
<1>2. RelabelTyped /\ ClaimsInv /\ Renamed /\ BuildingInv
  BY <1>1 DEF RelabelInv, GivenInv
<1>3. PICK u \in Vertices : u = Relabel!Current(t) /\ u \in o_todo[t]
  BY <1>1, <1>2, CurrentIsLeft
<1>4. PICK id \in Vertices : id = new_ids[u]
  BY <1>2 DEF Renamed
<1>5. PICK side, places, offs, cells :
        /\ side = rows.side /\ places = rows.index /\ offs = rows.offsets /\ cells = rows.neighs
        /\ rows = [side |-> side, index |-> places, offsets |-> offs, neighs |-> cells]
        /\ side \in Sides
  BY <1>1, <1>2 DEF BuildingInv, IndexOf
<1>6. /\ IndexOf(rows) /\ DOMAIN offs = 0 .. M /\ DOMAIN cells = 0 .. (places[M] - 1)
      /\ offs[id] = places[id]
      /\ \A n \in Vertices : LeftTo(n) => offs[new_ids[n]] = places[new_ids[n]]
  BY <1>1, <1>2, <1>3, <1>4, <1>5 DEF BuildingInv, LeftTo
<1>7. PICK filled, row, new :
        /\ filled = Written(cells, places[id], IdsUnder(new_ids, g[side][u]))
        /\ row = SortedIds(Row([offsets |-> places, neighs |-> filled], id))
        /\ new = Written(filled, places[id], row)
  OBVIOUS
<1>8. rows' = [rows EXCEPT !.offsets[id] = @ + Len(g[side][u]), !.neighs = new]
  <2>1. Row([offsets |-> places, neighs |-> filled], id)
          = [i \in 1 .. (places[id + 1] - places[id]) |-> filled[places[id] + i - 1]]
    BY DEF Row
  <2>2. Relabel!Written(rows.neighs, rows.offsets[id], [i \in 1 .. Len(g[side][u]) |-> new_ids[g[side][u][i]]])
          = filled
    BY <1>5, <1>6, <1>7, RelabelWritten DEF IdsUnder
  <2>3. Relabel!SortedIds([i \in 1 .. (places[id + 1] - places[id]) |-> filled[places[id] + i - 1]]) = row
    BY <1>7, <2>1, RelabelSortedIds
  <2>4. Relabel!Written(filled, places[id], row) = new
    BY <1>7, RelabelWritten
  <2> QED BY <1>1, <1>3, <1>4, <1>5, <2>2, <2>3, <2>4 DEF Relabel!WithRow
<1>9. /\ rows'.side = side /\ rows'.index = places /\ rows'.neighs = new
      /\ DOMAIN rows'.offsets = 0 .. M
      /\ \A k : k # id => rows'.offsets[k] = offs[k]
      /\ rows' = [side |-> rows'.side, index |-> rows'.index, offsets |-> rows'.offsets, neighs |-> rows'.neighs]
  <2>1. rows' = [side |-> side, index |-> places,
                 offsets |-> [offs EXCEPT ![id] = @ + Len(g[side][u])], neighs |-> new]
    BY <1>5, <1>8
  <2> QED BY <1>6, <2>1
<1>10. /\ row = SortedIds(IdsUnder(new_ids, g[side][u]))
       /\ DiffersInRow([offsets |-> places, neighs |-> new],
                       [offsets |-> places, neighs |-> cells], id, row, M)
  BY <1>2, <1>4, <1>5, <1>6, <1>7, RowFilled
<1>11. /\ o_todo' \in [Threads -> SUBSET Vertices] /\ o_todo'[t] = o_todo[t] \ {u}
       /\ \A s \in Threads : s # t => o_todo'[s] = o_todo[s]
       /\ \A s \in Threads : o_todo'[s] \subseteq o_todo[s]
  BY <1>1, <1>2, <1>3 DEF RelabelTyped
<1>12. \A n \in Vertices : LeftTo(n)' <=> LeftTo(n) /\ n # u
  <2> SUFFICES ASSUME NEW n \in Vertices
               PROVE  (\E s \in Threads : n \in o_todo'[s]) <=> (\E s \in Threads : n \in o_todo[s]) /\ n # u
    BY DEF LeftTo
  <2>1. CASE n = u
    <3>1. \A s \in Threads : u \notin o_todo'[s]
      BY <1>2, <1>3, <1>11 DEF ClaimsInv
    <3> QED BY <2>1, <3>1
  <2>2. CASE n # u
    <3>1. \A s \in Threads : n \in o_todo'[s] <=> n \in o_todo[s]
      BY <1>11, <2>2
    <3> QED BY <2>2, <3>1
  <2> QED BY <2>1, <2>2
<1>13. RelabelTyped'
  BY <1>1, <1>2, <1>11 DEF RelabelTyped
<1>14. ClaimsInv'
  <2>1. \A s \in Threads : randID[s] = -1
    BY <1>1, <1>2 DEF ClaimsInv
  <2> QED BY <1>1, <1>2, <1>11, <2>1 DEF ClaimsInv
<1>15. RanksInv' /\ ResultInv' /\ GivenInv'
  BY <1>1, RelabelFrame DEF RelabelInv, GivenInv
<1>16. BuildingInv'
  <2>1. IndexOf(rows)'
    <3>1. Relabel!DegreesFor(side)' = Relabel!DegreesFor(side)
      BY <1>1 DEF Relabel!DegreesFor, Relabel!Degree
    <3>2. places = PrefixSum(Relabel!DegreesFor(side), M)
      BY <1>5, <1>6 DEF IndexOf
    <3>3. rows'.side = side /\ rows'.index = PrefixSum(Relabel!DegreesFor(side)', M)
      BY <1>9, <3>1, <3>2
    <3> QED BY <1>5, <3>3 DEF IndexOf
  <2>2. DOMAIN new = 0 .. (places[M] - 1)
    BY <1>10 DEF DiffersInRow
  <2>3. ASSUME NEW n \in Vertices, LeftTo(n)'  PROVE rows'.offsets[new_ids[n]] = places[new_ids[n]]
    <3>1. LeftTo(n) /\ new_ids[n] # id
      BY <1>2, <1>4, <1>12, <2>3 DEF Renamed
    <3> QED BY <1>6, <1>9, <3>1
  <2>4. ASSUME result = << >> \/ createBothCSRs, NEW n \in Vertices, ~ LeftTo(n)'
        PROVE  HasRow(rows, n)'
    <3>1. Row([offsets |-> places, neighs |-> new], new_ids[n]) = SortedIds(IdsUnder(new_ids, g[side][n]))
      <4>1. CASE n = u
        BY <1>4, <1>10, <4>1 DEF DiffersInRow
      <4>2. CASE n # u
        <5>1. ~ LeftTo(n)
          BY <1>12, <2>4, <4>2
        <5>2. HasRow(rows, n)
          BY <1>1, <1>2, <2>4, <5>1 DEF BuildingInv
        <5>3. Row([offsets |-> places, neighs |-> cells], new_ids[n]) = SortedIds(IdsUnder(new_ids, g[side][n]))
          BY <1>5, <5>2 DEF HasRow
        <5>4. new_ids[n] # id /\ new_ids[n] \in 0 .. (M - 1)
          BY <1>2, <1>4, <4>2 DEF Renamed, Vertices
        <5> QED BY <1>10, <5>3, <5>4 DEF DiffersInRow
      <4> QED BY <4>1, <4>2
    <3> QED BY <1>1, <1>9, <3>1 DEF HasRow
  <2> QED BY <1>1, <1>2, <1>9, <2>1, <2>2, <2>3, <2>4 DEF BuildingInv
<1> QED BY <1>13, <1>14, <1>15, <1>16 DEF RelabelInv

LEMMA RelabelStutter ==
  /\ RelabelInv
  /\ UNCHANGED <<g, method, outDegree, createBothCSRs, new_ids, claimedVtxs, o_todo, randID, sides,
                 rows, result, o_pc>>
  => RelabelInv'
<1> SUFFICES ASSUME RelabelInv,
                    UNCHANGED <<g, method, outDegree, createBothCSRs, new_ids, claimedVtxs, o_todo, randID,
                                sides, rows, result, o_pc>>
             PROVE  RelabelInv'
  OBVIOUS
<1>1. RelabelTyped'
  BY DEF RelabelInv, RelabelTyped
<1>2. ClaimsInv'
  BY DEF RelabelInv, ClaimsInv, LeftTo, NoneLeft
<1>3. RanksInv' /\ ResultInv' /\ GivenInv'
  BY RelabelFrame DEF RelabelInv, GivenInv
<1>4. BuildingInv'
  <2>1. IndexOf(rows) => IndexOf(rows)'
    BY DEF IndexOf, Relabel!DegreesFor, Relabel!Degree
  <2>2. \A u : HasRow(rows, u) => HasRow(rows, u)'
    BY DEF HasRow
  <2> QED BY <2>1, <2>2 DEF RelabelInv, BuildingInv, LeftTo
<1> QED BY <1>1, <1>2, <1>3, <1>4 DEF RelabelInv

\* Every step of the relabellings keeps the invariant.
LEMMA RelabelNext == RelabelInv /\ Relabel!Next => RelabelInv'
<1> SUFFICES ASSUME RelabelInv, Relabel!Next  PROVE RelabelInv'
  OBVIOUS
<1>1. CASE Relabel!Finished
  BY <1>1, RelabelStutter DEF Relabel!Finished, Relabel!vars
<1>2. CASE Relabel!Sort \/ Relabel!Start \/ Relabel!Built
  BY <1>2, RelabelSort, RelabelStart, RelabelBuilt
<1>3. CASE \E t \in Threads : Relabel!Draw(t) \/ Relabel!Claim(t) \/ Relabel!BuildRow(t)
  BY <1>3, RelabelDraw, RelabelClaim, RelabelBuildRow
<1> QED BY <1>1, <1>2, <1>3 DEF Relabel!Next

\* The k-th kind of list done: a row that is the list of u, in order, or has its length.
IsRowOf(row, side, u, k) ==
  /\ Len(row) = Relabel!Degree(side, u)
  /\ k = 1 \/ createBothCSRs =>
       /\ \A i \in 1 .. (Len(row) - 1) : row[i] <= row[i + 1]
       /\ \A v \in Vertices : Relabel!Count(row, new_ids[v]) = Relabel!Count(g[side][u], v)

\* What the invariant says of a graph under a random order or an order by degree.
LEMMA RelabelSafe == RelabelInv => Relabel!ClaimedOnce /\ Relabel!NewGraph
<1> SUFFICES ASSUME RelabelInv  PROVE Relabel!ClaimedOnce /\ Relabel!NewGraph
  OBVIOUS
<1>1. RelabelTyped /\ ClaimsInv /\ RanksInv /\ GivenInv /\ ResultInv
  BY DEF RelabelInv
<1>2. Relabel!ClaimedOnce
  <2> SUFFICES ASSUME method # "DegSort", NEW given, given = {v \in Vertices : new_ids[v] # -1}
               PROVE  /\ \A u, v \in given : new_ids[u] = new_ids[v] => u = v
                      /\ {new_ids[v] : v \in given} = {id \in Vertices : claimedVtxs[id] = 1}
    BY RelabelConstants DEF Relabel!ClaimedOnce
  <2>1. \A u, v \in given : new_ids[u] = new_ids[v] => u = v
    BY <1>1 DEF ClaimsInv
  <2>2. \A v \in given : new_ids[v] \in Vertices
    BY <1>1 DEF RelabelTyped
  <2>3. \A id \in Vertices : claimedVtxs[id] = 1 <=> \E v \in given : new_ids[v] = id
    <3>1. -1 \notin Vertices
      BY DEF Vertices
    <3> QED BY <1>1, <3>1 DEF ClaimsInv
  <2> QED BY <2>1, <2>2, <2>3
<1>3. ASSUME o_pc \in {"rows", "done"}  PROVE {new_ids[v] : v \in Vertices} = Vertices
  BY <1>1, <1>3, VerticesFinite, InjectiveIsOnto DEF GivenInv, Renamed
<1>4. ASSUME o_pc = "done", method = "DegSort", NEW u \in Vertices, NEW v \in Vertices,
             Relabel!Degree(Relabel!SortKey, u) > Relabel!Degree(Relabel!SortKey, v)
      PROVE  new_ids[u] < new_ids[v]
  BY <1>1, <1>4 DEF RanksInv
<1>5. ASSUME o_pc = "done", NEW k \in 1 .. Len(result), NEW u \in Vertices,
             NEW a, a = result[k], NEW id, id = new_ids[u],
             NEW row, row = [i \in 1 .. (a.index[id + 1] - a.index[id]) |-> a.neighs[a.index[id] + i - 1]]
      PROVE  IsRowOf(row, a.side, u, k)
  <2>1. Renamed /\ IndexOf(a) /\ (k = 1 \/ createBothCSRs => HasRow(a, u))
    BY <1>1, <1>5 DEF GivenInv, ResultInv
  <2>2. PICK side \in Sides : side = a.side
    BY <2>1 DEF IndexOf
  <2>3. PICK list \in Seq(Vertices) : list = g[side][u]
    BY <1>1, RelabelLists
  <2>4. Len(list) = a.index[id + 1] - a.index[id]
    <3>1. \A n \in Vertices : Len(g[side][n]) \in Nat
      BY <1>1, RelabelLists
    <3>2. a.index = PrefixSum(Reorder!NewDegrees(side), M)
      BY <2>1, <2>2, RelabelDegrees DEF IndexOf
    <3> QED BY <1>5, <2>1, <2>3, <3>1, <3>2, LaidOutOffsets
  <2>5. Len(row) = Len(list)
    <3>1. PICK n \in Nat : n = Len(list)
      OBVIOUS
    <3>2. DOMAIN row = 1 .. n /\ row = [i \in 1 .. n |-> row[i]]
      BY <1>5, <2>4, <3>1
    <3> QED BY <3>1, <3>2
  <2>6. ASSUME k = 1 \/ createBothCSRs  PROVE IsRenamedIds(row, list, Vertices, new_ids)
    <3>1. row = SortedIds(IdsUnder(new_ids, list))
      BY <1>5, <2>1, <2>2, <2>3, <2>6 DEF HasRow, Row
    <3>2. Vertices \subseteq Int
      BY RelabelConstants DEF Vertices
    <3> QED BY <2>1, <3>1, <3>2, RenamedIds DEF Renamed
  <2> QED BY <2>2, <2>3, <2>5, <2>6, RelabelCount DEF Relabel!Degree, IsRenamedIds, IsRowOf
<1>6. ASSUME o_pc = "done", NEW k \in 1 .. Len(result), NEW u \in Vertices
      PROVE  LET r == result[k]
                 id == new_ids[u]
                 row == [i \in 1 .. (r.index[id + 1] - r.index[id]) |-> r.neighs[r.index[id] + i - 1]]
             IN  /\ Len(row) = Relabel!Degree(r.side, u)
                 /\ k = 1 \/ createBothCSRs =>
                      /\ \A i \in 1 .. (Len(row) - 1) : row[i] <= row[i + 1]
                      /\ \A v \in Vertices : Relabel!Count(row, new_ids[v]) = Relabel!Count(g[r.side][u], v)
  <2>1. PICK a, id : a = result[k] /\ id = new_ids[u]
    OBVIOUS
  <2>2. PICK row : row = [i \in 1 .. (a.index[id + 1] - a.index[id]) |-> a.neighs[a.index[id] + i - 1]]
    OBVIOUS
  <2>3. row = [i \in 1 .. (result[k].index[new_ids[u] + 1] - result[k].index[new_ids[u]]) |->
                 result[k].neighs[result[k].index[new_ids[u]] + i - 1]]
    BY <2>1, <2>2
  <2>4. IsRowOf(row, a.side, u, k)
    BY <1>5, <1>6, <2>1, <2>2
  <2> QED BY <2>1, <2>3, <2>4 DEF IsRowOf
<1>7. Relabel!NewGraph
  <2>1. Relabel!NodeID = Vertices
    BY RelabelConstants
  <2> HIDE DEF Vertices
  <2>2. o_pc \in {"rows", "done"} => {new_ids[v] : v \in Relabel!NodeID} = Relabel!NodeID
    BY <1>3, <2>1
  <2>3. o_pc = "done" /\ method = "DegSort" =>
          \A u, v \in Relabel!NodeID :
            Relabel!Degree(Relabel!SortKey, u) > Relabel!Degree(Relabel!SortKey, v) => new_ids[u] < new_ids[v]
    BY <1>4, <2>1
  <2> QED BY <1>6, <2>1, <2>2, <2>3 DEF Relabel!NewGraph
<1> QED BY <1>2, <1>7

-----------------------------------------------------------------------------
(* Relabelling, as the runs compose it with what else is built.            *)

RenamingInv == (which = "reorder" => ReorderInv) /\ (which = "relabel" => RelabelInv)

\* Either builder begins within its invariant.
LEMMA RenamingInit == MCInit => RenamingInv
  BY ReorderInit, RelabelInit DEF MCInit, RenamingInv

\* A step is one of the builder picked, whose invariant it keeps.
LEMMA RenamingNext == RenamingInv /\ [MCNext]_all => RenamingInv'
<1> SUFFICES ASSUME RenamingInv, [MCNext]_all  PROVE RenamingInv'
  OBVIOUS
<1>1. CASE UNCHANGED which /\ Step
  <2>1. CASE which = "reorder"
    <3>1. Reorder!Next
      BY <1>1, <2>1 DEF Step
    <3> QED BY <1>1, <2>1, <3>1, ReorderNext DEF RenamingInv
  <2>2. CASE which = "relabel"
    <3>1. Relabel!Next
      BY <1>1, <2>2 DEF Step
    <3> QED BY <1>1, <2>2, <3>1, RelabelNext DEF RenamingInv
  <2>3. CASE which # "reorder" /\ which # "relabel"
    BY <1>1, <2>3 DEF RenamingInv
  <2> QED BY <2>1, <2>2, <2>3
<1>2. CASE UNCHANGED all
  BY <1>2, ReorderStutter, RelabelStutter DEF RenamingInv, all
<1> QED BY <1>1, <1>2 DEF MCNext

\* Through every renaming of the vertices, the names are handed out once and the lists of
\* the graph under construction are those of the graph there was (builder.h's
\* RelabelByMapping, GenerateRandomMapping_v2 and RelabelByMapping_v2).
THEOREM RenamingInvariance == MCSpec => []RenamingInv
  BY RenamingInit, RenamingNext, PTL DEF MCSpec

\* A relabelled graph is the graph given under other names, however the threads took the
\* left-over ids or claimed random ones, and org_ids leads back to the vertices of the file.
THEOREM SameGraphHolds == MCSpec => []SameGraph
<1>1. RenamingInv => SameGraph
  BY ReorderSafe, RelabelSafe DEF RenamingInv, SameGraph
<1> QED BY <1>1, RenamingInvariance, PTL
=============================================================================
