------------------------- MODULE RandomOrder_proofs -------------------------
(***************************************************************************)
(* Proofs about RandomOrder, for every number of vertices and threads: the *)
(* ids the threads claim at the same time are a permutation, and comparing *)
(* the sorted copy with 0, 1, ... tells permutations from everything else. *)
(***************************************************************************)
EXTENDS RandomOrder, CommonFacts

Image == {new_ids[v] : v \in NodeID}

\* A vertex waits, is being mapped, or has an id; an id has one owner.
Waiting(v) == v \in todo \/ \E t \in Threads : th[t].v = v

ClaimInv ==
  phase = "map" =>
    /\ todo \subseteq NodeID
    /\ claimedVtxs = Image \ {None}
    /\ \A v, w \in NodeID : new_ids[v] = new_ids[w] => v = w \/ new_ids[v] = None
    /\ \A v \in NodeID : new_ids[v] = None <=> Waiting(v)
    /\ \A t \in Threads : th[t].v \notin todo
    /\ \A s, t \in Threads : th[s].v = th[t].v => s = t \/ th[s].v = None

IdleInv == phase # "map" \/ kind # "Random_v2" => \A t \in Threads : th[t] = Idle

\* Only what came from a file can be wrong when it is verified.
ComputedInv == phase # "map" => kind = "Map" \/ Image = NodeID

\* count tells whether a cell looked at was wrong.
CompareInv ==
  phase \in {"compare", "valid", "aborted"} =>
    /\ hist = SortedCopy
    /\ todo \subseteq NodeID
    /\ count \in Nat
    /\ count # 0 <=> \E i \in NodeID \ todo : hist[i] # i

VerdictInv ==
  /\ phase = "valid" => todo = {} /\ count = 0
  /\ phase = "aborted" => todo = {} /\ count # 0

Inv ==
  /\ phase \in {"map", "verify", "compare", "valid", "aborted"}
  /\ new_ids \in [NodeID -> NodeID \union {None}]
  /\ th \in [Threads -> [v : NodeID \union {None}, randID : NodeID \union {None}]]
  /\ \A t \in Threads : th[t].v = None => th[t].randID = None
  /\ ClaimInv
  /\ IdleInv
  /\ ComputedInv
  /\ CompareInv
  /\ VerdictInv

-----------------------------------------------------------------------------
(* The sorted copy. *)

LEMMA Vertices == IsFiniteSet(NodeID) /\ Cardinality(NodeID) = N
  BY FS_Interval, NAssumption DEF NodeID

\* The number of vertices with an id up to x.
UpTo(x) == {v \in NodeID : new_ids[v] <= x}

LEMMA UpToSize ==
  ASSUME NEW x
  PROVE  IsFiniteSet(UpTo(x)) /\ Cardinality(UpTo(x)) \in Nat
  BY Vertices, FS_Subset, FS_CardinalityType DEF UpTo

\* The i-th of the sorted ids, as SortedCopy chooses it, is an id.
LEMMA SortedExists ==
  ASSUME new_ids \in [NodeID -> NodeID \union {None}], NEW i \in NodeID
  PROVE  \E id \in Image : /\ Cardinality({v \in NodeID : new_ids[v] < id}) <= i
                            /\ Cardinality({v \in NodeID : new_ids[v] <= id}) > i
<1> DEFINE S == {m \in Nat : Cardinality(UpTo(m - 1)) > i}
<1>1. N \in S
  <2>1. UpTo(N - 1) = NodeID
    BY NAssumption DEF UpTo, NodeID, None
  <2> QED BY <2>1, Vertices, NAssumption DEF NodeID
<1>2. PICK m \in S : \A p \in S : m <= p
  <2>1. S \in SUBSET Nat /\ S # {}
    BY <1>1
  <2> HIDE DEF S
  <2> QED BY <2>1, LeastNumber
<1> DEFINE id == m - 1
<1>3. Cardinality(UpTo(id)) > i /\ m \in Nat /\ i \in Nat
  BY <1>2 DEF NodeID
<1>4. Cardinality(UpTo(id - 1)) <= i
  <2>1. CASE m = 0
    <3>1. UpTo(id - 1) = {}
      BY <2>1 DEF UpTo, NodeID, None
    <3> QED BY <1>3, <3>1, FS_EmptySet
  <2>2. CASE m # 0
    <3>1. m - 1 \in Nat /\ ~ (m <= m - 1)
      BY <1>3, <2>2
    <3>2. m - 1 \notin S
      BY <1>2, <3>1
    <3>3. ~ (Cardinality(UpTo(m - 1 - 1)) > i)
      BY <3>1, <3>2
    <3>4. Cardinality(UpTo(m - 1 - 1)) \in Nat
      BY UpToSize
    <3> QED BY <1>3, <3>3, <3>4
  <2> QED BY <2>1, <2>2
<1>5. {v \in NodeID : new_ids[v] < id} = UpTo(id - 1)
  <2>1. id \in Int
    BY <1>3
  <2> HIDE DEF id
  <2>2. \A v \in NodeID : new_ids[v] \in Int
    BY DEF NodeID, None
  <2>3. \A x \in Int : x < id <=> x <= id - 1
    BY <2>1
  <2> QED BY <2>2, <2>3 DEF UpTo
<1>6. id \in Image
  <2> SUFFICES ASSUME id \notin Image  PROVE FALSE
    OBVIOUS
  <2>1. \A v \in NodeID : new_ids[v] \in Int /\ new_ids[v] # id
    BY DEF NodeID, None, Image
  <2>2. UpTo(id) = UpTo(id - 1)
    <3>1. id \in Int
      BY <1>3
    <3> HIDE DEF id
    <3>2. \A x \in Int : x # id => (x <= id <=> x <= id - 1)
      BY <3>1
    <3> QED BY <2>1, <3>2 DEF UpTo
  <2>3. Cardinality(UpTo(id)) \in Nat
    BY UpToSize
  <2> HIDE DEF id
  <2> QED BY <1>3, <1>4, <2>2, <2>3
<1> HIDE DEF id
<1>7. {v \in NodeID : new_ids[v] <= id} = UpTo(id)
  BY DEF UpTo
<1> QED BY <1>3, <1>4, <1>5, <1>6, <1>7

\* Every sorted id is an id.
LEMMA SortedIsId ==
  ASSUME new_ids \in [NodeID -> NodeID \union {None}], NEW i \in NodeID
  PROVE  /\ SortedCopy[i] \in Image
         /\ Cardinality({v \in NodeID : new_ids[v] < SortedCopy[i]}) <= i
         /\ Cardinality({v \in NodeID : new_ids[v] <= SortedCopy[i]}) > i
<1> DEFINE P(id) == /\ Cardinality({v \in NodeID : new_ids[v] < id}) <= i
                    /\ Cardinality({v \in NodeID : new_ids[v] <= id}) > i
<1>1. \E id \in Image : P(id)
  BY SortedExists
<1>2. SortedCopy[i] = CHOOSE id \in Image : P(id)
  BY DEF SortedCopy, Image
<1> HIDE DEF P
<1>3. SortedCopy[i] \in Image /\ P(SortedCopy[i])
  BY <1>1, <1>2
<1> QED BY <1>3 DEF P

\* If the sorted ids are 0, 1, ..., the ids are all vertices.
LEMMA SortedOnlyIfPermutation ==
  ASSUME new_ids \in [NodeID -> NodeID \union {None}],
         \A i \in NodeID : SortedCopy[i] = i
  PROVE  Image = NodeID
<1>1. NodeID \subseteq Image
  BY SortedIsId
<1>2. IsFiniteSet(Image) /\ Cardinality(Image) <= Cardinality(NodeID)
  BY Vertices, ImageIsSmaller DEF Image
<1>3. Cardinality(NodeID) <= Cardinality(Image)
  BY <1>1, <1>2, FS_Subset
<1>4. Cardinality(Image) = Cardinality(NodeID)
  BY <1>2, <1>3, Vertices, FS_CardinalityType
<1> QED BY <1>1, <1>2, <1>4, FS_Subset

\* If the ids are all vertices, the sorted ids are 0, 1, ...
LEMMA PermutationIsSorted ==
  ASSUME new_ids \in [NodeID -> NodeID \union {None}], Image = NodeID, NEW i \in NodeID
  PROVE  SortedCopy[i] = i
<1>1. new_ids \in [NodeID -> NodeID] /\ \A v \in NodeID : new_ids[v] \in NodeID
  BY DEF Image
<1>2. \A v, w \in NodeID : new_ids[v] = new_ids[w] => v = w
  BY <1>1, Vertices, OntoIsInjective DEF Image
<1>3. ASSUME NEW x \in (NodeID \union {-1})  PROVE Cardinality(UpTo(x)) = x + 1
  <2> DEFINE f == [v \in UpTo(x) |-> new_ids[v]]
  <2>1. f \in [UpTo(x) -> 0 .. x]
    BY <1>1 DEF UpTo, NodeID
  <2>2. \A v, w \in UpTo(x) : f[v] = f[w] => v = w
    BY <1>2 DEF UpTo
  <2>3. \A y \in 0 .. x : \E v \in UpTo(x) : f[v] = y
    <3> TAKE y \in 0 .. x
    <3>1. y \in NodeID
      BY NAssumption DEF NodeID
    <3>2. PICK v \in NodeID : new_ids[v] = y
      BY <3>1 DEF Image
    <3> QED BY <3>2 DEF UpTo
  <2> HIDE DEF f
  <2>4. Cardinality(0 .. x) = Cardinality(UpTo(x))
    BY <2>1, <2>2, <2>3, UpToSize, SameSize
  <2>5. Cardinality(0 .. x) = x + 1
    BY FS_Interval DEF NodeID
  <2> QED BY <2>4, <2>5
<1> DEFINE id == SortedCopy[i]
<1>4. id \in NodeID
  BY SortedIsId
<1>5. {v \in NodeID : new_ids[v] < id} = UpTo(id - 1)
  <2> HIDE DEF id
  <2> QED BY <1>1, <1>4 DEF UpTo, NodeID
<1>6. Cardinality(UpTo(id - 1)) = id /\ Cardinality(UpTo(id)) = id + 1
  <2> HIDE DEF id
  <2>1. id - 1 \in NodeID \union {-1} /\ id - 1 + 1 = id
    BY <1>4, NAssumption DEF NodeID
  <2> QED BY <1>3, <1>4, <2>1
<1>7. Cardinality(UpTo(id - 1)) <= i /\ Cardinality(UpTo(id)) > i
  BY <1>5, SortedIsId DEF UpTo
<1>8. id <= i /\ id + 1 > i
  <2> HIDE DEF id
  <2> QED BY <1>6, <1>7
<1> HIDE DEF id
<1>9. id = i
  BY <1>4, <1>8 DEF NodeID
<1> QED BY <1>9 DEF id

-----------------------------------------------------------------------------
(* The steps. *)

LEMMA InitInv == Init => Inv
<1> SUFFICES ASSUME Init  PROVE Inv
  OBVIOUS
<1>1. None \notin NodeID
  BY DEF NodeID, None
<1>2. Image \subseteq {None}
  BY DEF Init, Image
<1>3. ClaimInv
  BY <1>1, <1>2 DEF Init, ClaimInv, Waiting, Idle
<1> QED BY <1>3 DEF Init, Inv, IdleInv, ComputedInv, CompareInv, VerdictInv, Idle

\* The vertices draw and claim their ids.
LEMMA ClaimSteps ==
  ASSUME Inv, NEW t \in Threads, TakeVertex(t) \/ Draw(t) \/ Claim(t)
  PROVE  Inv'
<1> USE DEF Image, Waiting, Idle
<1>0. /\ None \notin NodeID /\ phase = "map" /\ kind = "Random_v2"
      /\ new_ids \in [NodeID -> NodeID \union {None}]
      /\ th \in [Threads -> [v : NodeID \union {None}, randID : NodeID \union {None}]]
      /\ \A s \in Threads : th[s].v = None => th[s].randID = None
      /\ ClaimInv
  BY DEF Inv, NodeID, None, TakeVertex, Draw, Claim, IdleInv
<1>1. ASSUME /\ new_ids' \in [NodeID -> NodeID \union {None}]
             /\ th' \in [Threads -> [v : NodeID \union {None}, randID : NodeID \union {None}]]
             /\ \A s \in Threads : th'[s].v = None => th'[s].randID = None
             /\ ClaimInv'
             /\ phase' = phase /\ kind' = kind
      PROVE  Inv'
  BY <1>0, <1>1 DEF Inv, IdleInv, ComputedInv, CompareInv, VerdictInv
<1>2. CASE TakeVertex(t)
  <2>1. PICK v \in todo : th' = [th EXCEPT ![t].v = v] /\ todo' = todo \ {v}
    BY <1>2 DEF TakeVertex
  <2>2. th[t].v = None /\ UNCHANGED <<kind, new_ids, phase, claimedVtxs>> /\ v \in NodeID
    BY <1>0, <1>2 DEF TakeVertex, ClaimInv
  <2>3. /\ th' \in [Threads -> [v : NodeID \union {None}, randID : NodeID \union {None}]]
        /\ th'[t].v = v /\ th'[t].randID = th[t].randID
        /\ \A s \in Threads \ {t} : th'[s] = th[s]
    BY <1>0, <2>1, <2>2
  <2>4. ClaimInv'
    BY <1>0, <2>1, <2>2, <2>3 DEF ClaimInv
  <2> QED BY <1>0, <1>1, <2>2, <2>3, <2>4
<1>3. CASE Draw(t)
  <2>1. PICK id \in NodeID : th' = [th EXCEPT ![t].randID = id]
    BY <1>3 DEF Draw
  <2>2. th[t].v # None /\ UNCHANGED <<kind, new_ids, phase, claimedVtxs, todo>>
    BY <1>3 DEF Draw
  <2>3. /\ th' \in [Threads -> [v : NodeID \union {None}, randID : NodeID \union {None}]]
        /\ \A s \in Threads : th'[s].v = th[s].v
        /\ \A s \in Threads \ {t} : th'[s] = th[s]
    BY <1>0, <2>1
  <2>4. ClaimInv'
    BY <1>0, <2>2, <2>3 DEF ClaimInv
  <2> QED BY <1>0, <1>1, <2>2, <2>3, <2>4
<1>4. CASE Claim(t)
  <2> DEFINE v == th[t].v  id == th[t].randID
  <2>1. v \in NodeID /\ id \in NodeID
    BY <1>0, <1>4 DEF Claim
  <2>2. UNCHANGED <<kind, phase, todo>> /\ claimedVtxs' = claimedVtxs \union {id}
    BY <1>4 DEF Claim
  <2>3. CASE id \in claimedVtxs
    <3>1. th' = [th EXCEPT ![t].randID = None] /\ UNCHANGED new_ids
      BY <1>4, <2>3 DEF Claim, Won
    <3>2. /\ th' \in [Threads -> [v : NodeID \union {None}, randID : NodeID \union {None}]]
          /\ \A s \in Threads : th'[s].v = th[s].v
          /\ \A s \in Threads \ {t} : th'[s] = th[s]
          /\ th'[t].randID = None
      BY <1>0, <3>1
    <3>3. claimedVtxs' = claimedVtxs
      BY <2>2, <2>3
    <3>4. ClaimInv'
      BY <1>0, <2>2, <3>1, <3>2, <3>3 DEF ClaimInv
    <3> QED BY <1>0, <1>1, <2>2, <3>1, <3>2, <3>4
  <2>4. CASE id \notin claimedVtxs
    <3>1. th' = [th EXCEPT ![t] = Idle] /\ new_ids' = [new_ids EXCEPT ![v] = id]
      BY <1>4, <2>4 DEF Claim, Won
    <3>2. /\ th' \in [Threads -> [v : NodeID \union {None}, randID : NodeID \union {None}]]
          /\ th'[t] = Idle /\ \A s \in Threads \ {t} : th'[s] = th[s]
      BY <1>0, <3>1
    <3>3. /\ new_ids' \in [NodeID -> NodeID \union {None}]
          /\ new_ids'[v] = id /\ \A w \in NodeID \ {v} : new_ids'[w] = new_ids[w]
      BY <1>0, <2>1, <3>1
    <3>4. new_ids[v] = None /\ v \notin todo
      BY <1>0, <2>1 DEF ClaimInv
    <3> HIDE DEF v, id
    <3>5. \A w \in NodeID : new_ids[w] # id
      BY <1>0, <2>1, <2>4 DEF ClaimInv
    <3>6. Image' \ {None} = (Image \ {None}) \union {id}
      BY <1>0, <2>1, <3>3, <3>4
    <3>7. \A w, x \in NodeID : new_ids'[w] = new_ids'[x] => w = x \/ new_ids'[w] = None
      BY <1>0, <3>3, <3>5 DEF ClaimInv
    <3>8. \A w \in NodeID : new_ids'[w] = None <=> Waiting(w)'
      <4> TAKE w \in NodeID
      <4>1. CASE w = v
        <5>1. \A s \in Threads \ {t} : th[s].v # v
          BY <1>0, <2>1 DEF ClaimInv, v
        <5>2. v # None /\ new_ids'[v] # None
          BY <1>0, <2>1, <3>3
        <5> QED BY <2>2, <3>2, <3>4, <4>1, <5>1, <5>2
      <4>2. CASE w # v
        <5>1. w # None /\ th[t].v # w /\ th'[t].v # w
          BY <1>0, <3>2, <4>2 DEF v
        <5>2. Waiting(w)' <=> Waiting(w)
          BY <2>2, <3>2, <5>1
        <5> QED BY <1>0, <3>3, <4>2, <5>2 DEF ClaimInv
      <4> QED BY <4>1, <4>2
    <3>9. /\ \A s \in Threads : th'[s].v \notin todo'
          /\ \A s, x \in Threads : th'[s].v = th'[x].v => s = x \/ th'[s].v = None
      BY <1>0, <2>2, <3>2 DEF ClaimInv
    <3>10. ClaimInv'
      BY <1>0, <2>2, <3>6, <3>7, <3>8, <3>9 DEF ClaimInv
    <3> QED BY <1>0, <1>1, <2>2, <3>2, <3>3, <3>10
  <2> QED BY <2>3, <2>4
<1> QED BY <1>2, <1>3, <1>4

\* When nobody waits any more, every id has been claimed.
LEMMA AllClaimedStep ==
  ASSUME Inv, AllClaimed
  PROVE  Inv'
<1>0. None \notin NodeID
  BY DEF NodeID, None
<1>1. \A v \in NodeID : new_ids[v] # None
  BY <1>0 DEF Inv, AllClaimed, ClaimInv, Waiting, Idle
<1>2. new_ids \in [NodeID -> NodeID] /\ \A v, w \in NodeID : new_ids[v] = new_ids[w] => v = w
  BY <1>1 DEF Inv, AllClaimed, ClaimInv
<1>3. Image = NodeID
  BY <1>2, Vertices, InjectiveIsOnto DEF Image
<1> QED
  BY <1>3 DEF Inv, AllClaimed, ClaimInv, IdleInv, ComputedInv, CompareInv, VerdictInv, Image

\* The other mappings, computed in one step or read.
LEMMA OtherMappings ==
  ASSUME Inv, GenerateOriginalMapping \/ GenerateRandomMapping \/ LoadMapping
  PROVE  Inv'
<1>0. /\ \A t \in Threads : th[t] = Idle
      /\ UNCHANGED <<kind, th>> /\ phase' = "verify"
  BY DEF Inv, IdleInv, GenerateOriginalMapping, GenerateRandomMapping, LoadMapping
<1>1. new_ids' \in [NodeID -> NodeID \union {None}] /\ (kind' = "Map" \/ Image' = NodeID)
  <2>1. CASE GenerateOriginalMapping
    BY <2>1 DEF GenerateOriginalMapping, Image
  <2>2. CASE GenerateRandomMapping
    <3>1. PICK f \in Bijection(NodeID, NodeID) : new_ids' = f
      BY <2>2 DEF GenerateRandomMapping
    <3> QED BY <3>1, Fun_BijectionProperties DEF Image
  <2>3. CASE LoadMapping
    BY <2>3 DEF LoadMapping
  <2> QED BY <2>1, <2>2, <2>3
<1> QED
  BY <1>0, <1>1 DEF Inv, ClaimInv, IdleInv, ComputedInv, CompareInv, VerdictInv

\* VerifyMapping.
LEMMA VerifySteps ==
  ASSUME Inv, VerifyMapping \/ Verdict \/ \E i \in NodeID : Compare(i)
  PROVE  Inv'
<1>0. /\ phase # "map" /\ phase' # "map" /\ UNCHANGED <<kind, new_ids, th>>
      /\ phase' \in {"map", "verify", "compare", "valid", "aborted"}
      /\ SortedCopy' = SortedCopy /\ Image' = Image
  <2>1. /\ phase # "map" /\ UNCHANGED <<kind, new_ids, th>>
        /\ phase' \in {"compare", "valid", "aborted"}
    BY DEF VerifyMapping, Verdict, Compare
  <2> QED BY <2>1 DEF SortedCopy, Image
<1>1. CompareInv' /\ VerdictInv'
  <2>1. CASE VerifyMapping
    BY <1>0, <2>1 DEF VerifyMapping, CompareInv, VerdictInv
  <2>2. ASSUME NEW i \in NodeID, Compare(i)  PROVE CompareInv' /\ VerdictInv'
    <3>1. /\ phase = "compare" /\ phase' = "compare" /\ hist' = hist
          /\ hist = SortedCopy /\ todo \subseteq NodeID /\ count \in Nat
          /\ count # 0 <=> \E j \in NodeID \ todo : hist[j] # j
          /\ count' = IF hist[i] # i THEN count + 1 ELSE count
          /\ i \in todo /\ todo' = todo \ {i}
      BY <2>2 DEF Compare, CompareInv, Inv
    <3>2. NodeID \ todo' = (NodeID \ todo) \union {i}
      BY <3>1
    <3>3. count' \in Nat /\ (count' # 0 <=> \E j \in NodeID \ todo' : hist[j] # j)
      BY <3>1, <3>2
    <3> QED BY <1>0, <3>1, <3>3 DEF CompareInv, VerdictInv
  <2>3. CASE Verdict
    BY <1>0, <2>3 DEF Verdict, CompareInv, VerdictInv, Inv
  <2> QED BY <2>1, <2>2, <2>3
<1> QED BY <1>0, <1>1 DEF Inv, ClaimInv, IdleInv, ComputedInv

LEMMA StepInv == Inv /\ [Next]_vars => Inv'
<1> SUFFICES ASSUME Inv, [Next]_vars  PROVE Inv'
  OBVIOUS
<1>1. CASE UNCHANGED vars
  <2>1. SortedCopy' = SortedCopy /\ Image' = Image
    BY <1>1 DEF vars, SortedCopy, Image
  <2> QED
    BY <1>1, <2>1
    DEF vars, Inv, ClaimInv, Waiting, IdleInv, ComputedInv, CompareInv, VerdictInv
<1> QED
  BY <1>1, ClaimSteps, AllClaimedStep, OtherMappings, VerifySteps DEF Next, Finished

\* The inductive invariant holds in every state.
THEOREM Invariance == Spec => []Inv
  BY InitInv, StepInv, PTL DEF Spec

\* Whatever the threads draw and claim at the same time is a permutation, and
\* VerifyMapping lets exactly the permutations pass.
THEOREM Verified == Spec => []OnlyPermutationsPass
<1>1. Inv => OnlyPermutationsPass
  <2> SUFFICES ASSUME Inv  PROVE OnlyPermutationsPass
    OBVIOUS
  <2>1. ASSUME phase = "valid"  PROVE Image = NodeID
    <3>1. \A i \in NodeID : SortedCopy[i] = i
      BY <2>1 DEF Inv, CompareInv, VerdictInv
    <3> QED BY <3>1, SortedOnlyIfPermutation DEF Inv
  <2>2. ASSUME phase = "aborted"  PROVE Image # NodeID
    <3>1. \E i \in NodeID : SortedCopy[i] # i
      BY <2>2 DEF Inv, CompareInv, VerdictInv
    <3> QED BY <3>1, PermutationIsSorted DEF Inv
  <2>3. phase = "aborted" => kind = "Map" \/ Image = NodeID
    BY DEF Inv, ComputedInv
  <2> QED BY <2>1, <2>2, <2>3 DEF OnlyPermutationsPass, Image
<1> QED BY <1>1, Invariance, PTL
=============================================================================
