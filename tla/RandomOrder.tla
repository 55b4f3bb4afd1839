---------------------------- MODULE RandomOrder ----------------------------
(***************************************************************************)
(* The orders that look at nothing, of bench/include/gapbs/builder.h, and  *)
(* the check a build with _DEBUG makes of every mapping:                   *)
(*   Original     the identity;                                            *)
(*   Random       a shuffled sequence of the ids, granularity 1;           *)
(*   Random_v2    every vertex draws ids until it has claimed one that no  *)
(*                other had; called by nothing;                            *)
(*   VerifyMapping   sorts a copy and counts the cells that are wrong.     *)
(* Mapping files are checked too: any ids may come from one (None where    *)
(* the file ended).                                                        *)
(***************************************************************************)
EXTENDS GraphView, Integers, FiniteSets, Functions

CONSTANTS
  Kinds,
  Threads

None == -1

VARIABLES
  kind, new_ids, phase,
  claimedVtxs,   \* the ids some vertex has claimed
  todo,          \* iterations of the current loop not taken
  th,            \* thread -> [v, randID], its iteration and what it drew
  hist, count    \* VerifyMapping

vars == <<kind, new_ids, phase, claimedVtxs, todo, th, hist, count>>

Idle == [v |-> None, randID |-> None]

Init ==
  /\ kind \in Kinds
  /\ new_ids = [v \in NodeID |-> None]
  /\ phase = "map" /\ todo = NodeID
  /\ claimedVtxs = {} /\ th = [t \in Threads |-> Idle]
  /\ hist = << >> /\ count = 0

GenerateOriginalMapping ==
  /\ phase = "map" /\ kind = "Original"
  /\ new_ids' = [v \in NodeID |-> v]
  /\ phase' = "verify"
  /\ UNCHANGED <<kind, claimedVtxs, todo, th, hist, count>>

GenerateRandomMapping ==
  /\ phase = "map" /\ kind = "Random"
  /\ \E slice_index \in Bijection(NodeID, NodeID) : new_ids' = slice_index
  /\ phase' = "verify"
  /\ UNCHANGED <<kind, claimedVtxs, todo, th, hist, count>>

LoadMapping ==
  /\ phase = "map" /\ kind = "Map"
  /\ new_ids' \in [NodeID -> NodeID \union {None}]
  /\ phase' = "verify"
  /\ UNCHANGED <<kind, claimedVtxs, todo, th, hist, count>>

-----------------------------------------------------------------------------
(* GenerateRandomMapping_v2. *)

TakeVertex(t) ==
  /\ phase = "map" /\ kind = "Random_v2" /\ th[t].v = None
  /\ \E v \in todo : th' = [th EXCEPT ![t].v = v] /\ todo' = todo \ {v}
  /\ UNCHANGED <<kind, new_ids, phase, claimedVtxs, hist, count>>

\* std::rand(), and the read of claimedVtxs[randID].
Draw(t) ==
  /\ th[t].v # None /\ th[t].randID = None
  /\ \E randID \in NodeID \ claimedVtxs : th' = [th EXCEPT ![t].randID = randID]
  /\ UNCHANGED <<kind, new_ids, phase, claimedVtxs, todo, hist, count>>

\* Variant: the id read as unclaimed is taken.
WonAsRead(randID) == TRUE

\* compare_and_swap(claimedVtxs[randID], 0, 1)
Won(randID) == randID \notin claimedVtxs

Claim(t) ==
  /\ th[t].randID # None
  /\ claimedVtxs' = claimedVtxs \union {th[t].randID}
  /\ IF Won(th[t].randID)
     THEN new_ids' = [new_ids EXCEPT ![th[t].v] = th[t].randID] /\ th' = [th EXCEPT ![t] = Idle]
     ELSE th' = [th EXCEPT ![t].randID = None] /\ UNCHANGED new_ids
  /\ UNCHANGED <<kind, phase, todo, hist, count>>

AllClaimed ==
  /\ phase = "map" /\ kind = "Random_v2" /\ todo = {} /\ \A t \in Threads : th[t] = Idle
  /\ phase' = "verify"
  /\ UNCHANGED <<kind, new_ids, claimedVtxs, todo, th, hist, count>>

-----------------------------------------------------------------------------
(* VerifyMapping. *)

\* The ids in ascending order.
SortedCopy == [i \in NodeID |->
  CHOOSE id \in {new_ids[v] : v \in NodeID} :
    /\ Cardinality({v \in NodeID : new_ids[v] < id}) <= i
    /\ Cardinality({v \in NodeID : new_ids[v] <= id}) > i]

VerifyMapping ==
  /\ phase = "verify"
  /\ hist' = SortedCopy
  /\ todo' = NodeID /\ count' = 0
  /\ phase' = "compare"
  /\ UNCHANGED <<kind, new_ids, claimedVtxs, th>>

Compare(i) ==
  /\ phase = "compare" /\ i \in todo
  /\ count' = IF hist[i] # i THEN count + 1 ELSE count
  /\ todo' = todo \ {i}
  /\ UNCHANGED <<kind, new_ids, phase, claimedVtxs, th, hist>>

Verdict ==
  /\ phase = "compare" /\ todo = {}
  /\ phase' = IF count # 0 THEN "aborted" ELSE "valid"
  /\ UNCHANGED <<kind, new_ids, claimedVtxs, todo, th, hist, count>>

Finished == phase \in {"valid", "aborted"} /\ UNCHANGED vars

Next ==
  \/ GenerateOriginalMapping \/ GenerateRandomMapping \/ LoadMapping \/ AllClaimed
  \/ \E t \in Threads : TakeVertex(t) \/ Draw(t) \/ Claim(t)
  \/ VerifyMapping \/ Verdict \/ Finished
  \/ \E i \in NodeID : Compare(i)

Spec == Init /\ [][Next]_vars

-----------------------------------------------------------------------------

(***************************************************************************)
(* The mappings computed here are permutations, although the vertices draw *)
(* and claim their ids at the same time, and VerifyMapping aborts on every *)
(* mapping that is not one and on no other.                                *)
(***************************************************************************)
OnlyPermutationsPass ==
  /\ phase = "valid" => {new_ids[v] : v \in NodeID} = NodeID
  /\ phase = "aborted" => kind = "Map" /\ {new_ids[v] : v \in NodeID} # NodeID
=============================================================================
