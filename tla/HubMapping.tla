----------------------------- MODULE HubMapping -----------------------------
(***************************************************************************)
(* GenerateHubSortMapping and GenerateHubClusterMapping of                 *)
(* bench/include/gapbs/builder.h: the vertices with more than average      *)
(* degree ("hubs") get the first ids, sorted by degree or in their old     *)
(* order; the other vertices keep their id where they can, swap with the   *)
(* hub that took it, or take an id left over in a SlidingQueue.            *)
(*                                                                         *)
(* Ranking the hubs writes disjoint cells in loops that end in a barrier:  *)
(* one step here (HubSort), or one per thread (HubCluster).  The loop that *)
(* follows, where threads write to each other's part of new_ids and share  *)
(* the queue, has a step for every shared read and write.                  *)
(***************************************************************************)
EXTENDS GraphView, Containers, Integers, Sequences, FiniteSets

CONSTANTS
  Inputs,       \* [degree : [NodeID -> Nat], num_edges : Nat]
  Kinds,        \* which of the two mappings
  Threads       \* thread ids 0 .. omp_get_max_threads() - 1

NumThreads == Cardinality(Threads)
None == -1      \* (NodeID_)UINT_E_MAX

ASSUME HubAssumption ==
  /\ NumThreads \in Nat \ {0} /\ Threads = 0 .. (NumThreads - 1)
  /\ Kinds \subseteq {"HubSort", "HubCluster"}
  /\ \A input \in Inputs : input.degree \in [NodeID -> Nat] /\ input.num_edges \in Nat

VARIABLES
  input, kind,    \* the arguments
  new_ids,
  phase,          \* the parallel region being executed
  localOffsets,   \* HubCluster: hubs per thread, then their prefix sums
  numHubs,
  queue,          \* SlidingQueue<int64_t> queue(numHubs)
  todo,           \* iterations of the current "omp for" not yet taken
  unassignedCtr,
  pc, n,          \* per thread: location and loop variable
  lqueue,         \* per thread: its QueueBuffer
  slot            \* per thread: remappedTo, copy_start, or the queue position taken

shared == <<input, kind, new_ids, phase, localOffsets, numHubs, queue, todo, unassignedCtr>>
vars   == <<shared, pc, n, lqueue, slot>>

avgDegree == input.num_edges \div N
IsHub(v)  == input.degree[v] > avgDegree
Hubs      == {v \in NodeID : IsHub(v)}

Init ==
  /\ input \in Inputs /\ kind \in Kinds
  /\ new_ids = [v \in NodeID |-> None]
  /\ phase = IF kind = "HubSort" THEN "rank" ELSE "mark"
  /\ localOffsets = [t \in Threads |-> 0]
  /\ numHubs = 0
  /\ queue = NewQueue(0)
  /\ todo = {}
  /\ unassignedCtr = 0
  /\ pc = [t \in Threads |-> "start"]
  /\ n = [t \in Threads |-> 0]
  /\ lqueue = [t \in Threads |-> << >>]
  /\ slot = [t \in Threads |-> 0]

Goto(t, location) == pc' = [pc EXCEPT ![t] = location]

StartEasy(hubs) ==
  /\ numHubs' = hubs
  /\ queue' = NewQueue(hubs)
  /\ phase' = "easy"
  /\ todo' = hubs .. (N - 1)
  /\ pc' = [t \in Threads |-> "loop"]
  /\ UNCHANGED <<n, lqueue, slot>>

-----------------------------------------------------------------------------
(* HubSort: the pairs (degree, vertex) are sorted in descending order. *)

Before(u, v) == \/ input.degree[u] > input.degree[v]
                \/ input.degree[u] = input.degree[v] /\ u > v

RankHubs ==
  /\ phase = "rank"
  /\ new_ids' = [v \in NodeID |-> IF IsHub(v) THEN Cardinality({u \in NodeID : Before(u, v)})
                                  ELSE None]
  /\ StartEasy(Cardinality(Hubs))
  /\ UNCHANGED <<input, kind, localOffsets, unassignedCtr>>

-----------------------------------------------------------------------------
(* HubCluster: every thread counts the hubs of its part, then numbers them. *)

partitionSz == N \div NumThreads

\* Variant: the last part ends where the others do.
PartForgetsRest(t) == (partitionSz * t) .. (partitionSz * (t + 1) - 1)

Part(t) == (partitionSz * t) .. (IF t = NumThreads - 1 THEN N - 1
                                 ELSE partitionSz * (t + 1) - 1)

MarkHubs(t) ==
  /\ phase = "mark" /\ pc[t] = "start"
  /\ localOffsets' = [localOffsets EXCEPT ![t] = Cardinality(Hubs \intersect Part(t))]
  /\ new_ids' = [v \in NodeID |-> IF v \in Part(t) /\ IsHub(v) THEN 1 ELSE new_ids[v]]
  /\ Goto(t, "marked")
  /\ UNCHANGED <<input, kind, phase, numHubs, queue, todo, unassignedCtr, n, lqueue, slot>>

SumBefore(counts, t) ==
  LET sum[i \in 0 .. NumThreads] == IF i = 0 THEN 0 ELSE sum[i - 1] + counts[i - 1]
  IN  sum[t]

\* The serial prefix sum after the first region; numHubs = sum.
SumOffsets ==
  /\ phase = "mark" /\ \A t \in Threads : pc[t] = "marked"
  /\ localOffsets' = [t \in Threads |-> SumBefore(localOffsets, t)]
  /\ numHubs' = SumBefore(localOffsets, NumThreads)
  /\ phase' = "number"
  /\ UNCHANGED <<input, kind, new_ids, queue, todo, unassignedCtr, pc, n, lqueue, slot>>

NumberHubs(t) ==
  /\ phase = "number" /\ pc[t] = "marked"
  /\ new_ids' = [v \in NodeID |->
                   IF v \in Part(t) /\ new_ids[v] # None
                   THEN localOffsets[t] + Cardinality({w \in Part(t) : w < v /\ new_ids[w] # None})
                   ELSE new_ids[v]]
  /\ Goto(t, "numbered")
  /\ UNCHANGED <<input, kind, phase, localOffsets, numHubs, queue, todo, unassignedCtr,
                 n, lqueue, slot>>

EndNumbering ==
  /\ phase = "number" /\ \A t \in Threads : pc[t] = "numbered"
  /\ StartEasy(numHubs)
  /\ UNCHANGED <<input, kind, new_ids, localOffsets, unassignedCtr>>

-----------------------------------------------------------------------------
(* The loop over the ids no hub gets. *)

local_size == numHubs \div NumThreads

TakeVertex(t, v) ==
  /\ phase = "easy" /\ pc[t] = "loop"
  /\ v \in todo
  /\ todo' = todo \ {v}
  /\ n' = [n EXCEPT ![t] = v]
  /\ IF new_ids[v] = None
     THEN Goto(t, "keep") /\ UNCHANGED slot
     ELSE Goto(t, "look") /\ slot' = [slot EXCEPT ![t] = new_ids[v]]
  /\ UNCHANGED <<input, kind, new_ids, phase, localOffsets, numHubs, queue, unassignedCtr, lqueue>>

Assign(t, v, id, location) ==
  /\ new_ids' = [new_ids EXCEPT ![v] = id]
  /\ Goto(t, location)
  /\ n' = [n EXCEPT ![t] = 0]
  /\ slot' = [slot EXCEPT ![t] = 0]
  /\ UNCHANGED <<input, kind, phase, localOffsets, numHubs, queue, todo, unassignedCtr, lqueue>>

\* new_ids[n] = n
Keep(t) == pc[t] = "keep" /\ Assign(t, n[t], n[t], "loop")

\* Variant: the vertex that had the hub's new id is not looked at.
LookBlindly(t) ==
  /\ pc[t] = "look"
  /\ Goto(t, "swap")
  /\ UNCHANGED <<shared, n, lqueue, slot>>

\* Variant: the thread waits until the id is free.
LookWaits(t) ==
  /\ pc[t] = "look"
  /\ new_ids[slot[t]] = None
  /\ Goto(t, "swap")
  /\ UNCHANGED <<shared, n, lqueue, slot>>

\* if (new_ids[remappedTo] == (NodeID_)UINT_E_MAX)
Look(t) ==
  /\ pc[t] = "look"
  /\ IF new_ids[slot[t]] = None
     THEN Goto(t, "swap") /\ UNCHANGED slot
     ELSE Goto(t, "push") /\ slot' = [slot EXCEPT ![t] = 0]
  /\ UNCHANGED <<shared, n, lqueue>>

\* new_ids[remappedTo] = n
Swap(t) == pc[t] = "swap" /\ Assign(t, slot[t], n[t], "loop")

BufferAppend(t) ==
  /\ lqueue' = [lqueue EXCEPT ![t] = Append(@, n[t])]
  /\ n' = [n EXCEPT ![t] = 0]
  /\ Goto(t, "loop")

\* lqueue.push_back(n): a full buffer is flushed first.
Push(t) ==
  /\ pc[t] = "push"
  /\ \/ Len(lqueue[t]) # local_size /\ BufferAppend(t)
     \/ Len(lqueue[t]) = local_size /\ Goto(t, "flush") /\ UNCHANGED <<n, lqueue>>
  /\ UNCHANGED <<shared, slot>>

\* The end of the "omp for" and its barrier; then lqueue.flush().
EndEasy ==
  /\ phase = "easy" /\ todo = {}
  /\ \A t \in Threads : pc[t] = "loop"
  /\ pc' = [t \in Threads |-> "lastFlush"]
  /\ UNCHANGED <<shared, n, lqueue, slot>>

\* copy_start = fetch_and_add(sq.shared_in, in), and the test that divides by
\* sq.max_size: with no hub the division by zero ends the program.
Flush(t) ==
  /\ phase = "easy"
  /\ pc[t] \in {"flush", "lastFlush"}
  /\ slot' = [slot EXCEPT ![t] = queue.in]
  /\ queue' = FlushClaim(queue, lqueue[t])
  /\ phase' = IF numHubs = 0 THEN "fault" ELSE phase
  /\ Goto(t, IF pc[t] = "flush" THEN "copy" ELSE "lastCopy")
  /\ UNCHANGED <<input, kind, new_ids, localOffsets, numHubs, todo, unassignedCtr, n, lqueue>>

\* The std::copy calls; after a flush in push_back the element is appended.
Copy(t) ==
  /\ phase = "easy"
  /\ pc[t] \in {"copy", "lastCopy"}
  /\ queue' = FlushCopy(queue, slot[t], lqueue[t], numHubs)
  /\ slot' = [slot EXCEPT ![t] = 0]
  /\ IF pc[t] = "copy"
     THEN /\ lqueue' = [lqueue EXCEPT ![t] = <<n[t]>>]
          /\ n' = [n EXCEPT ![t] = 0]
          /\ Goto(t, "loop")
     ELSE lqueue' = [lqueue EXCEPT ![t] = << >>] /\ n' = n /\ Goto(t, "flushed")
  /\ UNCHANGED <<input, kind, new_ids, phase, localOffsets, numHubs, todo, unassignedCtr>>

\* The end of the region, queue.slide_window(), and the start of the last loop.
StartRest ==
  /\ phase = "easy" /\ \A t \in Threads : pc[t] = "flushed"
  /\ queue' = SlideWindow(queue)
  /\ phase' = "rest"
  /\ todo' = 0 .. (numHubs - 1)
  /\ pc' = [t \in Threads |-> "loop"]
  /\ UNCHANGED <<input, kind, new_ids, localOffsets, numHubs, unassignedCtr, n, lqueue, slot>>

-----------------------------------------------------------------------------
(* The ids left over, for the vertices below numHubs that have none yet. *)

TakeRest(t, v) ==
  /\ phase = "rest" /\ pc[t] = "loop"
  /\ v \in todo
  /\ todo' = todo \ {v}
  /\ IF new_ids[v] = None
     THEN n' = [n EXCEPT ![t] = v] /\ Goto(t, "fetch")
     ELSE UNCHANGED <<n, pc>>
  /\ UNCHANGED <<input, kind, new_ids, phase, localOffsets, numHubs, queue, unassignedCtr,
                 lqueue, slot>>

\* __sync_fetch_and_add(&unassignedCtr, 1)
Fetch(t) ==
  /\ pc[t] = "fetch"
  /\ slot' = [slot EXCEPT ![t] = unassignedCtr]
  /\ unassignedCtr' = unassignedCtr + 1
  /\ Goto(t, "assign")
  /\ UNCHANGED <<input, kind, new_ids, phase, localOffsets, numHubs, queue, todo, n, lqueue>>

\* u = *(q_iter + ...); new_ids[n] = u
AssignRest(t) ==
  /\ pc[t] = "assign"
  /\ Assign(t, n[t], queue.shared[queue.start + slot[t]], "loop")

EndRest ==
  /\ phase = "rest" /\ todo = {}
  /\ \A t \in Threads : pc[t] = "loop"
  /\ phase' = "done"
  /\ UNCHANGED <<input, kind, new_ids, localOffsets, numHubs, queue, todo, unassignedCtr,
                 pc, n, lqueue, slot>>

Thread(t) ==
  \/ MarkHubs(t) \/ NumberHubs(t)
  \/ \E v \in todo : TakeVertex(t, v) \/ TakeRest(t, v)
  \/ Keep(t) \/ Look(t) \/ Swap(t) \/ Push(t) \/ Flush(t) \/ Copy(t)
  \/ Fetch(t) \/ AssignRest(t)

Serial == RankHubs \/ SumOffsets \/ EndNumbering \/ EndEasy \/ StartRest \/ EndRest

Next == Serial \/ \E t \in Threads : Thread(t)

Spec == Init /\ [][Next]_vars

-----------------------------------------------------------------------------
(* Properties *)

\* While the hubs are marked, with 1, that need not be an id.
TypeOK ==
  /\ kind \in Kinds
  /\ new_ids \in [NodeID -> NodeID \union {None, 1}]
  /\ phase \in {"rank", "mark", "number", "easy", "rest", "done", "fault"}
  /\ numHubs \in 0 .. N
  /\ DOMAIN queue.shared = IF phase \in {"rank", "mark", "number"} THEN {} ELSE 0 .. (numHubs - 1)
  /\ queue.in \in 0 .. N /\ queue.start \in 0 .. queue.end /\ queue.end \in 0 .. queue.in
  /\ todo \subseteq NodeID /\ unassignedCtr \in 0 .. N
  /\ pc \in [Threads -> {"start", "marked", "numbered", "loop", "keep", "look", "swap", "push",
                         "flush", "copy", "lastFlush", "lastCopy", "flushed", "fetch", "assign"}]
  /\ n \in [Threads -> NodeID] /\ slot \in [Threads -> 0 .. N]
  /\ \A t \in Threads : \A i \in 1 .. Len(lqueue[t]) : lqueue[t][i] \in NodeID

Ranked == phase \in {"easy", "rest", "done"}
Assigned == {v \in NodeID : new_ids[v] # None}

\* The mapping VerifyMapping accepts: the sorted ids are 0 .. num_nodes - 1.
Permutation == phase = "done" => {new_ids[v] : v \in NodeID} = NodeID

\* The hubs get the ids below numHubs, in descending order of their degree
\* (HubSort) or in their old order (HubCluster), and no later step disturbs it.
HubsInOrder ==
  Ranked =>
    \A u, v \in Hubs :
      /\ new_ids[u] \in 0 .. (Cardinality(Hubs) - 1)
      /\ kind = "HubSort" /\ input.degree[u] > input.degree[v] => new_ids[u] < new_ids[v]
      /\ kind = "HubCluster" /\ u < v => new_ids[u] < new_ids[v]

(***************************************************************************)
(* "the queue keeps a list of vertices where a simple swap of locations is *)
(* not possible": in the last loop the window holds exactly the ids nobody *)
(* has, each once, as many as there are vertices without one.              *)
(***************************************************************************)
Pending == {QueueWindow(queue)[i] : i \in (unassignedCtr + 1) .. (queue.end - queue.start)}

QueueHoldsTheRest ==
  phase = "rest" =>
    LET held == {queue.shared[queue.start + slot[t]] : t \in {x \in Threads : pc[x] = "assign"}}
    IN  /\ Pending \union held = NodeID \ {new_ids[v] : v \in Assigned}
        /\ Cardinality(Pending) = queue.end - queue.start - unassignedCtr
        /\ Cardinality(Pending) + Cardinality(held) = N - Cardinality(Assigned)

\* "This steps preserves the ordering of the original graph (as much as
\* possible)": a vertex that is no hub moves only if its id went to a hub.
NonHubsStay ==
  phase = "done" => \A v \in NodeID : v >= numHubs /\ ~ IsHub(v) => new_ids[v] = v

\* The order of the original graph survives: among the hubs, and as far as
\* possible among the others.
OrderKept == HubsInOrder /\ NonHubsStay

\* Hubs come first and in order, a vertex moves only if a hub took its id, and
\* the queue the threads push to holds exactly the ids nobody has.
HubsFirst == TypeOK /\ OrderKept /\ QueueHoldsTheRest
=============================================================================
