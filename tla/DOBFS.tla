-------------------------------- MODULE DOBFS --------------------------------
(***************************************************************************)
(* bench/src/bfs.cc: direction-optimizing breadth-first search.            *)
(*                                                                         *)
(* A level is searched top-down, from the vertices in the window of a      *)
(* SlidingQueue, or bottom-up, from the unvisited vertices that look for a *)
(* parent in the bitmap front; the frontier is converted when the          *)
(* direction changes.  Threads race for parents with compare_and_swap top- *)
(* down; bottom-up each vertex is written by one thread, but set_bit reads *)
(* a word of the bitmap and writes it back.                                *)
(*                                                                         *)
(* Each read and write of a cell of parent top-down, and of a word of the  *)
(* bitmap written, is a step.  front is only read while a level is         *)
(* searched, and parent[u] only written by the thread that took u, so a    *)
(* vertex bottom-up looks for its parent in one step.                      *)
(***************************************************************************)
EXTENDS GraphView, Integers, FiniteSets, Containers

CONSTANTS
  Graphs,
  Alphas, Betas,    \* values of the parameters alpha and beta
  WordBits,         \* Bitmap::kBitsPerWord
  ChunkSize,        \* schedule(dynamic, 1024)
  BufferSize,       \* given_size of a QueueBuffer
  Threads

ASSUME DOBFSAssumption ==
  /\ \A g \in Graphs : IsGraph(g)
  /\ Alphas \subseteq Nat \ {0} /\ Betas \subseteq Nat \ {0}
  /\ WordBits \in Nat \ {0} /\ BufferSize \in Nat \ {0}
  /\ ChunkSize \in Nat \ {0} /\ ChunkSize % WordBits = 0

VARIABLES
  graph, source, alpha, beta,       \* the arguments
  parent,
  queue,
  front, curr,                      \* the bitmaps, as sets of vertices
  edges_to_check, scout_count,
  awake_count, old_awake_count,
  phase,                            \* "test" is the condition of the while loop
  todo,                             \* iterations (or chunks) not yet taken
  count,                            \* the reduction variable of the region
  pc, u, k, curr_val,               \* per thread: location, vertex, neighbours visited, value read
  word,                             \* the word of a bitmap read
  lqueue                            \* its QueueBuffer

inputs == <<graph, source, alpha, beta>>
bitmaps == <<front, curr>>
counts == <<edges_to_check, scout_count, awake_count, old_awake_count>>
locals == <<pc, u, k, curr_val, word, lqueue>>
vars == <<inputs, parent, queue, bitmaps, counts, phase, todo, count, locals>>

InitParent(n) == IF OutDegree(graph, n) # 0 THEN - OutDegree(graph, n) ELSE -1

num_edges_directed == LET sum[n \in 0 .. N] == IF n = 0 THEN 0
                                               ELSE sum[n - 1] + OutDegree(graph, n - 1)
                      IN  sum[N]

Init ==
  /\ graph \in Graphs /\ source \in NodeID /\ alpha \in Alphas /\ beta \in Betas
  /\ parent = [n \in NodeID |-> IF n = source THEN source ELSE InitParent(n)]
  /\ queue = SlideWindow(PushBack(NewQueue(N), source))
  /\ front = {} /\ curr = {}
  /\ edges_to_check = num_edges_directed
  /\ scout_count = OutDegree(graph, source)
  /\ awake_count = 0 /\ old_awake_count = 0
  /\ phase = "test"
  /\ todo = {} /\ count = 0
  /\ pc = [t \in Threads |-> "idle"]
  /\ u = [t \in Threads |-> 0] /\ k = [t \in Threads |-> 0]
  /\ curr_val = [t \in Threads |-> 0] /\ word = [t \in Threads |-> {}]
  /\ lqueue = [t \in Threads |-> << >>]

-----------------------------------------------------------------------------
(* The loop of DOBFS: which way to search the next level. *)

Elements(q) == {q.shared[i] : i \in q.start .. (q.end - 1)}

\* Integer division of C++.
Quotient(a, b) == IF a >= 0 THEN a \div b ELSE - ((- a) \div b)

Chunks == 0 .. ((N - 1) \div ChunkSize)

\* A call of BUStep: next.reset(), and its parallel loop.
StartBottomUp == phase' = "bottomUp" /\ todo' = Chunks /\ count' = 0

Finish ==
  /\ phase = "test" /\ queue.start = queue.end
  /\ parent' = [n \in NodeID |-> IF parent[n] < -1 THEN -1 ELSE parent[n]]
  /\ phase' = "done"
  /\ UNCHANGED <<inputs, queue, bitmaps, counts, todo, count, locals>>

\* Variant: the vertices of the queue are not put into front.
FrontAsItIs == front

\* QueueToBitmap: set_bit_atomic of every element; front is not cleared.
QueueToBitmap == front \union Elements(queue)

GoBottomUp ==
  /\ phase = "test" /\ queue.start # queue.end
  /\ scout_count > Quotient(edges_to_check, alpha)
  /\ front' = QueueToBitmap
  /\ curr' = {}
  /\ awake_count' = queue.end - queue.start
  /\ old_awake_count' = awake_count'
  /\ queue' = SlideWindow(queue)
  /\ StartBottomUp
  /\ UNCHANGED <<inputs, parent, edges_to_check, scout_count, locals>>

GoTopDown ==
  /\ phase = "test" /\ queue.start # queue.end
  /\ scout_count <= Quotient(edges_to_check, alpha)
  /\ edges_to_check' = edges_to_check - scout_count
  /\ phase' = "topDown"
  /\ todo' = queue.start .. (queue.end - 1)
  /\ count' = 0
  /\ UNCHANGED <<inputs, parent, queue, bitmaps, scout_count, awake_count, old_awake_count,
                 locals>>

-----------------------------------------------------------------------------
Goto(t, location) == pc' = [pc EXCEPT ![t] = location]

\* The QueueBuffer of a thread.
FlushTo(t, q) ==
  queue' = FlushCopy(FlushClaim(q, lqueue[t]), q.in, lqueue[t], N)

\* push_back, which flushes a full buffer first.  The cells a flush claims are
\* its own, and are read after the barrier only: claim and copy are one step.
PushLocal(t, x) ==
  IF Len(lqueue[t]) = BufferSize
  THEN FlushTo(t, queue) /\ lqueue' = [lqueue EXCEPT ![t] = <<x>>]
  ELSE lqueue' = [lqueue EXCEPT ![t] = Append(@, x)] /\ UNCHANGED queue

\* lqueue.flush() after the loop, which has no barrier of its own.
LastFlush(t) ==
  /\ phase \in {"topDown", "toQueue"} /\ todo = {} /\ pc[t] = "idle" /\ lqueue[t] # << >>
  /\ FlushTo(t, queue)
  /\ lqueue' = [lqueue EXCEPT ![t] = << >>]
  /\ UNCHANGED <<inputs, parent, bitmaps, counts, phase, todo, count, pc, u, k, curr_val, word>>

RegionDone == todo = {} /\ \A t \in Threads : pc[t] = "idle" /\ lqueue[t] = << >>

-----------------------------------------------------------------------------
(* TDStep *)

TakeElement(t, i) ==
  /\ phase = "topDown" /\ pc[t] = "idle" /\ i \in todo
  /\ todo' = todo \ {i}
  /\ u' = [u EXCEPT ![t] = queue.shared[i]]
  /\ k' = [k EXCEPT ![t] = 0]
  /\ Goto(t, "next")
  /\ UNCHANGED <<inputs, parent, queue, bitmaps, counts, phase, count, curr_val, word, lqueue>>

EndElement(t) ==
  /\ pc[t] = "next" /\ k[t] = OutDegree(graph, u[t])
  /\ Goto(t, "idle")
  /\ u' = [u EXCEPT ![t] = 0] /\ k' = [k EXCEPT ![t] = 0]
  /\ UNCHANGED <<inputs, parent, queue, bitmaps, counts, phase, todo, count, curr_val, word,
                 lqueue>>

\* curr_val = parent[v], and  if (curr_val < 0)
ReadParent(t) ==
  /\ pc[t] = "next" /\ k[t] < OutDegree(graph, u[t])
  /\ k' = [k EXCEPT ![t] = @ + 1]
  /\ LET v == OutNeigh(graph, u[t])[k[t] + 1]
     IN  IF parent[v] < 0
         THEN curr_val' = [curr_val EXCEPT ![t] = parent[v]] /\ Goto(t, "cas")
         ELSE UNCHANGED <<curr_val, pc>>
  /\ UNCHANGED <<inputs, parent, queue, bitmaps, counts, phase, todo, count, u, word, lqueue>>

\* Variant: a plain store to parent[v].
PlainStore(t) ==
  /\ pc[t] = "cas"
  /\ LET v == OutNeigh(graph, u[t])[k[t]]
     IN  /\ parent' = [parent EXCEPT ![v] = u[t]]
         /\ PushLocal(t, v)
  /\ count' = count - curr_val[t]
  /\ curr_val' = [curr_val EXCEPT ![t] = 0]
  /\ Goto(t, "next")
  /\ UNCHANGED <<inputs, bitmaps, counts, phase, todo, u, k, word>>

\* compare_and_swap(parent[v], curr_val, u)
CompareAndSwap(t) ==
  /\ pc[t] = "cas"
  /\ LET v == OutNeigh(graph, u[t])[k[t]]
     IN  IF parent[v] = curr_val[t]
         THEN /\ parent' = [parent EXCEPT ![v] = u[t]]
              /\ PushLocal(t, v)
              /\ count' = count - curr_val[t]
         ELSE UNCHANGED <<parent, queue, lqueue, count>>
  /\ curr_val' = [curr_val EXCEPT ![t] = 0]
  /\ Goto(t, "next")
  /\ UNCHANGED <<inputs, bitmaps, counts, phase, todo, u, k, word>>

EndTopDown ==
  /\ phase = "topDown" /\ RegionDone
  /\ scout_count' = count
  /\ queue' = SlideWindow(queue)
  /\ phase' = "test"
  /\ count' = 0
  /\ UNCHANGED <<inputs, parent, bitmaps, edges_to_check, awake_count, old_awake_count, todo,
                 locals>>

-----------------------------------------------------------------------------
(* BUStep *)

TakeChunk(t, c) ==
  /\ phase = "bottomUp" /\ pc[t] = "idle" /\ c \in todo
  /\ todo' = todo \ {c}
  /\ u' = [u EXCEPT ![t] = c * ChunkSize]
  /\ Goto(t, "look")
  /\ UNCHANGED <<inputs, parent, queue, bitmaps, counts, phase, count, k, curr_val, word, lqueue>>

\* On to the next vertex of the chunk, if there is one.
Advance(t) ==
  IF u[t] + 1 < N /\ (u[t] + 1) % ChunkSize # 0
  THEN Goto(t, "look") /\ u' = [u EXCEPT ![t] = @ + 1]
  ELSE Goto(t, "idle") /\ u' = [u EXCEPT ![t] = 0]

Awake(v) == {i \in 1 .. InDegree(graph, v) : InNeigh(graph, v)[i] \in front}

\* The first neighbour in front becomes the parent of u.
Look(t) ==
  /\ pc[t] = "look"
  /\ IF parent[u[t]] < 0 /\ Awake(u[t]) # {}
     THEN LET i == CHOOSE i \in Awake(u[t]) : \A j \in Awake(u[t]) : i <= j
          IN  /\ parent' = [parent EXCEPT ![u[t]] = InNeigh(graph, u[t])[i]]
              /\ count' = count + 1
              /\ Goto(t, "readWord")
              /\ UNCHANGED u
     ELSE Advance(t) /\ UNCHANGED <<parent, count>>
  /\ UNCHANGED <<inputs, queue, bitmaps, counts, phase, todo, k, curr_val, word, lqueue>>

\* Variant: words of twice the size, so that two chunks share one.
WideWord(v) == {n \in NodeID : n \div (2 * WordBits) = v \div (2 * WordBits)}

WordOf(v) == {n \in NodeID : n \div WordBits = v \div WordBits}

\* next.set_bit(u): start_[word_offset(u)] |= ...
ReadWord(t) ==
  /\ pc[t] = "readWord"
  /\ word' = [word EXCEPT ![t] = curr \intersect WordOf(u[t])]
  /\ Goto(t, "writeWord")
  /\ UNCHANGED <<inputs, parent, queue, bitmaps, counts, phase, todo, count, u, k, curr_val,
                 lqueue>>

WriteWord(t) ==
  /\ pc[t] = "writeWord"
  /\ curr' = (curr \ WordOf(u[t])) \union word[t] \union {u[t]}
  /\ word' = [word EXCEPT ![t] = {}]
  /\ Advance(t)
  /\ UNCHANGED <<inputs, parent, queue, front, counts, phase, todo, count, k, curr_val, lqueue>>

\* The condition of the do ... while.
StaysBottomUp(awake) == awake >= old_awake_count \/ awake > N \div beta

\* front.swap(curr), and the do ... while: once more, or back to the queue.
EndBottomUp ==
  /\ phase = "bottomUp" /\ RegionDone
  /\ awake_count' = count
  /\ front' = curr
  /\ IF StaysBottomUp(count)
     THEN /\ old_awake_count' = count
          /\ curr' = {}
          /\ StartBottomUp
     ELSE /\ UNCHANGED old_awake_count
          /\ curr' = front
          /\ phase' = "toQueue" /\ todo' = NodeID /\ count' = 0
  /\ UNCHANGED <<inputs, parent, queue, edges_to_check, scout_count, locals>>

-----------------------------------------------------------------------------
(* BitmapToQueue *)

TakeBit(t, n) ==
  /\ phase = "toQueue" /\ n \in todo
  /\ todo' = todo \ {n}
  /\ IF n \in front THEN PushLocal(t, n) ELSE UNCHANGED <<queue, lqueue>>
  /\ UNCHANGED <<inputs, parent, bitmaps, counts, phase, count, pc, u, k, curr_val, word>>

EndToQueue ==
  /\ phase = "toQueue" /\ RegionDone
  /\ queue' = SlideWindow(queue)
  /\ scout_count' = 1
  /\ phase' = "test"
  /\ UNCHANGED <<inputs, parent, bitmaps, edges_to_check, awake_count, old_awake_count, todo,
                 count, locals>>

TopDownStep(t) == \/ \E i \in todo : TakeElement(t, i)
                  \/ EndElement(t) \/ ReadParent(t) \/ CompareAndSwap(t)
BottomUpStep(t) == \/ \E c \in todo : TakeChunk(t, c)
                   \/ Look(t) \/ ReadWord(t) \/ WriteWord(t)

Thread(t) == \/ TopDownStep(t) \/ BottomUpStep(t) \/ LastFlush(t)
             \/ \E n \in todo : TakeBit(t, n)

Serial == Finish \/ GoBottomUp \/ GoTopDown \/ EndTopDown \/ EndBottomUp \/ EndToQueue

Next == Serial \/ \E t \in Threads : Thread(t)

Spec == Init /\ [][Next]_vars

-----------------------------------------------------------------------------
(* Properties *)

TypeOK ==
  /\ parent \in [NodeID -> Int] /\ \A n \in NodeID : parent[n] < N
  /\ front \subseteq NodeID /\ curr \subseteq NodeID
  /\ queue.start \in 0 .. N /\ queue.end \in queue.start .. N /\ queue.in \in queue.end .. N
  /\ count \in Nat
  /\ phase \in {"test", "topDown", "bottomUp", "toQueue", "done"}
  /\ pc \in [Threads -> {"idle", "next", "cas", "look", "readWord", "writeWord"}]
  /\ u \in [Threads -> NodeID]
  /\ \A t \in Threads : lqueue[t] \in Seq(NodeID) /\ Len(lqueue[t]) <= BufferSize

\* The vertices up to each depth, and those of a depth.
OutSet(g, p) == {OutNeigh(g, p)[i] : i \in 1 .. OutDegree(g, p)}
ReachedFrom(g, s) ==
  LET reached[d \in 0 .. N] ==
        IF d = 0 THEN {s}
        ELSE reached[d - 1] \union UNION {OutSet(g, p) : p \in reached[d - 1]}
  IN  reached
Reached == ReachedFrom(graph, source)
AtDepth(d) == IF d = 0 THEN {source} ELSE Reached[d] \ Reached[d - 1]

Visited == {n \in NodeID : parent[n] >= 0}

(***************************************************************************)
(* BFSVerifier: the source is its own parent, everybody else reached has a *)
(* parent one level up with an edge to it, and nobody else has a parent.   *)
(***************************************************************************)
BFSVerifier ==
  /\ parent[source] = source
  /\ \A v \in NodeID \ {source} :
       IF v \in Reached[N]
       THEN \E i \in 1 .. InDegree(graph, v) :
              /\ InNeigh(graph, v)[i] = parent[v]
              /\ \E d \in 1 .. N : v \in AtDepth(d) /\ parent[v] \in AtDepth(d - 1)
       ELSE parent[v] = -1

\* "asserts" the verifier: whatever races were won and whichever way each
\* level was searched, the result is a tree of shortest paths.
TreeVerified == phase = "done" => BFSVerifier

\* Where the loop is tested, the window of the queue holds exactly the
\* vertices of one depth, and those up to it are the visited ones - although
\* front was never cleared of an earlier bottom-up search when this one began.
FrontierIsLevel ==
  phase = "test" =>
    \/ Elements(queue) = {} /\ Visited = Reached[N]
    \/ \E d \in 0 .. N : Elements(queue) = AtDepth(d) /\ Visited = Reached[d]

\* A vertex is put into the queue once in all, which is why N cells do.
EnqueuedOnce ==
  \A i, j \in 0 .. (queue.in - 1) : i # j => queue.shared[i] # queue.shared[j]

\* The edges that leave the vertices of S, a vertex without edges counting as 1.
EdgesOf(g, S) ==
  LET scouted == [n \in NodeID |-> IF n \notin S THEN 0
                                   ELSE IF OutDegree(g, n) = 0 THEN 1 ELSE OutDegree(g, n)]
      sum[n \in 0 .. N] == IF n = 0 THEN 0 ELSE sum[n - 1] + scouted[n - 1]
  IN  sum[N]

\* "scout_count += -curr_val": after a top-down level it is the number of edges
\* that leave the next frontier.
ScoutCounts ==
  phase = "topDown" /\ RegionDone =>
    count = EdgesOf(graph, {queue.shared[i] : i \in queue.end .. (queue.in - 1)})

\* What the next level starts from is this level, complete and without
\* repetition, whichever way it was searched.
LevelsAreExact == FrontierIsLevel /\ EnqueuedOnce /\ ScoutCounts

(***************************************************************************)
(* The search refines LevelBFS: a vertex is adopted once, from the level   *)
(* being searched, and the next level is not begun before this one is done *)
(* - the level being the window of the queue, or the deepest vertices      *)
(* whose bits are set in front (shallower ones are stale).                 *)
(***************************************************************************)
NoParent == -1
Adopted == [n \in NodeID |-> IF parent[n] < 0 THEN NoParent ELSE parent[n]]
\* How often one goes from n to its parent, at most i times, to come to the source.
DepthIn(p, s) ==
  LET depth[i \in 0 .. N] ==
        [n \in NodeID |-> IF i = 0 \/ n = s \/ p[n] < 0 THEN 0 ELSE 1 + depth[i - 1][p[n]]]
  IN  depth[N]
Depth == DepthIn(parent, source)
Deepest(S) == {n \in S : \A m \in S : Depth[m] <= Depth[n]}
SearchedLevel ==
  IF phase \in {"bottomUp", "toQueue"}
  THEN Deepest(front)
  ELSE Elements(queue)
Children == LET level == SearchedLevel
            IN  {n \in NodeID \ {source} : parent[n] \in level}

Levels == INSTANCE LevelBFS
            WITH tree <- Adopted, level <- SearchedLevel, next_level <- Children

RefinesLevels == Levels!LSpec
=============================================================================
